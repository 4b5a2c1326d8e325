-------------------------- MODULE JobSchedulerProofs --------------------------
(***************************************************************************)
(* Proofs about JobScheduler, for all finite sets of schedulers and        *)
(* threads, every number of callers and all sizes of the pools.            *)
(***************************************************************************)
EXTENDS JobScheduler, FiniteSetTheorems, SequenceTheorems, TLAPS

-----------------------------------------------------------------------------
(* Lists without duplicates                                                  *)

\* What it means for a list to be another one without x.
Lost(new, old, x) == IsInjective(new) /\ Range(new) = Range(old) \ {x}

\* What a part of a sequence is.
LEMMA PartIs ==
  ASSUME NEW S, NEW seq \in Seq(S), NEW a \in Nat \ {0}, NEW b \in 0..Len(seq),
         NEW part, part = SubSeq(seq, a, b)
  PROVE  /\ part \in Seq(S)
         /\ Len(part) = IF a <= b THEN b - a + 1 ELSE 0
         /\ \A i \in 1..Len(part) : part[i] = seq[a + i - 1]
<1>1. /\ a \in Int /\ b \in Int
      /\ \A i \in a..b : seq[i] \in S
  OBVIOUS
<1>2. /\ part \in Seq(S)
      /\ Len(part) = IF a <= b THEN b - a + 1 ELSE 0
      /\ \A i \in 1..(b - a + 1) : part[i] = seq[a + i - 1]
  BY <1>1, SubSeqProperties
<1>3. QED BY <1>1, <1>2

\* The end of a list is in it, and pop_back takes it out.
LEMMA PopIs ==
  ASSUME NEW S, NEW seq \in Seq(S), IsInjective(seq), seq # <<>>
  PROVE  /\ Len(seq) \in Nat /\ Len(seq) > 0
         /\ Last(seq) \in S /\ Last(seq) \in Range(seq)
         /\ Front(seq) \in Seq(S) /\ Len(Front(seq)) = Len(seq) - 1
         /\ Lost(Front(seq), seq, Last(seq))
<1>1. Len(seq) \in Nat /\ Len(seq) > 0
  OBVIOUS
<1>2. Last(seq) \in S /\ Last(seq) \in Range(seq)
  BY <1>1 DEF Last, Range
<1>3. PICK front : front = Front(seq)
  OBVIOUS
<1>4. front \in Seq(S) /\ Len(front) = Len(seq) - 1 /\ \A i \in 1..Len(front) : front[i] = seq[i]
  <2>1. front = SubSeq(seq, 1, Len(seq) - 1)
    BY <1>3 DEF Front
  <2>2. 1 \in Nat \ {0} /\ Len(seq) - 1 \in 0..Len(seq)
    BY <1>1
  <2>3. /\ front \in Seq(S)
        /\ Len(front) = IF 1 <= Len(seq) - 1 THEN (Len(seq) - 1) - 1 + 1 ELSE 0
        /\ \A j \in 1..Len(front) : front[j] = seq[1 + j - 1]
    BY <2>1, <2>2, PartIs
  <2>4. Len(front) = Len(seq) - 1
    <3>1. PICK n : n = Len(seq)
      OBVIOUS
    <3>2. n \in Nat /\ n > 0 /\ Len(front) = IF 1 <= n - 1 THEN (n - 1) - 1 + 1 ELSE 0
      BY <1>1, <2>3, <3>1
    <3>3. QED BY ONLY <3>1, <3>2
  <2>5. \A j \in 1..Len(front) : 1 + j - 1 = j
    BY <1>1, <2>4
  <2>6. QED BY <2>3, <2>4, <2>5
<1>5. IsInjective(front)
  BY <1>1, <1>4 DEF IsInjective
<1>6. Range(front) = Range(seq) \ {Last(seq)}
  <2>1. \A i \in 1..Len(front) : i # Len(seq) /\ i \in 1..Len(seq)
    BY <1>1, <1>4
  <2>2. Range(front) \subseteq Range(seq) \ {Last(seq)}
    BY <1>1, <1>4, <2>1 DEF Range, Last, IsInjective
  <2>3. \A i \in 1..Len(seq) : i = Len(seq) \/ i \in 1..Len(front)
    BY <1>1, <1>4
  <2>4. Range(seq) \ {Last(seq)} \subseteq Range(front)
    BY <1>1, <1>4, <2>3 DEF Range, Last
  <2>5. QED BY <2>2, <2>4
<1>7. QED BY <1>1, <1>2, <1>3, <1>4, <1>5, <1>6 DEF Lost

\* The head of a list is in it, and the tail is the list without it.
LEMMA TailIs ==
  ASSUME NEW S, NEW seq \in Seq(S), IsInjective(seq), seq # <<>>
  PROVE  /\ Head(seq) \in S /\ Head(seq) \in Range(seq)
         /\ Tail(seq) \in Seq(S)
         /\ Lost(Tail(seq), seq, Head(seq))
<1>1. Len(seq) \in Nat /\ Len(seq) > 0
  OBVIOUS
<1>2. Head(seq) \in S /\ Head(seq) \in Range(seq)
  BY <1>1 DEF Range
<1>3. PICK tail : tail = Tail(seq)
  OBVIOUS
<1>4. tail \in Seq(S) /\ Len(tail) = Len(seq) - 1 /\ \A i \in 1..Len(tail) : tail[i] = seq[i + 1]
  BY <1>1, <1>3
<1>5. IsInjective(tail)
  BY <1>1, <1>4 DEF IsInjective
<1>6. Range(tail) = Range(seq) \ {Head(seq)}
  <2>1. \A i \in 1..Len(tail) : i + 1 # 1 /\ i + 1 \in 1..Len(seq)
    BY <1>1, <1>4
  <2>2. Range(tail) \subseteq Range(seq) \ {Head(seq)}
    BY <1>1, <1>4, <2>1 DEF Range, IsInjective
  <2>3. \A i \in 1..Len(seq) : i # 1 => i - 1 \in 1..Len(tail) /\ tail[i - 1] = seq[i]
    BY <1>1, <1>4
  <2>4. Range(seq) \ {Head(seq)} \subseteq Range(tail)
    BY <1>1, <1>4, <2>3 DEF Range
  <2>5. QED BY <2>2, <2>4
<1>7. QED BY <1>2, <1>3, <1>4, <1>5, <1>6 DEF Lost

\* An element that is cut out of a list is not in it any more.
LEMMA RemoveIs ==
  ASSUME NEW S, NEW seq \in Seq(S), IsInjective(seq), NEW i \in DOMAIN seq
  PROVE  /\ RemoveAt(seq, i) \in Seq(S)
         /\ Lost(RemoveAt(seq, i), seq, seq[i])
<1>1. Len(seq) \in Nat /\ i \in 1..Len(seq) /\ DOMAIN seq = 1..Len(seq)
  OBVIOUS
<1>2. PICK left : left = SubSeq(seq, 1, i - 1)
  OBVIOUS
<1>11. PICK right : right = SubSeq(seq, i + 1, Len(seq))
  OBVIOUS
<1>12. PICK rest : rest = left \o right
  OBVIOUS
<1>3. left \in Seq(S) /\ Len(left) = i - 1 /\ \A j \in 1..(i - 1) : left[j] = seq[j]
  BY <1>1, <1>2, PartIs
<1>4. right \in Seq(S) /\ Len(right) = Len(seq) - i
      /\ \A j \in 1..(Len(seq) - i) : right[j] = seq[i + j]
  BY <1>1, <1>11, PartIs
<1>5. /\ rest \in Seq(S) /\ Len(rest) = Len(left) + Len(right)
      /\ \A j \in 1..(Len(left) + Len(right)) :
           rest[j] = IF j <= Len(left) THEN left[j] ELSE right[j - Len(left)]
  BY <1>12, <1>3, <1>4, ConcatProperties
<1>10. Len(rest) = Len(seq) - 1 /\ DOMAIN rest = 1..(Len(seq) - 1)
  BY <1>1, <1>3, <1>4, <1>5
<1>6. ASSUME NEW j \in 1..(Len(seq) - 1)
      PROVE  rest[j] = IF j < i THEN seq[j] ELSE seq[j + 1]
  <2>1. CASE j < i
    BY <1>1, <1>3, <1>4, <1>5, <2>1
  <2>2. CASE ~(j < i)
    <3>1. rest[j] = right[j - (i - 1)] /\ j - (i - 1) \in 1..(Len(seq) - i)
      <4>1. PICK n : n = Len(seq)
        OBVIOUS
      <4>2. /\ n \in Nat /\ i \in 1..n /\ j \in 1..(n - 1) /\ ~(j < i)
            /\ Len(left) = i - 1 /\ Len(right) = n - i
        BY <1>1, <1>3, <1>4, <2>2, <4>1
      <4>3. /\ j \in 1..(Len(left) + Len(right)) /\ ~(j <= Len(left))
            /\ j - (i - 1) \in 1..(n - i)
        BY ONLY <4>2
      <4>4. rest[j] = right[j - Len(left)]
        BY <1>5, <4>3
      <4>5. QED BY <4>1, <4>2, <4>3, <4>4
    <3>2. right[j - (i - 1)] = seq[i + (j - (i - 1))] /\ i + (j - (i - 1)) = j + 1
      BY <1>1, <1>4, <3>1
    <3>3. QED BY <2>2, <3>1, <3>2
  <2>3. QED BY <2>1, <2>2
<1>13. PICK was : was = [j \in 1..(Len(seq) - 1) |-> IF j < i THEN j ELSE j + 1]
  OBVIOUS
<1>14. \A j \in 1..(Len(seq) - 1) :
         was[j] \in 1..Len(seq) /\ was[j] # i /\ rest[j] = seq[was[j]]
  BY <1>1, <1>6, <1>13
<1>15. \A j, k \in 1..(Len(seq) - 1) : was[j] = was[k] => j = k
  BY <1>1, <1>13
<1>16. \A k \in 1..Len(seq) : k # i => \E j \in 1..(Len(seq) - 1) : was[j] = k
  <2> SUFFICES ASSUME NEW k \in 1..Len(seq), k # i
               PROVE  \E j \in 1..(Len(seq) - 1) : was[j] = k
    OBVIOUS
  <2>1. CASE k < i
    BY <1>1, <1>13, <2>1
  <2>2. CASE k > i
    <3>1. k - 1 \in 1..(Len(seq) - 1) /\ was[k - 1] = k
      BY <1>1, <1>13, <2>2
    <3>2. QED BY <3>1
  <2>3. QED BY <1>1, <2>1, <2>2
<1>17. \A j, k \in 1..Len(seq) : seq[j] = seq[k] => j = k
  BY <1>1 DEF IsInjective
<1>7. IsInjective(rest)
  BY <1>10, <1>14, <1>15, <1>17 DEF IsInjective
<1>8. Range(rest) = Range(seq) \ {seq[i]}
  <2>1. Range(rest) \subseteq Range(seq) \ {seq[i]}
    BY <1>1, <1>10, <1>14, <1>17 DEF Range
  <2>2. ASSUME NEW x \in Range(seq) \ {seq[i]} PROVE x \in Range(rest)
    <3>1. PICK k \in 1..Len(seq) : x = seq[k]
      BY <1>1 DEF Range
    <3>2. k # i
      BY <3>1
    <3>3. PICK j \in 1..(Len(seq) - 1) : was[j] = k
      BY <1>16, <3>2
    <3>4. rest[j] = x
      BY <1>14, <3>1, <3>3
    <3>5. QED BY <1>10, <3>4 DEF Range
  <2>3. QED BY <2>1, <2>2
<1>9. QED BY <1>2, <1>5, <1>7, <1>8, <1>11, <1>12 DEF Lost, RemoveAt

\* push_back of something new.
LEMMA AppendIs ==
  ASSUME NEW S, NEW seq \in Seq(S), IsInjective(seq), NEW x \in S, x \notin Range(seq)
  PROVE  /\ Append(seq, x) \in Seq(S) /\ Len(Append(seq, x)) = Len(seq) + 1
         /\ Append(seq, x) # <<>>
         /\ IsInjective(Append(seq, x))
         /\ Range(Append(seq, x)) = Range(seq) \cup {x}
<1>1. Len(seq) \in Nat /\ DOMAIN seq = 1..Len(seq)
  OBVIOUS
<1>2. PICK more : more = Append(seq, x)
  OBVIOUS
<1>3. more \in Seq(S) /\ Len(more) = Len(seq) + 1 /\ more[Len(seq) + 1] = x
      /\ \A i \in 1..Len(seq) : more[i] = seq[i]
  BY <1>1, <1>2
<1>4. \A i \in 1..(Len(seq) + 1) : i = Len(seq) + 1 \/ i \in 1..Len(seq)
  BY <1>1
<1>5. IsInjective(more)
  BY <1>1, <1>3, <1>4 DEF IsInjective, Range
<1>6. Range(more) = Range(seq) \cup {x}
  BY <1>1, <1>3, <1>4 DEF Range
<1>7. QED BY <1>1, <1>2, <1>3, <1>5, <1>6

-----------------------------------------------------------------------------
(* The invariant                                                             *)

\* Where a thread and a caller can be.
ThreadPlaces ==
  {"new", "loop", "spin", "release", "notify", "available", "grow", "register", "settle",
   "execute", "some", "woken", "ending"}
CallerPlaces == {"idle", "spin", "drain", "empty", "register", "resume"}

\* Where a thread gives itself back, and has the mutex of its scheduler meanwhile.
Leaving == {"spin", "release", "notify", "available", "grow", "register", "settle"}

\* Where a process has a target, and where it has the mutex of its target.
Inside == {"register", "grow", "resume"}
Aiming == Inside \cup {"available"}

\* TypeOK, variable by variable, and where who can be.
Counters ==
  /\ runningCount \in [Schedulers -> Nat] /\ suspendedCount \in [Schedulers -> Nat]
  /\ yetToCreate \in [Schedulers -> Nat] /\ fromShared \in [Schedulers -> Nat]
  /\ unusedCount \in [Schedulers -> Nat]
Lists ==
  /\ running \in [Schedulers -> SUBSET Threads]
  /\ suspended \in [Schedulers -> Seq(Threads)] /\ pool \in Seq(Threads)
  /\ owner \in [Threads -> Schedulers \cup {None}] /\ resumed \subseteq Threads
Loans ==
  /\ allocCount \in Nat /\ poolYetToCreate \in Nat /\ IsFiniteSet(Debts)
Flags ==
  /\ starved \in [Schedulers -> BOOLEAN] /\ starving \in Seq(Schedulers)
  /\ destroyed \subseteq closing /\ closing \subseteq Schedulers /\ hungry \subseteq Schedulers
Calling ==
  /\ queue \in [Schedulers -> Nat] /\ stopCount \in [Schedulers -> Nat]
  /\ waitingThreads \in [Schedulers -> Nat]
  /\ emptyEvent \subseteq Schedulers /\ threadIsIdle \subseteq Schedulers
  /\ scheduled \in 0..MaxJobs /\ stops \in 0..MaxStops
Positions ==
  /\ mutex \in [Schedulers -> Processes \cup {None}]
  /\ pc \in [Processes -> Places]
  /\ at \in [Processes -> Schedulers \cup {None}]
  /\ target \in [Processes -> Schedulers \cup {None}]
  /\ \A t \in Threads : pc[t] \in ThreadPlaces
  /\ \A c \in Callers : pc[c] \in CallerPlaces

\* Every critical section has one process in it.
MutexOK ==
  /\ \A t \in Threads :
       /\ at[t] # None <=> pc[t] \in Leaving
       /\ at[t] # None => mutex[at[t]] = t
       /\ pc[t] \in Inside => target[t] # at[t]
  /\ \A c \in Callers : at[c] # None <=> pc[c] \in {"spin", "drain", "empty"}
  /\ \A p \in Processes :
       /\ target[p] # None <=> pc[p] \in Aiming
       /\ pc[p] \in Inside => mutex[target[p]] = p

\* A thread is in the list of running threads that its owner and its resumption
\* tell, and only a thread that is neither resumed nor leaving is in another one.
ListsOK ==
  /\ \A t \in resumed : owner[t] \in Schedulers
  /\ \A s \in Schedulers : running[s] = {t \in resumed : owner[t] = s}
  /\ IsInjective(pool)
  /\ \A s \in Schedulers : IsInjective(suspended[s])
  /\ \A s \in Schedulers : \A t \in Range(suspended[s]) :
       t \notin resumed /\ owner[t] = s /\ pc[t] = "loop"
  /\ \A t \in Range(pool) :
       t \notin resumed /\ owner[t] = None /\ pc[t] \in ({"loop"} \cup Leaving) \ {"spin", "release"}
  /\ \A t \in Threads :
       /\ pc[t] = "new" => t \notin resumed
       /\ pc[t] \in {"execute", "some", "woken", "ending"} => t \in resumed
       /\ pc[t] \in {"spin", "release"} => t \notin resumed /\ owner[t] = at[t]

\* A thread of s is giving itself back.
Back(s) == \E t \in Threads : at[t] = s

\* The counters of a scheduler, whoever is in its critical section; what makes them
\* agree is that threads are neither made nor lost.
Counted(s) ==
  /\ runningCount[s] = Cardinality(running[s]) + IF Back(s) THEN 1 ELSE 0
  /\ s \notin destroyed => suspendedCount[s] = Len(suspended[s])
  /\ unusedCount[s] + fromShared[s] = suspendedCount[s] + yetToCreate[s] + SharedThreads[s]
  /\ runningCount[s] + unusedCount[s] = ThreadCount[s] + SharedThreads[s]
  /\ yetToCreate[s] <= ThreadCount[s]
  /\ fromShared[s] > 0 => suspended[s] = <<>>
  /\ Back(s) => fromShared[s] > 0
CountersOK == \A s \in Schedulers : Counted(s)

\* A scheduler is listed as starving once, and not while a process is about to
\* list it or to notify it; either way it says that it starves.
Notifying(p) == pc[p] \in {"available", "register"}
StarvingOK ==
  /\ IsInjective(starving)
  /\ \A s \in Range(starving) :
       starved[s] /\ \A p \in Processes : Notifying(p) => target[p] # s
  /\ \A p \in Processes : Notifying(p) => starved[target[p]]
  /\ \A p, q \in Processes : Notifying(p) /\ Notifying(q) /\ target[p] = target[q] => p = q

\* The destructor is alone, and when it has left the list of starving schedulers
\* nothing makes the scheduler starve again.
DestroyOK ==
  /\ \A s \in closing : stopCount[s] = 0 \/ queue[s] = 0
  /\ \A s \in closing : \A c \in Callers : target[c] # s
  /\ \A s \in closing : \A c, d \in Callers : at[c] = s /\ at[d] = s => c = d
  /\ \A c \in Callers : at[c] \in closing /\ pc[c] # "spin" => ~starved[at[c]]
  /\ \A s \in destroyed : ~starved[s] /\ \A c \in Callers : at[c] # s

\* The threads of s that wait in WaitForSomeJobs, or have just been woken.
Waiters(s) == {t \in Threads : pc[t] \in {"some", "woken"} /\ owner[t] = s}
WaitingOK ==
  \A s \in Schedulers :
    /\ waitingThreads[s] = Cardinality(Waiters(s))
    /\ s \notin threadIsIdle /\ waitingThreads[s] > 0 =>
         waitingThreads[s] < Cardinality(running[s])

IInv ==
  /\ Counters /\ Lists /\ Loans /\ Flags /\ Calling /\ Positions
  /\ MutexOK /\ ListsOK /\ CountersOK /\ StarvingOK /\ DestroyOK /\ WaitingOK
  /\ ThreadsAreCounted /\ DestroyedIsForgotten

\* The types follow.
LEMMA TypesAreKept == IInv => TypeOK
BY DEF IInv, TypeOK, Counters, Lists, Loans, Flags, Calling, Positions

-----------------------------------------------------------------------------
(* The beginning                                                             *)

\* Nobody has begun.
LEMMA InitTypes == Init => Counters /\ Lists /\ Loans /\ Flags /\ Calling /\ Positions
<1> SUFFICES ASSUME Init PROVE Counters /\ Lists /\ Loans /\ Flags /\ Calling /\ Positions
  OBVIOUS
<1>1. Counters
  BY SchedulerAssumption DEF Init, Counters
<1>2. Lists
  BY DEF Init, Lists
<1>3. Loans
  <2>1. Debts = {}
    BY DEF Init, Debts
  <2>2. QED BY <2>1, FS_EmptySet, SchedulerAssumption DEF Init, Loans
<1>4. Flags
  BY DEF Init, Flags
<1>5. Calling
  BY SchedulerAssumption DEF Init, Calling
<1>6. Positions
  BY SchedulerAssumption DEF Init, Positions, Processes, Places, ThreadPlaces, CallerPlaces
<1>7. QED BY <1>1, <1>2, <1>3, <1>4, <1>5, <1>6

\* There is no thread, and no debt.
LEMMA InitInvariant == Init => IInv
<1> SUFFICES ASSUME Init PROVE IInv
  OBVIOUS
<1>1. /\ \A p \in Processes : at[p] = None /\ target[p] = None
      /\ \A t \in Threads : pc[t] = "new" /\ t \in Processes
      /\ \A c \in Callers : pc[c] = "idle" /\ c \in Processes
  BY SchedulerAssumption DEF Init, Processes
<1>2. MutexOK
  <2>1. \A p \in Processes : pc[p] \in {"new", "idle"}
    BY <1>1 DEF Processes
  <2>2. QED BY <1>1, <2>1 DEF MutexOK, Leaving, Inside, Aiming
<1>3. ListsOK
  <2>1. Range(<<>>) = {} /\ IsInjective(<<>>)
    BY DEF Range, IsInjective
  <2>2. QED BY <1>1, <2>1 DEF Init, ListsOK
<1>4. \A s \in Schedulers : ~Back(s)
  BY <1>1, SchedulerAssumption DEF Back
<1>5. CountersOK
  BY <1>4, FS_EmptySet, SchedulerAssumption DEF Init, CountersOK, Counted
<1>6. StarvingOK
  <2>1. Range(<<>>) = {} /\ IsInjective(<<>>)
    BY DEF Range, IsInjective
  <2>2. \A p \in Processes : ~Notifying(p)
    BY <1>1 DEF Notifying, Processes
  <2>3. QED BY <2>1, <2>2 DEF Init, StarvingOK
<1>7. DestroyOK
  BY <1>1, SchedulerAssumption DEF Init, DestroyOK, Processes
<1>8. WaitingOK
  <2>1. \A s \in Schedulers : Waiters(s) = {}
    BY <1>1 DEF Waiters
  <2>2. QED BY <2>1, FS_EmptySet DEF Init, WaitingOK
<1>9. ThreadsAreCounted
  <2>1. Debts = {}
    BY DEF Init, Debts
  <2>2. Returned = {}
    BY <1>1 DEF Returned
  <2>3. QED BY <2>1, <2>2, FS_EmptySet, SchedulerAssumption DEF Init, ThreadsAreCounted
<1>10. DestroyedIsForgotten
  BY DEF Init, DestroyedIsForgotten
<1>11. QED BY InitTypes, <1>2, <1>3, <1>5, <1>6, <1>7, <1>8, <1>9, <1>10 DEF IInv

-----------------------------------------------------------------------------
(* Allocating a thread                                                       *)

\* Who allocates a thread for s: a caller in Schedule or Resume, or a thread that
\* notifies s; to and on say where it goes on.
Allocates(s, p, to, on) ==
  /\ s \in Schedulers
  /\ \/ /\ p \in Callers /\ on = "idle" /\ unusedCount[s] > 0
        /\ \/ pc[p] = "idle" /\ to = "idle" /\ mutex[s] = None /\ s \notin closing
           \/ pc[p] = "resume" /\ to = "resume" /\ target[p] = s
        /\ AllocateThread(s, p, to, on)
     \/ /\ p \in Threads /\ on = "notify"
        /\ pc[p] = "grow" /\ to = "grow" /\ target[p] = s /\ WantsShared(s)
        /\ AllocateSharedThread(s, p, to, on)
  /\ Keep(s, p)
  /\ UNCHANGED <<stopCount, waitingThreads, threadIsIdle, destroyed, closing, at>>

\* What it gains: a thread that was in no list of running threads leaves the list
\* it was in.
Gain(t, s, p, to) ==
  /\ Run(t, s, p, to)
  /\ t \in Threads /\ t \notin resumed /\ pc[t] \notin {"spin", "release"}
  /\ suspended' \in [Schedulers -> Seq(Threads)] /\ pool' \in Seq(Threads)
  /\ \A r \in Schedulers : Lost(suspended'[r], suspended[r], t)
  /\ Lost(pool', pool, t)
  /\ UNCHANGED <<starved, starving, hungry>>

\* A list that does not have x is itself without x.
LEMMA NothingLost ==
  ASSUME NEW seq, IsInjective(seq), NEW x, x \notin Range(seq)
  PROVE  Lost(seq, seq, x)
BY DEF Lost

\* A suspended thread is in the list of one scheduler, and not in the pool.
LEMMA RecycleGains ==
  ASSUME IInv, NEW s \in Schedulers, s \notin destroyed, NEW p, NEW to, RecycleThread(s, p, to)
  PROVE  \E t \in Threads : Gain(t, s, p, to)
<1>1. suspended[s] \in Seq(Threads) /\ IsInjective(suspended[s]) /\ suspended[s] # <<>>
  BY DEF IInv, Lists, ListsOK, CountersOK, Counted, RecycleThread
<1>2. PICK t : t = Last(suspended[s])
  OBVIOUS
<1>3. t \in Threads /\ t \in Range(suspended[s]) /\ Front(suspended[s]) \in Seq(Threads)
      /\ Lost(Front(suspended[s]), suspended[s], t)
  BY <1>1, <1>2, PopIs
<1>4. t \notin resumed /\ owner[t] = s /\ pc[t] = "loop"
  BY <1>3 DEF IInv, ListsOK
<1>5. t \notin Range(pool)
  BY <1>4, SchedulerAssumption DEF IInv, ListsOK
<1>6. suspended' = [suspended EXCEPT ![s] = Front(suspended[s])] /\ pool' = pool
  BY DEF RecycleThread, shared
<1>7. suspended' \in [Schedulers -> Seq(Threads)]
  BY <1>3, <1>6 DEF IInv, Lists
<1>8. ASSUME NEW r \in Schedulers PROVE Lost(suspended'[r], suspended[r], t)
  <2>1. CASE r = s
    BY <1>3, <1>6, <2>1 DEF IInv, Lists
  <2>2. CASE r # s
    <3>1. suspended'[r] = suspended[r]
      BY <1>6, <2>2 DEF IInv, Lists
    <3>2. t \notin Range(suspended[r])
      BY <1>4, <2>2 DEF IInv, ListsOK
    <3>3. QED BY <3>1, <3>2, NothingLost DEF IInv, ListsOK
  <2>3. QED BY <2>1, <2>2
<1>9. Lost(pool', pool, t) /\ pool' \in Seq(Threads)
  BY <1>5, <1>6, NothingLost DEF IInv, ListsOK, Lists
<1>10. Run(t, s, p, to) /\ UNCHANGED <<starved, starving, hungry>>
  BY <1>2 DEF RecycleThread, shared
<1>11. QED BY <1>3, <1>4, <1>7, <1>8, <1>9, <1>10 DEF Gain

\* A new thread is in no list.
LEMMA NewGains ==
  ASSUME IInv, NEW s \in Schedulers, NEW p, NEW to, RunNew(s, p, to),
         UNCHANGED <<suspended, pool, starved, starving, hungry>>
  PROVE  \E t \in Threads : Gain(t, s, p, to) /\ pc[t] = "new"
<1>1. PICK t : t = CHOOSE u \in Threads : pc[u] = "new"
  OBVIOUS
<1>2. t \in Threads /\ pc[t] = "new" /\ Run(t, s, p, to)
  BY <1>1 DEF RunNew
<1>3. t \notin resumed
  BY <1>2 DEF IInv, ListsOK
<1>4. t \notin Range(pool) /\ \A r \in Schedulers : t \notin Range(suspended[r])
  BY <1>2 DEF IInv, ListsOK, Leaving
<1>5. Lost(pool', pool, t) /\ \A r \in Schedulers : Lost(suspended'[r], suspended[r], t)
  BY <1>4, NothingLost DEF IInv, ListsOK
<1>6. QED BY <1>2, <1>3, <1>5 DEF Gain, IInv, Lists

\* So does a borrowed one, which comes from the pool or is new.
LEMMA BorrowGains ==
  ASSUME IInv, NEW s \in Schedulers, NEW p, NEW to, Borrow(s, p, to)
  PROVE  \E t \in Threads : Gain(t, s, p, to)
<1>1. CASE pool # <<>> /\ Run(Last(pool), s, p, to) /\ pool' = Front(pool)
  <2>1. pool \in Seq(Threads) /\ IsInjective(pool)
    BY DEF IInv, Lists, ListsOK
  <2>2. PICK t : t = Last(pool)
    OBVIOUS
  <2>3. t \in Threads /\ t \in Range(pool) /\ pool' \in Seq(Threads) /\ Lost(pool', pool, t)
    BY <1>1, <2>1, <2>2, PopIs
  <2>4. t \notin resumed /\ owner[t] = None /\ pc[t] \notin {"spin", "release"}
    BY <2>3 DEF IInv, ListsOK
  <2>5. \A r \in Schedulers : t \notin Range(suspended[r])
    BY <2>4, SchedulerAssumption DEF IInv, ListsOK
  <2>6. UNCHANGED <<suspended, starved, starving, hungry>>
    BY DEF Borrow
  <2>7. \A r \in Schedulers : Lost(suspended'[r], suspended[r], t)
    BY <2>5, <2>6, NothingLost DEF IInv, ListsOK
  <2>8. Run(t, s, p, to)
    BY <1>1, <2>2
  <2>9. QED BY <2>3, <2>4, <2>6, <2>7, <2>8 DEF Gain, IInv, Lists
<1>2. CASE RunNew(s, p, to) /\ UNCHANGED pool
  BY <1>2, NewGains DEF Borrow
<1>3. QED BY <1>1, <1>2 DEF Borrow

\* Whoever allocates a thread gains one or starves.
LEMMA AllocationIs ==
  ASSUME IInv, NEW s, NEW p, NEW to, NEW on, Allocates(s, p, to, on)
  PROVE  /\ s \in Schedulers /\ p \in Processes /\ s \notin destroyed
         /\ \/ BorrowNothing(s, p, on)
            \/ \E t \in Threads : Gain(t, s, p, to)
<1>1. s \in Schedulers /\ p \in Processes
  BY DEF Allocates, Processes
<1>2. s \notin destroyed
  <2>1. CASE p \in Callers
    BY <1>1, <2>1, SchedulerAssumption DEF Allocates, IInv, DestroyOK, Flags
  <2>2. CASE p \in Threads
    BY <1>1, <2>2, SchedulerAssumption DEF Allocates, IInv, DestroyedIsForgotten
  <2>3. QED BY <1>1, <2>1, <2>2 DEF Processes
<1>3. RecycleThread(s, p, to) \/ CreateThread(s, p, to) \/ Borrow(s, p, to)
        \/ BorrowNothing(s, p, on)
  BY DEF Allocates, AllocateThread, AllocateSharedThread
<1>4. CASE RecycleThread(s, p, to)
  BY <1>1, <1>2, <1>4, RecycleGains
<1>5. CASE CreateThread(s, p, to)
  <2>1. RunNew(s, p, to) /\ UNCHANGED <<suspended, pool, starved, starving, hungry>>
    BY <1>5 DEF CreateThread, shared
  <2>2. QED BY <1>1, <1>2, <2>1, NewGains
<1>6. CASE Borrow(s, p, to)
  BY <1>1, <1>2, <1>6, BorrowGains
<1>7. QED BY <1>1, <1>2, <1>3, <1>4, <1>5, <1>6

\* Who is somewhere else afterwards is a new thread that begins its loop.
Moved(q) == pc'[q] = pc[q] \/ (q \in Threads /\ pc[q] = "new" /\ pc'[q] = "loop")

\* An allocation takes the one who makes it on, and moves nobody else but such a
\* thread.
LEMMA AllocationMoves ==
  ASSUME IInv, NEW s, NEW p, NEW to, NEW on, Allocates(s, p, to, on)
  PROVE  /\ pc' \in [Processes -> Places]
         /\ pc'[p] \in {to, on, "register"}
         /\ \A q \in Processes \ {p} : Moved(q)
<1>1. s \in Schedulers /\ p \in Processes
  BY AllocationIs
<1>2. pc[p] \in {"idle", "resume", "grow"} /\ {to, on, "register"} \subseteq Places
  BY DEF Allocates, Places
<1>3. pc \in [Processes -> Places]
  BY DEF IInv, Positions
<1>4. CASE BorrowNothing(s, p, on)
  BY <1>1, <1>2, <1>3, <1>4 DEF BorrowNothing, Moved
<1>5. ASSUME NEW t \in Threads, Gain(t, s, p, to)
      PROVE  /\ pc' \in [Processes -> Places]
             /\ pc'[p] \in {to, on, "register"}
             /\ \A q \in Processes \ {p} : Moved(q)
  <2>1. pc' = [q \in Processes |-> IF q = p THEN to
                                   ELSE IF q = t /\ pc[q] = "new" THEN "loop" ELSE pc[q]]
    BY <1>5 DEF Gain, Run
  <2>2. pc' \in [Processes -> Places]
    BY <1>2, <1>3, <2>1 DEF Places
  <2>3. pc'[p] = to
    BY <1>1, <2>1
  <2>4. \A q \in Processes \ {p} : Moved(q)
    BY <2>1 DEF Moved
  <2>5. QED BY <2>2, <2>3, <2>4
<1>6. QED BY <1>4, <1>5, AllocationIs

\* The mutex of s is kept by p or given up.
LEMMA AllocationKeepsPositions ==
  ASSUME IInv, NEW s, NEW p, NEW to, NEW on, Allocates(s, p, to, on)
  PROVE  Positions' /\ MutexOK'
<1>1. /\ s \in Schedulers /\ p \in Processes
      /\ pc' \in [Processes -> Places] /\ pc'[p] \in {to, on, "register"}
      /\ \A q \in Processes \ {p} : Moved(q)
  BY AllocationIs, AllocationMoves
<1>2. /\ p \in Threads => p \notin Callers /\ pc[p] = "grow" /\ pc'[p] \in {"grow", "notify", "register"}
      /\ p \in Callers => p \notin Threads /\ pc[p] \in {"idle", "resume"} /\ pc'[p] \in {"idle", "resume", "register"}
  BY <1>1, SchedulerAssumption DEF Allocates
<1> DEFINE busy == pc'[p] \in Inside
<1>3. /\ mutex' = [mutex EXCEPT ![s] = IF busy THEN p ELSE None]
      /\ target' = [target EXCEPT ![p] = IF busy THEN s ELSE None]
  BY DEF Allocates, Keep, Inside
<1>4. at' = at
  BY DEF Allocates
<1>5. Positions'
  <2>1. mutex' \in [Schedulers -> Processes \cup {None}]
    BY <1>1, <1>3 DEF IInv, Positions
  <2>2. target' \in [Processes -> Schedulers \cup {None}]
    BY <1>1, <1>3 DEF IInv, Positions
  <2>3. at' \in [Processes -> Schedulers \cup {None}]
    BY <1>4 DEF IInv, Positions
  <2>4. ASSUME NEW t \in Threads PROVE pc'[t] \in ThreadPlaces
    BY <1>1, <1>2 DEF IInv, Positions, ThreadPlaces, Processes, Moved
  <2>5. ASSUME NEW c \in Callers PROVE pc'[c] \in CallerPlaces
    BY <1>1, <1>2, SchedulerAssumption DEF IInv, Positions, CallerPlaces, Processes, Moved
  <2>6. QED BY <1>1, <2>1, <2>2, <2>3, <2>4, <2>5 DEF Positions
<1>6. mutex[s] = None \/ mutex[s] = p
  BY <1>1 DEF Allocates, IInv, MutexOK, Inside, Processes
<1>7. /\ mutex'[s] = IF busy THEN p ELSE None
      /\ target'[p] = IF busy THEN s ELSE None
      /\ \A r \in Schedulers \ {s} : mutex'[r] = mutex[r]
      /\ \A q \in Processes \ {p} : target'[q] = target[q]
  BY <1>1, <1>3 DEF IInv, Positions
<1>8. at[p] # s
  BY <1>1, <1>2, SchedulerAssumption DEF Allocates, IInv, MutexOK, Inside
<1>9. ASSUME NEW t \in Threads
      PROVE  /\ at'[t] # None <=> pc'[t] \in Leaving
             /\ at'[t] # None => mutex'[at'[t]] = t
             /\ pc'[t] \in Inside => target'[t] # at'[t]
  <2>1. t \in Processes
    BY DEF Processes
  <2>2. at'[t] # None <=> pc'[t] \in Leaving
    BY <1>1, <1>2, <1>4, <2>1 DEF IInv, MutexOK, Moved, Leaving
  <2>3. at'[t] # None => mutex'[at'[t]] = t
    <3> SUFFICES ASSUME at[t] # None PROVE mutex'[at[t]] = t
      BY <1>4
    <3>1. at[t] \in Schedulers /\ mutex[at[t]] = t
      BY <2>1 DEF IInv, Positions, MutexOK
    <3>2. at[t] # s
      BY <1>6, <1>8, <3>1, SchedulerAssumption
    <3>3. QED BY <1>7, <3>1, <3>2
  <2>4. pc'[t] \in Inside => target'[t] # at'[t]
    <3>1. CASE t = p
      BY <1>1, <1>3, <1>4, <1>7, <1>8, <3>1
    <3>2. CASE t # p
      BY <1>1, <1>4, <1>7, <2>1, <3>2 DEF IInv, MutexOK, Moved, Inside
    <3>3. QED BY <3>1, <3>2
  <2>5. QED BY <2>2, <2>3, <2>4
<1>10. ASSUME NEW c \in Callers
       PROVE  at'[c] # None <=> pc'[c] \in {"spin", "drain", "empty"}
  BY <1>1, <1>2, <1>4, SchedulerAssumption DEF IInv, MutexOK, Moved, Processes
<1>11. ASSUME NEW q \in Processes
       PROVE  /\ target'[q] # None <=> pc'[q] \in Aiming
              /\ pc'[q] \in Inside => mutex'[target'[q]] = q
  <2>1. CASE q = p
    <3>1. s # None
      BY <1>1, SchedulerAssumption
    <3>2. pc'[p] \in Aiming <=> busy
      BY <1>1, <1>2 DEF Aiming, Inside, Processes
    <3>3. QED BY <1>3, <1>7, <2>1, <3>1, <3>2
  <2>2. CASE q # p
    <3>1. target'[q] = target[q] /\ Moved(q)
      BY <1>1, <1>7, <2>2
    <3>2. target'[q] # None <=> pc'[q] \in Aiming
      BY <3>1 DEF IInv, MutexOK, Moved, Aiming, Inside
    <3>3. ASSUME pc'[q] \in Inside PROVE mutex'[target'[q]] = q
      <4>1. pc[q] \in Inside
        BY <3>1, <3>3 DEF Moved, Inside
      <4>2. mutex[target[q]] = q /\ target[q] \in Schedulers
        BY <4>1 DEF IInv, MutexOK, Positions, Aiming
      <4>3. target[q] # s
        BY <1>6, <2>2, <4>2, SchedulerAssumption DEF Processes
      <4>4. QED BY <1>7, <3>1, <4>2, <4>3
    <3>4. QED BY <3>2, <3>3
  <2>3. QED BY <2>1, <2>2
<1>12. MutexOK'
  BY <1>9, <1>10, <1>11 DEF MutexOK
<1>13. QED BY <1>5, <1>12

\* What p does to its own position matters to no list.
LEMMA AllocatorIsElsewhere ==
  ASSUME IInv, NEW s, NEW p, NEW to, NEW on, Allocates(s, p, to, on), p \in Threads
  PROVE  pc[p] \in Leaving \ {"spin", "release"} /\ pc'[p] \in Leaving \ {"spin", "release"}
BY AllocationMoves, SchedulerAssumption DEF Allocates, Leaving

\* The thread that is gained leaves its list for the running ones.
LEMMA AllocationKeepsLists ==
  ASSUME IInv, NEW s, NEW p, NEW to, NEW on, Allocates(s, p, to, on)
  PROVE  Lists' /\ ListsOK'
<1>1. /\ s \in Schedulers /\ p \in Processes /\ at' = at
      /\ pc' \in [Processes -> Places]
      /\ \A q \in Processes \ {p} : Moved(q)
  BY AllocationIs, AllocationMoves DEF Allocates
<1>2. \A q \in Threads : q # p => Moved(q)
  BY <1>1 DEF Processes
<1>3. p \in Threads => pc[p] \in Leaving \ {"spin", "release"} /\ pc'[p] \in Leaving \ {"spin", "release"}
  BY AllocatorIsElsewhere
<1>4. CASE BorrowNothing(s, p, on)
  <2>1. UNCHANGED <<running, suspended, pool, owner, resumed>>
    BY <1>4 DEF BorrowNothing, threads, shared
  <2>2. \A q \in Threads : q # p => pc'[q] = pc[q]
    BY <1>1, <1>4 DEF BorrowNothing, Processes, IInv, Positions
  <2>3. Lists'
    BY <2>1 DEF IInv, Lists
  <2>4. \A s2 \in Schedulers : \A t \in Range(suspended'[s2]) : pc'[t] = "loop"
    <3> SUFFICES ASSUME NEW r \in Schedulers, NEW t \in Range(suspended'[r]) PROVE pc'[t] = "loop"
      OBVIOUS
    <3>1. t \in Threads
      BY <2>1 DEF IInv, Lists, Range
    <3>2. pc[t] = "loop"
      BY <2>1 DEF IInv, ListsOK
    <3>3. QED BY <1>3, <2>2, <3>1, <3>2 DEF Leaving
  <2>5. \A t \in Range(pool') : pc'[t] \in ({"loop"} \cup Leaving) \ {"spin", "release"}
    <3> SUFFICES ASSUME NEW t \in Range(pool')
                 PROVE  pc'[t] \in ({"loop"} \cup Leaving) \ {"spin", "release"}
      OBVIOUS
    <3>1. t \in Threads
      BY <2>1 DEF IInv, Lists, Range
    <3>2. QED BY <1>3, <2>1, <2>2, <3>1 DEF IInv, ListsOK
  <2>6. ASSUME NEW t \in Threads
        PROVE  /\ pc'[t] = "new" => t \notin resumed'
               /\ pc'[t] \in {"execute", "some", "woken", "ending"} => t \in resumed'
               /\ pc'[t] \in {"spin", "release"} => t \notin resumed' /\ owner'[t] = at'[t]
    BY <1>1, <1>3, <2>1, <2>2 DEF IInv, ListsOK, Leaving
  <2>7. QED BY <2>1, <2>3, <2>4, <2>5, <2>6 DEF IInv, ListsOK
<1>5. ASSUME NEW t \in Threads, Gain(t, s, p, to) PROVE Lists' /\ ListsOK'
  <2>1. /\ running' = [running EXCEPT ![s] = running[s] \cup {t}]
        /\ resumed' = resumed \cup {t} /\ owner' = [owner EXCEPT ![t] = s]
    BY <1>5 DEF Gain, Run
  <2>2. Lists'
    BY <1>1, <1>5, <2>1 DEF Gain, IInv, Lists
  <2>3. \A u \in resumed' : owner'[u] \in Schedulers
    BY <1>1, <2>1 DEF IInv, ListsOK, Lists
  <2>4. ASSUME NEW r \in Schedulers PROVE running'[r] = {u \in resumed' : owner'[u] = r}
    <3>1. running[r] = {u \in resumed : owner[u] = r}
      BY DEF IInv, ListsOK
    <3>2. \A u \in resumed : u # t /\ owner'[u] = owner[u]
      BY <1>5, <2>1 DEF Gain, IInv, Lists
    <3>3. owner'[t] = s
      BY <2>1 DEF IInv, Lists
    <3>4. CASE r = s
      BY <1>1, <2>1, <3>1, <3>2, <3>3, <3>4 DEF IInv, Lists
    <3>5. CASE r # s
      BY <1>1, <2>1, <3>1, <3>2, <3>3, <3>5 DEF IInv, Lists
    <3>6. QED BY <3>4, <3>5
  <2>5. IsInjective(pool') /\ \A r \in Schedulers : IsInjective(suspended'[r])
    BY <1>5 DEF Gain, Lost
  <2>6. ASSUME NEW r \in Schedulers, NEW u \in Range(suspended'[r])
        PROVE  u \notin resumed' /\ owner'[u] = r /\ pc'[u] = "loop"
    <3>1. u \in Range(suspended[r]) /\ u # t
      BY <1>5 DEF Gain, Lost
    <3>2. u \in Threads /\ u \notin resumed /\ owner[u] = r /\ pc[u] = "loop"
      BY <3>1 DEF IInv, ListsOK, Lists, Range
    <3>3. pc'[u] = "loop"
      BY <1>2, <1>3, <3>2 DEF Leaving, Moved
    <3>4. QED BY <2>1, <3>1, <3>2, <3>3 DEF IInv, Lists
  <2>7. ASSUME NEW u \in Range(pool')
        PROVE  u \notin resumed' /\ owner'[u] = None
               /\ pc'[u] \in ({"loop"} \cup Leaving) \ {"spin", "release"}
    <3>1. u \in Range(pool) /\ u # t
      BY <1>5 DEF Gain, Lost
    <3>2. u \in Threads /\ u \notin resumed /\ owner[u] = None
          /\ pc[u] \in ({"loop"} \cup Leaving) \ {"spin", "release"}
      BY <3>1 DEF IInv, ListsOK, Lists, Range
    <3>3. pc'[u] \in ({"loop"} \cup Leaving) \ {"spin", "release"}
      BY <1>2, <1>3, <3>2 DEF Leaving, Moved
    <3>4. QED BY <2>1, <3>1, <3>2, <3>3 DEF IInv, Lists
  <2>8. ASSUME NEW u \in Threads
        PROVE  /\ pc'[u] = "new" => u \notin resumed'
               /\ pc'[u] \in {"execute", "some", "woken", "ending"} => u \in resumed'
               /\ pc'[u] \in {"spin", "release"} => u \notin resumed' /\ owner'[u] = at'[u]
    <3>1. CASE u = t
      <4>1. t \in Processes /\ s # None
        BY <1>1, SchedulerAssumption DEF Processes
      <4>2. pc'[t] \notin {"new", "spin", "release"}
        BY <1>1, <1>2, <1>3, <1>5, <4>1 DEF Gain, Run, Moved, Allocates, Leaving
      <4>3. QED BY <2>1, <3>1, <4>2
    <3>2. CASE u # t
      <4>1. u = p \/ Moved(u)
        BY <1>2
      <4>2. (u \in resumed' <=> u \in resumed) /\ owner'[u] = owner[u] /\ at'[u] = at[u]
        BY <1>1, <2>1, <3>2 DEF IInv, Lists
      <4>3. CASE u = p
        BY <1>3, <4>3 DEF Leaving
      <4>4. CASE Moved(u)
        BY <4>2, <4>4 DEF IInv, ListsOK, Moved
      <4>5. QED BY <4>1, <4>3, <4>4
    <3>3. QED BY <3>1, <3>2
  <2>9. QED BY <2>2, <2>3, <2>4, <2>5, <2>6, <2>7, <2>8 DEF ListsOK
<1>6. QED BY <1>4, <1>5, AllocationIs

\* The counters as numbers, and the number of running threads.
LEMMA CountersAre ==
  ASSUME IInv, NEW s \in Schedulers
  PROVE  /\ runningCount[s] \in Nat /\ suspendedCount[s] \in Nat /\ yetToCreate[s] \in Nat
         /\ fromShared[s] \in Nat /\ unusedCount[s] \in Nat
         /\ ThreadCount[s] \in Nat /\ SharedThreads[s] \in Nat
         /\ suspended[s] \in Seq(Threads) /\ Len(suspended[s]) \in Nat
         /\ IsFiniteSet(running[s]) /\ Cardinality(running[s]) \in Nat
         /\ Counted(s)
<1>1. running[s] \in SUBSET Threads /\ suspended[s] \in Seq(Threads)
  BY DEF IInv, Lists
<1>2. IsFiniteSet(running[s]) /\ Cardinality(running[s]) \in Nat
  BY <1>1, FS_Subset, FS_CardinalityType, SchedulerAssumption
<1>3. QED BY <1>1, <1>2, SchedulerAssumption DEF IInv, Counters, CountersOK

\* A scheduler whose counters and lists stay stays counted.
LEMMA OthersStayCounted ==
  ASSUME IInv, NEW s \in Schedulers,
         UNCHANGED <<runningCount[s], suspendedCount[s], yetToCreate[s], fromShared[s],
                     unusedCount[s], running[s], suspended[s]>>,
         Back(s)' <=> Back(s), s \in destroyed => s \in destroyed'
  PROVE  Counted(s)'
BY CountersAre DEF Counted

\* The thread that an allocation gains was not running.
LEMMA GainIsCounted ==
  ASSUME IInv, NEW s \in Schedulers, NEW p, NEW to, NEW t \in Threads, Gain(t, s, p, to)
  PROVE  /\ Cardinality(running'[s]) = Cardinality(running[s]) + 1
         /\ runningCount' = [runningCount EXCEPT ![s] = runningCount[s] + 1]
         /\ unusedCount' = [unusedCount EXCEPT ![s] = unusedCount[s] - 1]
         /\ \A r \in Schedulers \ {s} : running'[r] = running[r]
<1>1. running'[s] = running[s] \cup {t} /\ \A r \in Schedulers \ {s} : running'[r] = running[r]
  BY DEF Gain, Run, IInv, Lists
<1>2. t \notin running[s]
  BY DEF Gain, IInv, ListsOK
<1>3. Cardinality(running'[s]) = Cardinality(running[s]) + 1
  BY <1>1, <1>2, CountersAre, FS_AddElement
<1>4. QED BY <1>1, <1>3 DEF Gain, Run

\* Two sums that stay equal when one of each side is taken away.
LEMMA SumsStayEqual ==
  ASSUME NEW a \in Nat, NEW b \in Nat, NEW c \in Nat, NEW d \in Nat, NEW e \in Nat,
         a + b = c + d + e
  PROVE  /\ (a - 1) + b = (c - 1) + d + e
         /\ (a - 1) + b = c + (d - 1) + e
         /\ (a - 1) + (b + 1) = c + d + e
OBVIOUS

\* Every gain is counted where it comes from and where it goes.
LEMMA AllocationKeepsCounters ==
  ASSUME IInv, NEW s, NEW p, NEW to, NEW on, Allocates(s, p, to, on)
  PROVE  Counters' /\ CountersOK'
<1>1. s \in Schedulers /\ s \notin destroyed /\ destroyed' = destroyed /\ at' = at
  BY AllocationIs DEF Allocates
<1>2. \A r \in Schedulers : Back(r)' <=> Back(r)
  BY <1>1 DEF Back
<1>3. /\ runningCount[s] \in Nat /\ suspendedCount[s] \in Nat /\ yetToCreate[s] \in Nat
      /\ fromShared[s] \in Nat /\ unusedCount[s] \in Nat
      /\ ThreadCount[s] \in Nat /\ SharedThreads[s] \in Nat
      /\ suspended[s] \in Seq(Threads) /\ Len(suspended[s]) \in Nat
      /\ Cardinality(running[s]) \in Nat /\ Counted(s)
  BY <1>1, CountersAre
<1>4. unusedCount[s] > 0
  <2>1. CASE WantsShared(s)
    BY <1>3, <2>1 DEF WantsShared, Counted
  <2>2. QED BY <2>1 DEF Allocates
<1>5. /\ runningCount \in [Schedulers -> Nat] /\ suspendedCount \in [Schedulers -> Nat]
      /\ yetToCreate \in [Schedulers -> Nat] /\ fromShared \in [Schedulers -> Nat]
      /\ unusedCount \in [Schedulers -> Nat] /\ suspended \in [Schedulers -> Seq(Threads)]
  BY DEF IInv, Counters, Lists
<1>12. /\ runningCount[s] \in Nat /\ suspendedCount[s] \in Nat /\ yetToCreate[s] \in Nat
       /\ fromShared[s] \in Nat /\ unusedCount[s] \in Nat
       /\ ThreadCount[s] \in Nat /\ SharedThreads[s] \in Nat
  BY <1>3
<1>11. /\ unusedCount[s] + fromShared[s] = suspendedCount[s] + yetToCreate[s] + SharedThreads[s]
       /\ runningCount[s] + unusedCount[s] = ThreadCount[s] + SharedThreads[s]
       /\ yetToCreate[s] <= ThreadCount[s]
  BY <1>3 DEF Counted
<1>6. CASE BorrowNothing(s, p, on)
  <2>1. UNCHANGED <<running, suspended, counters>>
    BY <1>6 DEF BorrowNothing, threads
  <2>2. Counters'
    BY <2>1 DEF IInv, Counters, counters
  <2>3. ASSUME NEW r \in Schedulers PROVE Counted(r)'
    BY <1>1, <1>2, <2>1, OthersStayCounted DEF counters
  <2>4. QED BY <2>2, <2>3 DEF CountersOK
<1>7. CASE RecycleThread(s, p, to)
  <2>1. PICK t \in Threads : Gain(t, s, p, to)
    BY <1>1, <1>7, RecycleGains
  <2>2. /\ suspendedCount[s] > 0
        /\ suspendedCount' = [suspendedCount EXCEPT ![s] = suspendedCount[s] - 1]
        /\ suspended' = [suspended EXCEPT ![s] = Front(suspended[s])]
        /\ UNCHANGED <<yetToCreate, fromShared>>
    BY <1>7 DEF RecycleThread
  <2>3. Len(Front(suspended[s])) = Len(suspended[s]) - 1
    <3>1. suspended[s] # <<>>
      BY <1>1, <1>3, <2>2 DEF Counted
    <3>2. IsInjective(suspended[s])
      BY <1>1 DEF IInv, ListsOK
    <3>3. QED BY <1>3, <3>1, <3>2, PopIs
  <2>4. Counters'
    <3>1. /\ runningCount' = [runningCount EXCEPT ![s] = runningCount[s] + 1]
          /\ unusedCount' = [unusedCount EXCEPT ![s] = unusedCount[s] - 1]
      BY <1>1, <2>1, GainIsCounted
    <3>2. runningCount[s] + 1 \in Nat /\ unusedCount[s] - 1 \in Nat
      BY <1>3, <1>4
    <3>3. runningCount' \in [Schedulers -> Nat] /\ unusedCount' \in [Schedulers -> Nat]
      BY <1>5, <3>1, <3>2
    <3>4. suspendedCount' \in [Schedulers -> Nat] /\ yetToCreate' \in [Schedulers -> Nat]
          /\ fromShared' \in [Schedulers -> Nat]
      <4>1. suspendedCount[s] - 1 \in Nat
        BY <1>12, <2>2
      <4>2. QED BY <1>5, <2>2, <4>1
    <3>5. QED BY <3>3, <3>4 DEF Counters
  <2>5. Counted(s)'
    <3>1. /\ Cardinality(running'[s]) = Cardinality(running[s]) + 1
          /\ runningCount'[s] = runningCount[s] + 1 /\ unusedCount'[s] = unusedCount[s] - 1
          /\ suspendedCount'[s] = suspendedCount[s] - 1
          /\ yetToCreate'[s] = yetToCreate[s] /\ fromShared'[s] = fromShared[s]
          /\ Len(suspended'[s]) = Len(suspended[s]) - 1
      BY <1>1, <1>5, <2>1, <2>2, <2>3, GainIsCounted
    <3>2. fromShared[s] = 0
      BY <1>1, <1>3, <2>2 DEF Counted
    <3>10. /\ s \notin destroyed' /\ (Back(s)' <=> Back(s))
      BY <1>1, <1>2
    <3>11. runningCount'[s] = Cardinality(running'[s]) + IF Back(s)' THEN 1 ELSE 0
      BY <1>3, <3>1, <3>10 DEF Counted
    <3>12. suspendedCount'[s] = Len(suspended'[s])
      BY <1>1, <1>3, <2>2, <3>1 DEF Counted
    <3>13. /\ unusedCount'[s] + fromShared'[s] = suspendedCount'[s] + yetToCreate'[s] + SharedThreads[s]
           /\ runningCount'[s] + unusedCount'[s] = ThreadCount[s] + SharedThreads[s]
           /\ yetToCreate'[s] <= ThreadCount[s]
      <4>1. (unusedCount[s] - 1) + fromShared[s] = (suspendedCount[s] - 1) + yetToCreate[s] + SharedThreads[s]
        BY <1>11, <1>12, SumsStayEqual
      <4>3. (runningCount[s] + 1) + (unusedCount[s] - 1) = ThreadCount[s] + SharedThreads[s]
        BY ONLY <1>11, <1>12
      <4>4. yetToCreate[s] <= ThreadCount[s]
        BY ONLY <1>11, <1>12
      <4>2. QED BY ONLY <3>1, <4>1, <4>3, <4>4
    <3>14. /\ fromShared'[s] > 0 => suspended'[s] = <<>>
           /\ Back(s)' => fromShared'[s] > 0
      BY <1>1, <1>3, <2>2, <3>1, <3>10, <3>2 DEF Counted
    <3>15. QED BY <3>10, <3>11, <3>12, <3>13, <3>14 DEF Counted
  <2>6. ASSUME NEW r \in Schedulers \ {s} PROVE Counted(r)'
    <3>1. UNCHANGED <<runningCount[r], suspendedCount[r], yetToCreate[r], fromShared[r],
                      unusedCount[r], running[r], suspended[r]>>
      BY <1>1, <1>5, <2>1, <2>2, GainIsCounted
    <3>2. QED BY <1>1, <1>2, <3>1, OthersStayCounted
  <2>7. QED BY <2>4, <2>5, <2>6 DEF CountersOK
<1>8. CASE CreateThread(s, p, to)
  <2>1. PICK t \in Threads : Gain(t, s, p, to)
    <3>1. RunNew(s, p, to) /\ UNCHANGED <<suspended, pool, starved, starving, hungry>>
      BY <1>8 DEF CreateThread, shared
    <3>2. QED BY <1>1, <3>1, NewGains
  <2>2. /\ suspendedCount[s] = 0 /\ yetToCreate[s] > 0
        /\ yetToCreate' = [yetToCreate EXCEPT ![s] = yetToCreate[s] - 1]
        /\ UNCHANGED <<suspended, suspendedCount, fromShared>>
    BY <1>8 DEF CreateThread
  <2>3. Counters'
    <3>1. /\ runningCount' = [runningCount EXCEPT ![s] = runningCount[s] + 1]
          /\ unusedCount' = [unusedCount EXCEPT ![s] = unusedCount[s] - 1]
      BY <1>1, <2>1, GainIsCounted
    <3>2. runningCount[s] + 1 \in Nat /\ unusedCount[s] - 1 \in Nat
      BY <1>3, <1>4
    <3>3. runningCount' \in [Schedulers -> Nat] /\ unusedCount' \in [Schedulers -> Nat]
      BY <1>5, <3>1, <3>2
    <3>4. suspendedCount' \in [Schedulers -> Nat] /\ yetToCreate' \in [Schedulers -> Nat]
          /\ fromShared' \in [Schedulers -> Nat]
      <4>1. yetToCreate[s] - 1 \in Nat
        BY <1>12, <2>2
      <4>2. QED BY <1>5, <2>2, <4>1
    <3>5. QED BY <3>3, <3>4 DEF Counters
  <2>4. Counted(s)'
    <3>1. /\ Cardinality(running'[s]) = Cardinality(running[s]) + 1
          /\ runningCount'[s] = runningCount[s] + 1 /\ unusedCount'[s] = unusedCount[s] - 1
          /\ yetToCreate'[s] = yetToCreate[s] - 1
          /\ suspendedCount'[s] = suspendedCount[s] /\ fromShared'[s] = fromShared[s]
      BY <1>1, <1>5, <2>1, <2>2, GainIsCounted
    <3>10. /\ s \notin destroyed' /\ (Back(s)' <=> Back(s))
      BY <1>1, <1>2
    <3>11. runningCount'[s] = Cardinality(running'[s]) + IF Back(s)' THEN 1 ELSE 0
      BY <1>3, <3>1, <3>10 DEF Counted
    <3>12. suspendedCount'[s] = Len(suspended'[s])
      BY <1>1, <1>3, <2>2, <3>1 DEF Counted
    <3>13. /\ unusedCount'[s] + fromShared'[s] = suspendedCount'[s] + yetToCreate'[s] + SharedThreads[s]
           /\ runningCount'[s] + unusedCount'[s] = ThreadCount[s] + SharedThreads[s]
           /\ yetToCreate'[s] <= ThreadCount[s]
      <4>1. (unusedCount[s] - 1) + fromShared[s] = suspendedCount[s] + (yetToCreate[s] - 1) + SharedThreads[s]
        BY <1>11, <1>12, SumsStayEqual
      <4>3. (runningCount[s] + 1) + (unusedCount[s] - 1) = ThreadCount[s] + SharedThreads[s]
        BY ONLY <1>11, <1>12
      <4>4. yetToCreate[s] - 1 <= ThreadCount[s]
        BY ONLY <1>11, <1>12
      <4>2. QED BY ONLY <3>1, <4>1, <4>3, <4>4
    <3>14. /\ fromShared'[s] > 0 => suspended'[s] = <<>>
           /\ Back(s)' => fromShared'[s] > 0
      BY <1>1, <1>3, <2>2, <3>1, <3>10 DEF Counted
    <3>15. QED BY <3>10, <3>11, <3>12, <3>13, <3>14 DEF Counted
  <2>5. ASSUME NEW r \in Schedulers \ {s} PROVE Counted(r)'
    <3>1. UNCHANGED <<runningCount[r], suspendedCount[r], yetToCreate[r], fromShared[r],
                      unusedCount[r], running[r], suspended[r]>>
      BY <1>1, <1>5, <2>1, <2>2, GainIsCounted
    <3>2. QED BY <1>1, <1>2, <3>1, OthersStayCounted
  <2>6. QED BY <2>3, <2>4, <2>5 DEF CountersOK
<1>9. CASE Borrow(s, p, to) /\ suspendedCount[s] = 0
  <2>1. PICK t \in Threads : Gain(t, s, p, to)
    BY <1>1, <1>9, BorrowGains
  <2>2. /\ fromShared' = [fromShared EXCEPT ![s] = fromShared[s] + 1]
        /\ UNCHANGED <<suspended, suspendedCount, yetToCreate>>
    BY <1>9 DEF Borrow
  <2>3. suspended[s] = <<>>
    BY <1>1, <1>3, <1>9 DEF Counted
  <2>4. Counters'
    <3>1. /\ runningCount' = [runningCount EXCEPT ![s] = runningCount[s] + 1]
          /\ unusedCount' = [unusedCount EXCEPT ![s] = unusedCount[s] - 1]
      BY <1>1, <2>1, GainIsCounted
    <3>2. runningCount[s] + 1 \in Nat /\ unusedCount[s] - 1 \in Nat
      BY <1>3, <1>4
    <3>3. runningCount' \in [Schedulers -> Nat] /\ unusedCount' \in [Schedulers -> Nat]
      BY <1>5, <3>1, <3>2
    <3>4. suspendedCount' \in [Schedulers -> Nat] /\ yetToCreate' \in [Schedulers -> Nat]
          /\ fromShared' \in [Schedulers -> Nat]
      <4>1. fromShared[s] + 1 \in Nat
        BY <1>12, <2>2
      <4>2. QED BY <1>5, <2>2, <4>1
    <3>5. QED BY <3>3, <3>4 DEF Counters
  <2>5. Counted(s)'
    <3>1. /\ Cardinality(running'[s]) = Cardinality(running[s]) + 1
          /\ runningCount'[s] = runningCount[s] + 1 /\ unusedCount'[s] = unusedCount[s] - 1
          /\ fromShared'[s] = fromShared[s] + 1
          /\ suspendedCount'[s] = suspendedCount[s] /\ yetToCreate'[s] = yetToCreate[s]
      BY <1>1, <1>5, <2>1, <2>2, GainIsCounted
    <3>10. /\ s \notin destroyed' /\ (Back(s)' <=> Back(s))
      BY <1>1, <1>2
    <3>11. runningCount'[s] = Cardinality(running'[s]) + IF Back(s)' THEN 1 ELSE 0
      BY <1>3, <3>1, <3>10 DEF Counted
    <3>12. suspendedCount'[s] = Len(suspended'[s])
      BY <1>1, <1>3, <2>2, <3>1 DEF Counted
    <3>13. /\ unusedCount'[s] + fromShared'[s] = suspendedCount'[s] + yetToCreate'[s] + SharedThreads[s]
           /\ runningCount'[s] + unusedCount'[s] = ThreadCount[s] + SharedThreads[s]
           /\ yetToCreate'[s] <= ThreadCount[s]
      <4>1. (unusedCount[s] - 1) + (fromShared[s] + 1) = suspendedCount[s] + yetToCreate[s] + SharedThreads[s]
        BY <1>11, <1>12, SumsStayEqual
      <4>3. (runningCount[s] + 1) + (unusedCount[s] - 1) = ThreadCount[s] + SharedThreads[s]
        BY ONLY <1>11, <1>12
      <4>4. yetToCreate[s] <= ThreadCount[s]
        BY ONLY <1>11, <1>12
      <4>2. QED BY ONLY <3>1, <4>1, <4>3, <4>4
    <3>14. /\ fromShared'[s] > 0 => suspended'[s] = <<>>
           /\ Back(s)' => fromShared'[s] > 0
      BY <1>1, <1>3, <2>2, <3>1, <3>10, <2>3 DEF Counted
    <3>15. QED BY <3>10, <3>11, <3>12, <3>13, <3>14 DEF Counted
  <2>6. ASSUME NEW r \in Schedulers \ {s} PROVE Counted(r)'
    <3>1. UNCHANGED <<runningCount[r], suspendedCount[r], yetToCreate[r], fromShared[r],
                      unusedCount[r], running[r], suspended[r]>>
      BY <1>1, <1>5, <2>1, <2>2, GainIsCounted
    <3>2. QED BY <1>1, <1>2, <3>1, OthersStayCounted
  <2>7. QED BY <2>4, <2>5, <2>6 DEF CountersOK
<1>10. QED
  BY <1>6, <1>7, <1>8, <1>9 DEF Allocates, AllocateThread, AllocateSharedThread, WantsShared

\* Nobody allocates a thread for a scheduler that is being destroyed: no caller
\* calls it, and it wants no shared thread.
LEMMA AllocatorIsOpen ==
  ASSUME IInv, NEW s, NEW p, NEW to, NEW on, Allocates(s, p, to, on)
  PROVE  s \notin closing
<1>1. s \in Schedulers
  BY AllocationIs
<1>2. CASE p \in Callers /\ (s \notin closing \/ target[p] = s)
  BY <1>2 DEF IInv, DestroyOK
<1>3. CASE WantsShared(s)
  <2>1. queue[s] \in Nat /\ runningCount[s] \in Nat
    BY <1>1 DEF IInv, Calling, Counters
  <2>2. stopCount[s] # 0 /\ queue[s] # 0
    BY <1>3, <2>1 DEF WantsShared
  <2>3. QED BY <2>2 DEF IInv, DestroyOK
<1>4. QED BY <1>2, <1>3 DEF Allocates

\* A scheduler that gets no thread starves from then on, and p registers it.
LEMMA AllocationKeepsStarving ==
  ASSUME IInv, NEW s, NEW p, NEW to, NEW on, Allocates(s, p, to, on)
  PROVE  Flags' /\ StarvingOK'
<1>1. /\ s \in Schedulers /\ p \in Processes
      /\ \A q \in Processes \ {p} : Moved(q)
      /\ destroyed' = destroyed /\ closing' = closing
  BY AllocationIs, AllocationMoves DEF Allocates
<1>2. pc[p] \in {"idle", "resume", "grow"} /\ {to, on} \subseteq {"idle", "resume", "grow", "notify"}
  BY DEF Allocates
<1>3. \A q \in Processes \ {p} : target'[q] = target[q] /\ (Notifying(q)' <=> Notifying(q))
  BY <1>1 DEF Allocates, Keep, IInv, Positions, Moved, Notifying
<1>4. CASE starved' = starved /\ starving' = starving /\ hungry' \subseteq Schedulers /\ pc'[p] \in {to, on}
  <2>1. ~Notifying(p)'
    BY <1>2, <1>4 DEF Notifying
  <2>2. Flags'
    BY <1>1, <1>4 DEF IInv, Flags
  <2>3. StarvingOK'
    BY <1>3, <1>4, <2>1 DEF IInv, StarvingOK
  <2>4. QED BY <2>2, <2>3
<1>5. CASE BorrowNothing(s, p, on)
  <2>1. /\ starved' = [starved EXCEPT ![s] = TRUE] /\ starving' = starving
        /\ hungry' \subseteq Schedulers
        /\ pc'[p] = IF starved[s] THEN on ELSE "register"
    BY <1>1, <1>5 DEF BorrowNothing, shared, IInv, Positions, Flags
  <2>2. CASE starved[s]
    <3>1. starved' = starved
      BY <1>1, <2>1, <2>2 DEF IInv, Flags
    <3>2. QED BY <1>4, <2>1, <2>2, <3>1
  <2>3. CASE ~starved[s]
    <3>1. s \notin Range(starving)
      BY <2>3 DEF IInv, StarvingOK
    <3>2. \A q \in Processes : Notifying(q) => target[q] # s /\ q # p
      BY <1>2, <2>3 DEF IInv, StarvingOK, Notifying
    <3>3. Flags'
      BY <1>1, <2>1 DEF IInv, Flags
    <3>4. Notifying(p)' /\ target'[p] = s
      BY <1>1, <2>1, <2>3 DEF Notifying, Allocates, Keep, IInv, Positions
    <3>5. \A r \in Schedulers : starved'[r] = (r = s \/ starved[r])
      BY <1>1, <2>1, <2>3 DEF IInv, Flags
    <3>6. \A r \in Range(starving') :
            starved'[r] /\ \A q \in Processes : Notifying(q)' => target'[q] # r
      <4> SUFFICES ASSUME NEW r \in Range(starving')
                   PROVE  starved'[r] /\ \A q \in Processes : Notifying(q)' => target'[q] # r
        OBVIOUS
      <4>1. r \in Range(starving) /\ r \in Schedulers /\ r # s
        BY <2>1, <3>1 DEF IInv, Flags, Range
      <4>2. QED BY <1>3, <3>4, <3>5, <4>1 DEF IInv, StarvingOK
    <3>7. \A q \in Processes : Notifying(q)' => starved'[target'[q]]
      <4> SUFFICES ASSUME NEW q \in Processes, Notifying(q)' PROVE starved'[target'[q]]
        OBVIOUS
      <4>1. CASE q = p
        BY <1>1, <3>4, <3>5, <4>1
      <4>2. CASE q # p
        <5>1. Notifying(q) /\ target'[q] = target[q]
          BY <1>3, <4>2
        <5>2. target[q] \in Schedulers /\ starved[target[q]]
          BY <5>1 DEF IInv, StarvingOK, MutexOK, Positions, Notifying, Aiming, Inside
        <5>3. QED BY <3>5, <5>1, <5>2
      <4>3. QED BY <4>1, <4>2
    <3>8. \A q, r \in Processes :
            Notifying(q)' /\ Notifying(r)' /\ target'[q] = target'[r] => q = r
      BY <1>3, <3>2, <3>4 DEF IInv, StarvingOK
    <3>9. IsInjective(starving')
      BY <2>1 DEF IInv, StarvingOK
    <3>10. QED BY <3>3, <3>6, <3>7, <3>8, <3>9 DEF StarvingOK
  <2>4. QED BY <2>2, <2>3
<1>6. ASSUME NEW t \in Threads, Gain(t, s, p, to) PROVE Flags' /\ StarvingOK'
  <2>1. starved' = starved /\ starving' = starving /\ hungry' \subseteq Schedulers
    BY <1>6 DEF Gain, IInv, Flags
  <2>2. pc'[p] = to
    BY <1>1, <1>6 DEF Gain, Run
  <2>3. QED BY <1>4, <2>1, <2>2
<1>7. QED BY <1>5, <1>6, AllocationIs

\* The scheduler is open, so what is known of those that are destroyed stays.
LEMMA AllocationKeepsDestroyed ==
  ASSUME IInv, NEW s, NEW p, NEW to, NEW on, Allocates(s, p, to, on),
         \A r \in closing : queue'[r] = queue[r]
  PROVE  DestroyOK' /\ DestroyedIsForgotten'
<1>1. /\ s \in Schedulers /\ s \notin closing /\ p \in Processes
      /\ \A q \in Processes \ {p} : Moved(q)
      /\ UNCHANGED <<closing, destroyed, at, stopCount>>
  BY AllocationIs, AllocationMoves, AllocatorIsOpen DEF Allocates
<1>2. /\ closing \subseteq Schedulers /\ destroyed \subseteq closing /\ None \notin Schedulers
      /\ Threads \subseteq Processes /\ Callers \subseteq Processes
  BY SchedulerAssumption DEF IInv, Flags, Processes
<1>3. /\ target'[p] \in {s, None} /\ \A q \in Processes \ {p} : target'[q] = target[q]
      /\ \A r \in Schedulers \ {s} : mutex'[r] = mutex[r]
  BY <1>1 DEF Allocates, Keep, IInv, Positions
<1>4. \A r \in Schedulers \ {s} : starved'[r] = starved[r]
  BY <1>1, AllocationIs DEF BorrowNothing, Gain, IInv, Flags
<1>5. starving' = starving
  BY AllocationIs DEF BorrowNothing, Gain, shared
<1>6. \A r \in Schedulers \ {s} : running'[r] = running[r] /\ fromShared'[r] = fromShared[r]
  <2>1. CASE BorrowNothing(s, p, on)
    BY <2>1 DEF BorrowNothing, threads, counters
  <2>2. CASE RecycleThread(s, p, to)
    BY <2>2 DEF RecycleThread, Run, IInv, Lists
  <2>3. CASE CreateThread(s, p, to)
    BY <2>3 DEF CreateThread, RunNew, Run, IInv, Lists
  <2>4. CASE Borrow(s, p, to)
    BY <2>4 DEF Borrow, RunNew, Run, IInv, Lists, Counters
  <2>5. QED BY <2>1, <2>2, <2>3, <2>4 DEF Allocates, AllocateThread, AllocateSharedThread
<1>7. \A c \in Callers : at[c] \in closing => c # p
  BY <1>2, SchedulerAssumption DEF Allocates, IInv, MutexOK
<1>8. DestroyOK'
  <2>1. \A r \in closing' : stopCount'[r] = 0 \/ queue'[r] = 0
    BY <1>1 DEF IInv, DestroyOK
  <2>2. \A r \in closing' : \A c \in Callers : target'[c] # r
    BY <1>1, <1>2, <1>3 DEF IInv, DestroyOK
  <2>3. \A r \in closing' : \A c, d \in Callers : at'[c] = r /\ at'[d] = r => c = d
    BY <1>1 DEF IInv, DestroyOK
  <2>4. ASSUME NEW c \in Callers, at'[c] \in closing', pc'[c] # "spin" PROVE ~starved'[at'[c]]
    <3>1. c # p /\ Moved(c) /\ at[c] \in closing
      BY <1>1, <1>2, <1>7, <2>4
    <3>2. pc[c] # "spin"
      BY <2>4, <3>1 DEF Moved
    <3>3. QED BY <1>1, <1>2, <1>4, <3>1, <3>2 DEF IInv, DestroyOK
  <2>5. \A r \in destroyed' : ~starved'[r] /\ \A c \in Callers : at'[c] # r
    BY <1>1, <1>2, <1>4 DEF IInv, DestroyOK
  <2>6. QED BY <2>1, <2>2, <2>3, <2>4, <2>5 DEF DestroyOK
<1>9. DestroyedIsForgotten'
  <2> SUFFICES ASSUME NEW r \in destroyed
               PROVE  /\ running'[r] = {} /\ fromShared'[r] = 0 /\ mutex'[r] = None
                      /\ r \notin Range(starving')
                      /\ \A t \in Threads : at'[t] # r /\ target'[t] # r
    BY <1>1 DEF DestroyedIsForgotten
  <2>1. /\ running[r] = {} /\ fromShared[r] = 0 /\ mutex[r] = None
        /\ r \notin Range(starving)
        /\ \A t \in Threads : at[t] # r /\ target[t] # r
    BY DEF IInv, DestroyedIsForgotten
  <2>2. r \in Schedulers /\ r # s /\ r # None
    BY <1>1, <1>2
  <2>3. QED BY <1>1, <1>2, <1>3, <1>5, <1>6, <2>1, <2>2
<1>10. QED BY <1>8, <1>9

\* More threads run for s, and those that wait still do.
LEMMA AllocationKeepsWaiting ==
  ASSUME IInv, NEW s, NEW p, NEW to, NEW on, Allocates(s, p, to, on)
  PROVE  WaitingOK'
<1>1. /\ s \in Schedulers /\ p \in Processes
      /\ \A q \in Processes \ {p} : Moved(q)
      /\ UNCHANGED <<waitingThreads, threadIsIdle>>
  BY AllocationIs, AllocationMoves DEF Allocates
<1>2. p \in Threads => pc[p] \in Leaving /\ pc'[p] \in Leaving
  BY AllocatorIsElsewhere
<1>3. ASSUME NEW t \in Threads PROVE pc'[t] \in {"some", "woken"} <=> pc[t] \in {"some", "woken"}
  <2>1. t = p \/ Moved(t)
    BY <1>1 DEF Processes
  <2>2. QED BY <1>2, <2>1 DEF Moved, Leaving
<1>4. ASSUME NEW t \in Threads, pc[t] \in {"some", "woken"} PROVE owner'[t] = owner[t]
  <2>1. t \in resumed
    BY <1>4 DEF IInv, ListsOK
  <2>2. CASE BorrowNothing(s, p, on)
    BY <2>2 DEF BorrowNothing, threads
  <2>3. ASSUME NEW u \in Threads, Gain(u, s, p, to) PROVE owner'[t] = owner[t]
    BY <2>1, <2>3 DEF Gain, Run, IInv, Lists
  <2>4. QED BY <2>2, <2>3, AllocationIs
<1>5. ASSUME NEW r \in Schedulers PROVE Waiters(r)' = Waiters(r)
  BY <1>3, <1>4 DEF Waiters
<1>6. ASSUME NEW r \in Schedulers PROVE Cardinality(running[r]) <= Cardinality(running'[r])
  <2>1. CASE BorrowNothing(s, p, on)
    BY <2>1, CountersAre DEF BorrowNothing, threads
  <2>2. ASSUME NEW u \in Threads, Gain(u, s, p, to)
        PROVE  Cardinality(running[r]) <= Cardinality(running'[r])
    BY <1>1, <2>2, GainIsCounted, CountersAre
  <2>3. QED BY <2>1, <2>2, AllocationIs
<1>7. Lists'
  BY AllocationKeepsLists
<1>8. ASSUME NEW r \in Schedulers
      PROVE  /\ waitingThreads'[r] = Cardinality(Waiters(r)')
             /\ r \notin threadIsIdle' /\ waitingThreads'[r] > 0 =>
                  waitingThreads'[r] < Cardinality(running'[r])
  <2>1. waitingThreads[r] \in Nat /\ Cardinality(running[r]) \in Nat
    BY CountersAre DEF IInv, Calling
  <2>2. Cardinality(running'[r]) \in Nat
    BY <1>7, FS_Subset, FS_CardinalityType, SchedulerAssumption DEF Lists
  <2>3. waitingThreads'[r] = Cardinality(Waiters(r)')
    BY <1>1, <1>5 DEF IInv, WaitingOK
  <2>4. ASSUME r \notin threadIsIdle', waitingThreads'[r] > 0
        PROVE  waitingThreads'[r] < Cardinality(running'[r])
    <3>1. waitingThreads[r] < Cardinality(running[r]) /\ waitingThreads' = waitingThreads
      BY <1>1, <2>4 DEF IInv, WaitingOK
    <3>2. QED BY <1>6, <2>1, <2>2, <3>1
  <2>5. QED BY <2>3, <2>4
<1>9. QED BY <1>8 DEF WaitingOK

\* One more debt is one more pair.
LEMMA DebtIsAdded ==
  ASSUME IInv, NEW s \in Schedulers,
         fromShared' = [fromShared EXCEPT ![s] = fromShared[s] + 1]
  PROVE  IsFiniteSet(Debts') /\ Cardinality(Debts') = Cardinality(Debts) + 1
<1>1. fromShared \in [Schedulers -> Nat] /\ IsFiniteSet(Debts)
  BY DEF IInv, Counters, Loans
<1>2. fromShared'[s] = fromShared[s] + 1 /\ \A r \in Schedulers \ {s} : fromShared'[r] = fromShared[r]
  BY <1>1
<1>3. 1..(fromShared[s] + 1) = 1..fromShared[s] \cup {fromShared[s] + 1}
  BY <1>1
<1>4. PICK debt : debt = <<s, fromShared[s] + 1>>
  OBVIOUS
<1>5. Debts' = Debts \cup {debt}
  <2>1. \A x : x \in Debts <=> \E r \in Schedulers : \E n \in 1..fromShared[r] : x = <<r, n>>
    BY DEF Debts
  <2>2. \A x : x \in Debts' <=> \E r \in Schedulers : \E n \in 1..fromShared'[r] : x = <<r, n>>
    BY DEF Debts
  <2>3. ASSUME NEW x \in Debts' PROVE x \in Debts \cup {debt}
    <3>5. PICK r \in Schedulers : \E n \in 1..fromShared'[r] : x = <<r, n>>
      BY <2>2, <2>3
    <3>1. PICK n \in 1..fromShared'[r] : x = <<r, n>>
      BY <3>5
    <3>2. CASE r = s
      BY <1>2, <1>3, <1>4, <2>1, <3>1, <3>2
    <3>3. CASE r # s
      BY <1>2, <2>1, <3>1, <3>3
    <3>4. QED BY <3>2, <3>3
  <2>4. ASSUME NEW x \in Debts \cup {debt} PROVE x \in Debts'
    <3>1. CASE x = debt
      BY <1>2, <1>3, <1>4, <2>2, <3>1
    <3>2. CASE x \in Debts
      <4>4. PICK r \in Schedulers : \E n \in 1..fromShared[r] : x = <<r, n>>
        BY <2>1, <3>2
      <4>1. PICK n \in 1..fromShared[r] : x = <<r, n>>
        BY <4>4
      <4>2. n \in 1..fromShared'[r]
        BY <1>2, <1>3, <4>1
      <4>3. QED BY <2>2, <4>1, <4>2
    <3>3. QED BY <2>4, <3>1, <3>2
  <2>5. QED BY <2>3, <2>4
<1>6. debt \notin Debts
  BY <1>1, <1>4 DEF Debts
<1>7. QED BY <1>1, <1>5, <1>6, FS_AddElement

\* A loan is counted by the pool and by the scheduler.
LEMMA AllocationKeepsLoans ==
  ASSUME IInv, NEW s, NEW p, NEW to, NEW on, Allocates(s, p, to, on)
  PROVE  Loans' /\ ThreadsAreCounted'
<1>1. /\ s \in Schedulers /\ p \in Processes
      /\ \A q \in Processes \ {p} : Moved(q)
      /\ at' = at
  BY AllocationIs, AllocationMoves DEF Allocates
<1>2. p \in Threads => pc[p] \notin {"spin", "release"} /\ pc'[p] \notin {"spin", "release"}
  BY AllocatorIsElsewhere
<1>3. Returned' = Returned
  <2>1. ASSUME NEW t \in Threads PROVE pc'[t] \in {"spin", "release"} <=> pc[t] \in {"spin", "release"}
    <3>1. t = p \/ Moved(t)
      BY <1>1 DEF Processes
    <3>2. QED BY <1>2, <3>1 DEF Moved
  <2>2. QED BY <1>1, <2>1 DEF Returned
<1>4. /\ allocCount \in Nat /\ poolYetToCreate \in Nat /\ pool \in Seq(Threads) /\ IsInjective(pool)
      /\ IsFiniteSet(Debts) /\ Cardinality(Debts) \in Nat
      /\ Cardinality(Returned) \in Nat
      /\ Len(pool) + allocCount + poolYetToCreate = MaxCount
      /\ Cardinality(Debts) = allocCount + Cardinality(Returned)
  <2>1. Returned \subseteq Threads
    BY DEF Returned
  <2>2. QED BY <2>1, FS_Subset, FS_CardinalityType, SchedulerAssumption
            DEF IInv, Loans, Lists, ListsOK, ThreadsAreCounted
<1>5. CASE UNCHANGED <<fromShared, pool, allocCount, poolYetToCreate>>
  <2>1. Debts' = Debts
    BY <1>5 DEF Debts
  <2>2. QED BY <1>3, <1>4, <1>5, <2>1 DEF Loans, ThreadsAreCounted
<1>6. CASE Borrow(s, p, to)
  <2>1. IsFiniteSet(Debts') /\ Cardinality(Debts') = Cardinality(Debts) + 1 /\ allocCount' = allocCount + 1
    <3>1. fromShared' = [fromShared EXCEPT ![s] = fromShared[s] + 1] /\ allocCount' = allocCount + 1
      BY <1>6 DEF Borrow
    <3>2. QED BY <1>1, <3>1, DebtIsAdded
  <2>2. Cardinality(Debts') = allocCount' + Cardinality(Returned')
    BY <1>3, <1>4, <2>1
  <2>3. CASE pool # <<>> /\ pool' = Front(pool) /\ UNCHANGED poolYetToCreate
    <3>1. Len(pool') = Len(pool) - 1 /\ Len(pool) \in Nat
      BY <1>4, <2>3, PopIs
    <3>2. Len(pool') + allocCount' + poolYetToCreate' = MaxCount
      BY <1>4, <2>1, <2>3, <3>1
    <3>3. QED BY <1>4, <2>1, <2>2, <2>3, <3>2 DEF Loans, ThreadsAreCounted
  <2>4. CASE poolYetToCreate > 0 /\ poolYetToCreate' = poolYetToCreate - 1 /\ UNCHANGED pool
    <3>1. Len(pool) \in Nat
      BY <1>4
    <3>2. Len(pool') + allocCount' + poolYetToCreate' = MaxCount
      BY <1>4, <2>1, <2>4, <3>1
    <3>3. QED BY <1>4, <2>1, <2>2, <2>4, <3>2 DEF Loans, ThreadsAreCounted
  <2>5. QED BY <1>6, <2>3, <2>4 DEF Borrow
<1>7. CASE BorrowNothing(s, p, on)
  BY <1>5, <1>7 DEF BorrowNothing, threads, counters, shared
<1>8. CASE RecycleThread(s, p, to)
  BY <1>5, <1>8 DEF RecycleThread, shared
<1>9. CASE CreateThread(s, p, to)
  BY <1>5, <1>9 DEF CreateThread, shared
<1>10. QED
  BY <1>6, <1>7, <1>8, <1>9 DEF Allocates, AllocateThread, AllocateSharedThread

-----------------------------------------------------------------------------
(* What a step that allocates no thread leaves alone                         *)

\* What must be true of where a process is.
Stands(p) ==
  /\ pc[p] \in Places /\ at[p] \in Schedulers \cup {None} /\ target[p] \in Schedulers \cup {None}
  /\ p \in Threads =>
       /\ pc[p] \in ThreadPlaces
       /\ at[p] # None <=> pc[p] \in Leaving
       /\ at[p] # None => mutex[at[p]] = p
       /\ pc[p] \in Inside => target[p] # at[p]
  /\ p \in Callers =>
       /\ pc[p] \in CallerPlaces
       /\ at[p] # None <=> pc[p] \in {"spin", "drain", "empty"}
  /\ target[p] # None <=> pc[p] \in Aiming
  /\ pc[p] \in Inside => mutex[target[p]] = p

\* Everybody does.
LEMMA AllStand == ASSUME IInv, NEW p \in Processes PROVE Stands(p)
BY DEF IInv, Positions, MutexOK, Stands

\* Who does not move; a suspended thread may be ended.
Aside(q) ==
  /\ at'[q] = at[q] /\ target'[q] = target[q]
  /\ pc'[q] = pc[q] \/ (q \in Threads /\ pc[q] = "loop" /\ pc'[q] = "new")

\* p moves, and enters or leaves a critical section with nobody else in it.
Moves(p) ==
  /\ p \in Processes
  /\ mutex' \in [Schedulers -> Processes \cup {None}] /\ pc' \in [Processes -> Places]
  /\ at' \in [Processes -> Schedulers \cup {None}]
  /\ target' \in [Processes -> Schedulers \cup {None}]
  /\ \A q \in Processes \ {p} : Aside(q)
  /\ \A r \in Schedulers :
       mutex'[r] = mutex[r] \/ (mutex[r] \in {None, p} /\ mutex'[r] \in {None, p})
  /\ Stands(p)'

\* Nobody else loses its critical section by that.
LEMMA MovesKeepPositions ==
  ASSUME IInv, NEW p, Moves(p)
  PROVE  Positions' /\ MutexOK'
<1>1. ASSUME NEW q \in Processes PROVE Stands(q)'
  <2>1. CASE q = p
    BY <2>1 DEF Moves
  <2>2. CASE q # p
    <3>1. Stands(q) /\ Aside(q) /\ q # None
      BY <2>2, AllStand, SchedulerAssumption DEF Moves, Processes
    <3>2. /\ at'[q] = at[q] /\ target'[q] = target[q]
          /\ pc'[q] \in Leaving <=> pc[q] \in Leaving
          /\ pc'[q] \in Inside <=> pc[q] \in Inside
          /\ pc'[q] \in Aiming <=> pc[q] \in Aiming
          /\ pc'[q] \in Places
      BY <3>1 DEF Aside, Leaving, Inside, Aiming, Stands, Places
    <3>3. ASSUME NEW r \in Schedulers, mutex[r] = q PROVE mutex'[r] = q
      BY <2>2, <3>1, <3>3 DEF Moves
    <3>4. q \in Threads =>
            /\ pc'[q] \in ThreadPlaces
            /\ at'[q] # None <=> pc'[q] \in Leaving
            /\ at'[q] # None => mutex'[at'[q]] = q
            /\ pc'[q] \in Inside => target'[q] # at'[q]
      BY <3>1, <3>2, <3>3 DEF Stands, Aside, ThreadPlaces
    <3>5. q \in Callers =>
            /\ pc'[q] \in CallerPlaces
            /\ at'[q] # None <=> pc'[q] \in {"spin", "drain", "empty"}
      BY <3>1, SchedulerAssumption DEF Stands, Aside
    <3>6. /\ target'[q] # None <=> pc'[q] \in Aiming
          /\ pc'[q] \in Inside => mutex'[target'[q]] = q
      BY <3>1, <3>2, <3>3 DEF Stands, Aiming
    <3>7. QED BY <3>1, <3>2, <3>4, <3>5, <3>6 DEF Stands
  <2>3. QED BY <2>1, <2>2
<1>3. Positions'
  <2>1. (\A t \in Threads : pc'[t] \in ThreadPlaces) /\ (\A c \in Callers : pc'[c] \in CallerPlaces)
    BY <1>1 DEF Stands, Processes
  <2>2. QED BY <2>1 DEF Moves, Positions
<1>4. MutexOK'
  BY <1>1 DEF Stands, MutexOK, Processes
<1>5. QED BY <1>3, <1>4

\* Counters and lists that stay agree as before, as long as nobody begins or ends
\* to give itself back.
LEMMA CountersStay ==
  ASSUME IInv, UNCHANGED <<counters, running, suspended>>, destroyed \subseteq destroyed',
         \A t \in Threads : at'[t] = at[t]
  PROVE  Counters' /\ CountersOK'
<1>1. Counters'
  BY DEF IInv, Counters, counters
<1>2. ASSUME NEW s \in Schedulers PROVE Counted(s)'
  <2>1. Back(s)' <=> Back(s)
    BY DEF Back
  <2>2. UNCHANGED <<runningCount[s], suspendedCount[s], yetToCreate[s], fromShared[s],
                    unusedCount[s], running[s], suspended[s]>>
    BY DEF counters
  <2>3. QED BY <2>1, <2>2, OthersStayCounted
<1>3. QED BY <1>1, <1>2 DEF CountersOK

\* A thread goes on without entering or leaving a list: it ends a job or its
\* leave, goes on leaving, or is resumed and has a job.
Busy == {"execute", "some", "woken", "ending"}
GoesOn(t) ==
  \/ pc'[t] = pc[t] \/ pc'[t] = "loop"
  \/ pc[t] \in Leaving \ {"spin", "release"} /\ pc'[t] \in Leaving \ {"spin", "release"}
  \/ pc[t] \in {"spin", "release"} /\ pc'[t] \in {"spin", "release"}
  \/ t \in resumed /\ pc'[t] \in Busy

\* The lists stay in order.
LEMMA ListsStay ==
  ASSUME IInv, UNCHANGED <<running, suspended, pool, owner, resumed>>,
         \A t \in Threads : GoesOn(t) /\ (pc'[t] \in {"spin", "release"} => at'[t] = at[t])
  PROVE  Lists' /\ ListsOK'
<1>1. Lists'
  BY DEF IInv, Lists
<1>2. ASSUME NEW s \in Schedulers, NEW t \in Range(suspended[s]) PROVE pc'[t] = "loop"
  <2>1. t \in Threads
    BY DEF IInv, Lists, Range
  <2>2. t \notin resumed /\ pc[t] = "loop"
    BY DEF IInv, ListsOK
  <2>3. QED BY <2>1, <2>2 DEF GoesOn, Leaving
<1>3. ASSUME NEW t \in Range(pool) PROVE pc'[t] \in ({"loop"} \cup Leaving) \ {"spin", "release"}
  <2>1. t \in Threads
    BY DEF IInv, Lists, Range
  <2>2. t \notin resumed /\ pc[t] \in ({"loop"} \cup Leaving) \ {"spin", "release"}
    BY DEF IInv, ListsOK
  <2>3. QED BY <2>1, <2>2 DEF GoesOn
<1>4. ASSUME NEW t \in Threads
      PROVE  /\ pc'[t] = "new" => t \notin resumed'
             /\ pc'[t] \in {"execute", "some", "woken", "ending"} => t \in resumed'
             /\ pc'[t] \in {"spin", "release"} => t \notin resumed' /\ owner'[t] = at'[t]
  BY DEF IInv, ListsOK, GoesOn, Leaving, Busy
<1>5. QED BY <1>1, <1>2, <1>3, <1>4 DEF IInv, ListsOK

\* So do the loans ...
LEMMA LoansStay ==
  ASSUME IInv, UNCHANGED <<pool, allocCount, poolYetToCreate, fromShared>>,
         \A t \in Threads :
           at'[t] # None /\ pc'[t] \notin {"spin", "release"}
             <=> at[t] # None /\ pc[t] \notin {"spin", "release"}
  PROVE  Loans' /\ ThreadsAreCounted'
<1>1. Debts' = Debts
  BY DEF Debts
<1>2. Returned' = Returned
  BY DEF Returned
<1>3. QED BY <1>1, <1>2 DEF IInv, Loans, ThreadsAreCounted

\* ... and those who wait for jobs, as long as no thread is taken from those that
\* do not.
LEMMA WaitingStays ==
  ASSUME IInv, UNCHANGED <<waitingThreads, running>>, threadIsIdle \subseteq threadIsIdle',
         \A t \in Threads :
           /\ pc'[t] \in {"some", "woken"} <=> pc[t] \in {"some", "woken"}
           /\ pc[t] \in {"some", "woken"} => owner'[t] = owner[t]
  PROVE  WaitingOK'
<1>1. ASSUME NEW s \in Schedulers PROVE Waiters(s)' = Waiters(s)
  BY DEF Waiters
<1>2. QED BY <1>1 DEF IInv, WaitingOK

\* Who is listed as starving, or about to be, stays so.
LEMMA StarvingStays ==
  ASSUME IInv, UNCHANGED <<starved, starving, destroyed, closing, hungry>>,
         \A p \in Processes :
           /\ Notifying(p)' <=> Notifying(p)
           /\ Notifying(p) => target'[p] = target[p]
  PROVE  Flags' /\ StarvingOK'
BY DEF IInv, Flags, StarvingOK

\* A scheduler that is being destroyed stays alone: nobody calls it, and it does
\* not begin to starve.
LEMMA DestroyStays ==
  ASSUME IInv, UNCHANGED <<closing, destroyed>>,
         \A s \in closing : stopCount'[s] = 0 \/ queue'[s] = 0,
         \A s \in Schedulers : starved'[s] => starved[s],
         \A c \in Callers :
           /\ at'[c] = at[c]
           /\ at[c] # None /\ pc'[c] # "spin" => pc[c] # "spin" \/ ~starved'[at[c]]
           /\ target'[c] = target[c] \/ target'[c] \notin closing
  PROVE  DestroyOK'
<1>1. closing \subseteq Schedulers /\ destroyed \subseteq closing /\ None \notin Schedulers
  BY SchedulerAssumption DEF IInv, Flags
<1>2. \A s \in closing' : \A c \in Callers : target'[c] # s
  BY DEF IInv, DestroyOK
<1>3. \A s \in closing' : \A c, d \in Callers : at'[c] = s /\ at'[d] = s => c = d
  BY DEF IInv, DestroyOK
<1>4. ASSUME NEW c \in Callers, at'[c] \in closing', pc'[c] # "spin" PROVE ~starved'[at'[c]]
  <2>1. at[c] \in closing /\ at[c] # None /\ at[c] \in Schedulers
    BY <1>1, <1>4
  <2>2. CASE pc[c] # "spin"
    <3>1. ~starved[at[c]]
      BY <2>1, <2>2 DEF IInv, DestroyOK
    <3>2. QED BY <2>1, <3>1
  <2>3. QED BY <1>4, <2>1, <2>2
<1>5. \A s \in destroyed' : ~starved'[s] /\ \A c \in Callers : at'[c] # s
  BY <1>1 DEF IInv, DestroyOK
<1>6. QED BY <1>2, <1>3, <1>4, <1>5 DEF DestroyOK

\* Nobody comes back to a scheduler that was destroyed.
LEMMA ForgottenStays ==
  ASSUME IInv, destroyed' = destroyed,
         \A s \in destroyed :
           /\ running'[s] = running[s] /\ fromShared'[s] = fromShared[s]
           /\ mutex'[s] = mutex[s]
           /\ s \in Range(starving') => s \in Range(starving),
         \A t \in Threads :
           /\ at'[t] = at[t] \/ at'[t] \notin destroyed
           /\ target'[t] = target[t] \/ target'[t] \notin destroyed
  PROVE  DestroyedIsForgotten'
BY DEF IInv, DestroyedIsForgotten

\* What most steps keep, because nothing about threads changes in them.
Core ==
  /\ Counters /\ Lists /\ Loans /\ Positions
  /\ MutexOK /\ ListsOK /\ CountersOK /\ ThreadsAreCounted

\* A step that moves p on keeps that.
LEMMA CoreStays ==
  ASSUME IInv, NEW p, Moves(p),
         UNCHANGED <<counters, running, suspended, pool, allocCount, poolYetToCreate, owner,
                     resumed, destroyed>>,
         \A q \in Processes \ {p} : pc'[q] = pc[q],
         p \in Threads =>
           /\ at'[p] = at[p] /\ GoesOn(p)
           /\ at[p] # None => (pc'[p] \in {"spin", "release"} <=> pc[p] \in {"spin", "release"})
  PROVE  Core'
<1>1. ASSUME NEW t \in Threads
      PROVE  /\ at'[t] = at[t] /\ GoesOn(t)
             /\ at[t] # None => (pc'[t] \in {"spin", "release"} <=> pc[t] \in {"spin", "release"})
  <2>1. CASE t = p
    BY <2>1
  <2>2. CASE t # p
    BY <2>2 DEF Processes, Moves, Aside, GoesOn
  <2>3. QED BY <2>1, <2>2
<1>2. Counters' /\ CountersOK'
  BY <1>1, CountersStay
<1>3. Lists' /\ ListsOK'
  BY <1>1, ListsStay
<1>4. Loans' /\ ThreadsAreCounted'
  <2>1. fromShared' = fromShared
    BY DEF counters
  <2>2. QED BY <1>1, <2>1, LoansStay
<1>5. QED BY <1>2, <1>3, <1>4, MovesKeepPositions DEF Core

\* Whom a process turns to is not destroyed ...
LEMMA TargetIs ==
  ASSUME IInv, NEW p \in Processes, pc[p] \in Aiming
  PROVE  /\ target[p] \in Schedulers /\ target[p] \notin destroyed
         /\ pc[p] \in Inside => mutex[target[p]] = p
<1>1. target[p] \in Schedulers /\ (pc[p] \in Inside => mutex[target[p]] = p)
  BY AllStand DEF Stands
<1>2. target[p] \notin destroyed
  BY <1>1 DEF Processes, IInv, Flags, DestroyOK, DestroyedIsForgotten
<1>3. QED BY <1>1, <1>2

\* ... and neither is the scheduler that a thread gives itself back to.
LEMMA PlaceIs ==
  ASSUME IInv, NEW t \in Threads, pc[t] \in Leaving
  PROVE  at[t] \in Schedulers /\ at[t] \notin destroyed /\ mutex[at[t]] = t
<1>1. at[t] \in Schedulers /\ mutex[at[t]] = t
  BY AllStand DEF Stands, Processes
<1>2. at[t] \notin destroyed
  BY <1>1 DEF IInv, DestroyedIsForgotten
<1>3. QED BY <1>1, <1>2

\* A thread that is not suspended runs for its owner.
LEMMA OwnerIs ==
  ASSUME IInv, NEW t \in Threads, t \in resumed
  PROVE  owner[t] \in Schedulers /\ owner[t] \notin destroyed /\ t \in running[owner[t]]
<1>1. owner[t] \in Schedulers /\ t \in running[owner[t]]
  BY DEF IInv, ListsOK
<1>2. QED BY <1>1 DEF IInv, DestroyedIsForgotten

-----------------------------------------------------------------------------
(* The thread function                                                       *)

\* The scheduler that is registered was in no list.
LEMMA RegisterKeeps == ASSUME IInv, NEW p \in Processes, Register(p) PROVE IInv'
<1>1. PICK s : s = target[p]
  OBVIOUS
<1>2. /\ pc[p] = "register" /\ s \in Schedulers /\ s \notin destroyed /\ mutex[s] = p
      /\ s # None /\ p # None
  BY <1>1, TargetIs, SchedulerAssumption DEF Register, Aiming, Inside, Processes
<1>3. /\ starving' = Append(starving, s) /\ mutex' = [mutex EXCEPT ![s] = None]
      /\ target' = [target EXCEPT ![p] = None] /\ pc' = [pc EXCEPT ![p] = Home(p)]
      /\ UNCHANGED <<queue, threads, starved, stopCount, events, destroyed, closing, pool,
                     allocCount, poolYetToCreate, at, history>>
  BY <1>1 DEF Register
<1>4. /\ pc'[p] = Home(p) /\ target'[p] = None /\ at'[p] = at[p] /\ mutex'[s] = None
      /\ \A q \in Processes \ {p} : pc'[q] = pc[q] /\ at'[q] = at[q] /\ target'[q] = target[q]
      /\ \A r \in Schedulers \ {s} : mutex'[r] = mutex[r]
  BY <1>2, <1>3 DEF IInv, Positions
<1>5. Stands(p) /\ (p \in Threads => p \notin Callers)
  BY AllStand, SchedulerAssumption
<1>6. Moves(p)
  <2>1. Home(p) \in Places
    BY DEF Home, Places
  <2>2. /\ mutex' \in [Schedulers -> Processes \cup {None}] /\ pc' \in [Processes -> Places]
        /\ at' \in [Processes -> Schedulers \cup {None}]
        /\ target' \in [Processes -> Schedulers \cup {None}]
    BY <1>3, <2>1 DEF IInv, Positions
  <2>3. Stands(p)'
    <3>1. pc'[p] \in Places /\ at'[p] \in Schedulers \cup {None} /\ target'[p] \in Schedulers \cup {None}
      BY <2>2
    <3>2. ASSUME p \in Threads
          PROVE  /\ pc'[p] \in ThreadPlaces
                 /\ at'[p] # None <=> pc'[p] \in Leaving
                 /\ at'[p] # None => mutex'[at'[p]] = p
                 /\ pc'[p] \in Inside => target'[p] # at'[p]
      <4>1. pc'[p] = "notify"
        BY <1>4, <3>2 DEF Home
      <4>2. at[p] # None /\ at[p] \in Schedulers /\ mutex[at[p]] = p /\ at[p] # s
        BY <1>1, <1>2, <1>5, <3>2 DEF Stands, Leaving, Inside
      <4>3. QED BY <1>4, <4>1, <4>2 DEF ThreadPlaces, Leaving, Inside
    <3>3. ASSUME p \in Callers
          PROVE  /\ pc'[p] \in CallerPlaces
                 /\ at'[p] # None <=> pc'[p] \in {"spin", "drain", "empty"}
      BY <1>2, <1>4, <1>5, <3>3 DEF Stands, Home, CallerPlaces
    <3>4. pc'[p] \notin Aiming /\ target'[p] = None
      BY <1>4 DEF Home, Aiming, Inside
    <3>5. QED BY <3>1, <3>2, <3>3, <3>4 DEF Stands, Aiming
  <2>4. QED BY <1>2, <1>4, <2>2, <2>3 DEF Moves, Aside
<1>7. Core'
  <2>1. UNCHANGED <<counters, running, suspended, pool, allocCount, poolYetToCreate, owner,
                    resumed, destroyed>>
    BY <1>3 DEF threads
  <2>2. p \in Threads => GoesOn(p) /\ pc'[p] = "notify"
    BY <1>2, <1>4 DEF GoesOn, Leaving, Home
  <2>3. QED BY <1>2, <1>4, <1>6, <2>1, <2>2, CoreStays
<1>8. Flags' /\ StarvingOK'
  <2>1. /\ starving \in Seq(Schedulers) /\ IsInjective(starving)
        /\ starved[s] /\ s \notin Range(starving)
        /\ \A q \in Processes \ {p} : Notifying(q) => target[q] # s
    BY <1>1, <1>2 DEF IInv, Flags, StarvingOK, Notifying
  <2>2. /\ starving' \in Seq(Schedulers) /\ IsInjective(starving')
        /\ Range(starving') = Range(starving) \cup {s}
    BY <1>2, <1>3, <2>1, AppendIs
  <2>3. Flags'
    BY <1>3, <2>2 DEF IInv, Flags, history
  <2>4. ~Notifying(p)' /\ \A q \in Processes \ {p} : (Notifying(q)' <=> Notifying(q)) /\ target'[q] = target[q]
    BY <1>4 DEF Notifying, Home
  <2>5. \A r \in Range(starving') :
          starved'[r] /\ \A q \in Processes : Notifying(q)' => target'[q] # r
    BY <1>3, <2>1, <2>2, <2>4 DEF IInv, StarvingOK
  <2>6. QED BY <1>3, <2>2, <2>3, <2>4, <2>5 DEF IInv, StarvingOK
<1>9. DestroyOK'
  <2>1. \A c \in Callers : at'[c] = at[c] /\ (at[c] # None /\ pc'[c] # "spin" => pc[c] # "spin")
    BY <1>2, <1>4 DEF Processes
  <2>2. \A c \in Callers : target'[c] = target[c] \/ target'[c] \notin closing
    BY <1>4, SchedulerAssumption DEF Processes, IInv, Flags
  <2>3. QED BY <1>3, <2>1, <2>2, DestroyStays DEF IInv, DestroyOK
<1>10. DestroyedIsForgotten'
  <2>1. \A r \in destroyed : mutex'[r] = mutex[r] /\ (r \in Range(starving') => r \in Range(starving))
    <3>1. starving \in Seq(Schedulers) /\ destroyed \subseteq Schedulers
      BY DEF IInv, Flags
    <3>2. Range(starving') \subseteq Range(starving) \cup {s}
      BY <1>2, <1>3, <3>1 DEF Range
    <3>3. QED BY <1>2, <1>4, <3>1, <3>2
  <2>2. \A t \in Threads : at'[t] = at[t] /\ (target'[t] = target[t] \/ target'[t] \notin destroyed)
    BY <1>4, SchedulerAssumption DEF Processes, IInv, Flags
  <2>3. UNCHANGED <<running, fromShared, destroyed>>
    BY <1>3 DEF threads, counters
  <2>4. QED BY <2>1, <2>2, <2>3, ForgottenStays
<1>11. WaitingOK'
  <2>1. \A t \in Threads : pc'[t] \in {"some", "woken"} <=> pc[t] \in {"some", "woken"}
    BY <1>2, <1>4 DEF Processes, Home
  <2>2. UNCHANGED <<waitingThreads, threadIsIdle, running, owner>>
    BY <1>3 DEF threads, events
  <2>3. QED BY <2>1, <2>2, WaitingStays
<1>12. Calling'
  BY <1>3 DEF IInv, Calling, events, history
<1>13. QED BY <1>7, <1>8, <1>9, <1>10, <1>11, <1>12 DEF IInv, Core

\* A thread in its loop or in a job goes on with either, which concerns nobody else.
LEMMA JobKeeps ==
  ASSUME IInv, NEW t \in Threads, NEW to \in {"loop"} \cup Busy,
         pc[t] \in {"loop"} \cup Busy, to = "loop" \/ t \in resumed,
         pc' = [pc EXCEPT ![t] = to],
         \A s \in closing : queue'[s] = queue[s] \/ stopCount[s] = 0,
         UNCHANGED <<threads, starved, stopCount, mutex, destroyed, closing, shared, at,
                     target, history>>
  PROVE  Core' /\ Flags' /\ StarvingOK' /\ DestroyOK' /\ DestroyedIsForgotten'
<1>1. t \in Processes /\ t \notin Callers
  BY SchedulerAssumption DEF Processes
<1>2. pc'[t] = to /\ \A q \in Processes \ {t} : pc'[q] = pc[q]
  BY <1>1 DEF IInv, Positions
<1>3. to \in ThreadPlaces /\ to \in Places /\ to \notin Leaving /\ to \notin Aiming /\ to \notin Inside
      /\ pc[t] \notin Leaving /\ pc[t] \notin Aiming
  BY DEF Busy, ThreadPlaces, Places, Leaving, Aiming, Inside
<1>4. at[t] = None /\ target[t] = None
  BY <1>1, <1>3, AllStand DEF Stands
<1>5. Moves(t)
  <2>1. Stands(t)'
    BY <1>1, <1>2, <1>3, <1>4 DEF Stands
  <2>2. pc' \in [Processes -> Places]
    BY <1>3 DEF IInv, Positions
  <2>3. QED BY <1>1, <1>2, <2>1, <2>2 DEF Moves, Aside, IInv, Positions
<1>6. Core'
  <2>1. GoesOn(t)
    BY <1>2 DEF GoesOn
  <2>2. UNCHANGED <<counters, running, suspended, pool, allocCount, poolYetToCreate, owner,
                    resumed, destroyed>>
    BY DEF threads, shared
  <2>3. QED BY <1>2, <1>4, <1>5, <2>1, <2>2, CoreStays
<1>7. Flags' /\ StarvingOK'
  <2>1. ~Notifying(t) /\ ~Notifying(t)'
    BY <1>2 DEF Notifying, Busy
  <2>2. \A p \in Processes : (Notifying(p)' <=> Notifying(p)) /\ target'[p] = target[p]
    BY <1>2, <2>1 DEF Notifying
  <2>3. UNCHANGED <<starving, hungry>>
    BY DEF shared, history
  <2>4. QED BY <2>2, <2>3, StarvingStays
<1>8. DestroyOK'
  <2>1. \A c \in Callers : pc'[c] = pc[c]
    BY <1>1, <1>2 DEF Processes
  <2>2. \A s \in closing : stopCount'[s] = 0 \/ queue'[s] = 0
    BY DEF IInv, DestroyOK
  <2>3. QED BY <2>1, <2>2, DestroyStays
<1>9. DestroyedIsForgotten'
  <2>1. UNCHANGED <<running, fromShared, starving>>
    BY DEF threads, counters, shared
  <2>2. QED BY <2>1, ForgottenStays
<1>10. QED BY <1>6, <1>7, <1>8, <1>9

\* A thread that takes a job wakes who waits for an idle one.
LEMMA AssignJobKeeps == ASSUME IInv, NEW t \in Threads, AssignJob(t) PROVE IInv'
<1>1. PICK s : s = owner[t]
  OBVIOUS
<1>2. s \in Schedulers /\ pc[t] = "loop" /\ t \in resumed /\ queue[s] > 0 /\ stopCount[s] = 0
  BY <1>1, OwnerIs DEF AssignJob, Awake, HasWork
<1>3. /\ queue' = [queue EXCEPT ![s] = queue[s] - 1]
      /\ threadIsIdle' \in {threadIsIdle, threadIsIdle \cup {s}}
      /\ pc' = [pc EXCEPT ![t] = "execute"]
      /\ UNCHANGED <<threads, starved, stopCount, emptyEvent, waitingThreads, mutex,
                     destroyed, closing, shared, at, target, history>>
  BY <1>1 DEF AssignJob, WakeWaiting
<1>4. Core' /\ Flags' /\ StarvingOK' /\ DestroyOK' /\ DestroyedIsForgotten'
  <2>1. \A r \in closing : queue'[r] = queue[r] \/ stopCount[r] = 0
    BY <1>2, <1>3 DEF IInv, Calling, Flags
  <2>2. QED BY <1>2, <1>3, <2>1, JobKeeps DEF Busy
<1>5. WaitingOK'
  <2>1. \A u \in Threads : pc'[u] \in {"some", "woken"} <=> pc[u] \in {"some", "woken"}
    BY <1>2, <1>3 DEF IInv, Positions
  <2>2. UNCHANGED <<running, owner>>
    BY <1>3 DEF threads
  <2>3. QED BY <1>3, <2>1, <2>2, WaitingStays
<1>6. Calling'
  <2>1. queue[s] - 1 \in Nat
    BY <1>2 DEF IInv, Calling
  <2>2. QED BY <1>2, <1>3, <2>1 DEF IInv, Calling, history
<1>7. QED BY <1>4, <1>5, <1>6 DEF IInv, Core

\* A job that ends, ...
LEMMA FinishKeeps == ASSUME IInv, NEW t \in Threads, Finish(t) PROVE IInv'
<1>1. /\ pc[t] \in {"execute", "ending"} /\ pc' = [pc EXCEPT ![t] = "loop"]
      /\ UNCHANGED <<queue, threads, starved, stopCount, events, mutex, destroyed, closing,
                     shared, at, target, history>>
  BY DEF Finish
<1>2. Core' /\ Flags' /\ StarvingOK' /\ DestroyOK' /\ DestroyedIsForgotten'
  BY <1>1, JobKeeps DEF Busy
<1>3. WaitingOK'
  <2>1. \A u \in Threads : pc'[u] \in {"some", "woken"} <=> pc[u] \in {"some", "woken"}
    BY <1>1 DEF IInv, Positions
  <2>2. UNCHANGED <<running, owner, waitingThreads, threadIsIdle>>
    BY <1>1 DEF threads, events
  <2>3. QED BY <2>1, <2>2, WaitingStays
<1>4. Calling'
  BY <1>1 DEF IInv, Calling, history, events
<1>5. QED BY <1>2, <1>3, <1>4 DEF IInv, Core

\* ... and one that is woken.
LEMMA WakeSomeKeeps == ASSUME IInv, NEW t \in Threads, WakeSome(t) PROVE IInv'
<1>1. /\ pc[t] = "some" /\ pc' = [pc EXCEPT ![t] = "woken"]
      /\ UNCHANGED <<queue, threads, starved, stopCount, events, mutex, destroyed, closing,
                     shared, at, target, history>>
  BY DEF WakeSome
<1>2. t \in resumed
  BY <1>1 DEF IInv, ListsOK
<1>3. Core' /\ Flags' /\ StarvingOK' /\ DestroyOK' /\ DestroyedIsForgotten'
  BY <1>1, <1>2, JobKeeps DEF Busy
<1>4. WaitingOK'
  <2>1. \A u \in Threads : pc'[u] \in {"some", "woken"} <=> pc[u] \in {"some", "woken"}
    BY <1>1 DEF IInv, Positions
  <2>2. UNCHANGED <<running, owner, waitingThreads, threadIsIdle>>
    BY <1>1 DEF threads, events
  <2>3. QED BY <2>1, <2>2, WaitingStays
<1>5. Calling'
  BY <1>1 DEF IInv, Calling, history, events
<1>6. QED BY <1>3, <1>4, <1>5 DEF IInv, Core

\* The waiting threads as a set of running ones.
LEMMA WaitersAre ==
  ASSUME IInv, NEW s \in Schedulers
  PROVE  /\ IsFiniteSet(Waiters(s)) /\ Cardinality(Waiters(s)) \in Nat
         /\ waitingThreads[s] = Cardinality(Waiters(s))
         /\ s \notin threadIsIdle /\ waitingThreads[s] > 0 =>
              waitingThreads[s] < Cardinality(running[s])
         /\ waitingThreads \in [Schedulers -> Nat]
<1>1. Waiters(s) \subseteq Threads
  BY DEF Waiters
<1>2. QED BY <1>1, FS_Subset, FS_CardinalityType, SchedulerAssumption DEF IInv, WaitingOK, Calling

\* A job is made to wait only when another running thread does not.
LEMMA WaitForSomeJobsKeeps == ASSUME IInv, NEW t \in Threads, WaitForSomeJobs(t) PROVE IInv'
<1>1. PICK s : s = owner[t]
  OBVIOUS
<1>2. pc[t] = "execute" /\ t \in resumed /\ s \in Schedulers /\ t \in Processes
      /\ mutex[s] = None /\ s # None
  BY <1>1, OwnerIs, SchedulerAssumption DEF WaitForSomeJobs, IInv, ListsOK, Processes
<1> DEFINE wait == waitingThreads[s] + 1 < runningCount[s]
<1>3. /\ waitingThreads' = IF wait THEN [waitingThreads EXCEPT ![s] = waitingThreads[s] + 1] ELSE waitingThreads
      /\ threadIsIdle' = IF wait THEN threadIsIdle \ {s} ELSE threadIsIdle \cup {s}
      /\ pc' = [pc EXCEPT ![t] = IF wait THEN "some" ELSE "ending"]
      /\ UNCHANGED <<queue, threads, starved, stopCount, emptyEvent, mutex, destroyed,
                     closing, shared, at, target, history>>
  BY <1>1 DEF WaitForSomeJobs
<1>4. Core' /\ Flags' /\ StarvingOK' /\ DestroyOK' /\ DestroyedIsForgotten'
  <2>1. CASE wait
    <3>1. pc' = [pc EXCEPT ![t] = "some"]
      BY <1>3, <2>1
    <3>2. QED BY <1>2, <1>3, <3>1, JobKeeps DEF Busy
  <2>2. CASE ~wait
    <3>1. pc' = [pc EXCEPT ![t] = "ending"]
      BY <1>3, <2>2
    <3>2. QED BY <1>2, <1>3, <3>1, JobKeeps DEF Busy
  <2>3. QED BY <2>1, <2>2
<1>5. pc'[t] = (IF wait THEN "some" ELSE "ending") /\ \A u \in Threads \ {t} : pc'[u] = pc[u]
  BY <1>2, <1>3 DEF IInv, Positions, Processes
<1>6. UNCHANGED <<running, owner>>
  BY <1>3 DEF threads
<1>7. WaitingOK'
  <2>1. CASE ~wait
    <3>1. \A u \in Threads : pc'[u] \in {"some", "woken"} <=> pc[u] \in {"some", "woken"}
      BY <1>2, <1>5, <2>1
    <3>2. waitingThreads' = waitingThreads /\ threadIsIdle \subseteq threadIsIdle'
      BY <1>3, <2>1
    <3>3. QED BY <1>6, <3>1, <3>2, WaitingStays
  <2>2. CASE wait
    <3>1. ASSUME NEW r \in Schedulers \ {s} PROVE Waiters(r)' = Waiters(r)
      BY <1>1, <1>2, <1>5, <1>6, <2>2 DEF Waiters
    <3>2. Waiters(s)' = Waiters(s) \cup {t} /\ t \notin Waiters(s)
      BY <1>1, <1>2, <1>5, <1>6, <2>2 DEF Waiters
    <3>3. Cardinality(Waiters(s)') = Cardinality(Waiters(s)) + 1
      BY <1>2, <3>2, WaitersAre, FS_AddElement
    <3>4. ~Back(s)
      BY <1>2, SchedulerAssumption DEF Back, IInv, MutexOK
    <3>5. runningCount[s] = Cardinality(running[s]) /\ Cardinality(running[s]) \in Nat
      BY <1>2, <3>4, CountersAre DEF Counted
    <3>6. waitingThreads'[s] = waitingThreads[s] + 1 /\ \A r \in Schedulers \ {s} : waitingThreads'[r] = waitingThreads[r]
      BY <1>2, <1>3, <2>2, WaitersAre
    <3>7. threadIsIdle' = threadIsIdle \ {s}
      BY <1>3, <2>2
    <3>8. ASSUME NEW r \in Schedulers
          PROVE  /\ waitingThreads'[r] = Cardinality(Waiters(r)')
                 /\ r \notin threadIsIdle' /\ waitingThreads'[r] > 0 =>
                      waitingThreads'[r] < Cardinality(running'[r])
      <4>1. CASE r = s
        BY <1>2, <1>6, <2>2, <3>3, <3>5, <3>6, <4>1, WaitersAre
      <4>2. CASE r # s
        BY <1>6, <3>1, <3>6, <3>7, <4>2, WaitersAre
      <4>3. QED BY <4>1, <4>2
    <3>9. QED BY <3>8 DEF WaitingOK
  <2>3. QED BY <2>1, <2>2
<1>8. Calling'
  <2>1. waitingThreads' \in [Schedulers -> Nat]
    <3>1. waitingThreads \in [Schedulers -> Nat] /\ waitingThreads[s] + 1 \in Nat
      BY <1>2, WaitersAre
    <3>2. QED BY <1>2, <1>3, <3>1
  <2>2. threadIsIdle' \subseteq Schedulers
    BY <1>2, <1>3 DEF IInv, Calling
  <2>3. QED BY <1>3, <2>1, <2>2 DEF IInv, Calling, history
<1>9. QED BY <1>4, <1>7, <1>8 DEF IInv, Core

\* One that leaves WaitForSomeJobs was counted.
LEMMA LeaveSomeKeeps == ASSUME IInv, NEW t \in Threads, LeaveSome(t) PROVE IInv'
<1>1. PICK s : s = owner[t]
  OBVIOUS
<1>2. pc[t] = "woken" /\ t \in resumed /\ s \in Schedulers /\ t \in Processes
  BY <1>1, OwnerIs DEF LeaveSome, IInv, ListsOK, Processes
<1>3. /\ waitingThreads' = [waitingThreads EXCEPT ![s] = waitingThreads[s] - 1]
      /\ pc' = [pc EXCEPT ![t] = "ending"]
      /\ UNCHANGED <<queue, threads, starved, stopCount, emptyEvent, threadIsIdle, mutex,
                     destroyed, closing, shared, at, target, history>>
  BY <1>1 DEF LeaveSome
<1>4. Core' /\ Flags' /\ StarvingOK' /\ DestroyOK' /\ DestroyedIsForgotten'
  BY <1>2, <1>3, JobKeeps DEF Busy
<1>5. pc'[t] = "ending" /\ \A u \in Threads \ {t} : pc'[u] = pc[u]
  BY <1>2, <1>3 DEF IInv, Positions, Processes
<1>6. UNCHANGED <<running, owner>>
  BY <1>3 DEF threads
<1>7. Waiters(s)' = Waiters(s) \ {t} /\ t \in Waiters(s)
  BY <1>1, <1>2, <1>5, <1>6 DEF Waiters
<1>8. /\ Cardinality(Waiters(s)') = Cardinality(Waiters(s)) - 1
      /\ Cardinality(Waiters(s)') \in Nat /\ Cardinality(Waiters(s)) \in Nat
  <2>1. IsFiniteSet(Waiters(s))
    BY <1>2, WaitersAre
  <2>2. IsFiniteSet(Waiters(s)') /\ Cardinality(Waiters(s)') = Cardinality(Waiters(s)) - 1
    BY <1>7, <2>1, FS_RemoveElement
  <2>3. QED BY <2>1, <2>2, FS_CardinalityType
<1>9. waitingThreads'[s] = waitingThreads[s] - 1 /\ \A r \in Schedulers \ {s} : waitingThreads'[r] = waitingThreads[r]
  BY <1>2, <1>3, WaitersAre
<1>10. WaitingOK'
  <2>1. ASSUME NEW r \in Schedulers
        PROVE  /\ waitingThreads'[r] = Cardinality(Waiters(r)')
               /\ r \notin threadIsIdle' /\ waitingThreads'[r] > 0 =>
                    waitingThreads'[r] < Cardinality(running'[r])
    <3>1. CASE r = s
      <4>1. waitingThreads[s] \in Nat /\ Cardinality(running[s]) \in Nat
            /\ waitingThreads[s] = Cardinality(Waiters(s))
            /\ (s \notin threadIsIdle /\ waitingThreads[s] > 0 => waitingThreads[s] < Cardinality(running[s]))
        BY <1>2, WaitersAre, CountersAre
      <4>2. threadIsIdle' = threadIsIdle /\ running' = running
        BY <1>3, <1>6
      <4>3. QED BY <1>8, <1>9, <3>1, <4>1, <4>2
    <3>2. CASE r # s
      <4>1. Waiters(r)' = Waiters(r)
        BY <1>1, <1>2, <1>5, <1>6, <3>2 DEF Waiters
      <4>2. QED BY <1>3, <1>6, <1>9, <3>2, <4>1, WaitersAre
    <3>3. QED BY <3>1, <3>2
  <2>2. QED BY <2>1 DEF WaitingOK
<1>11. Calling'
  <2>1. waitingThreads[s] - 1 \in Nat /\ waitingThreads \in [Schedulers -> Nat]
    BY <1>2, <1>8, WaitersAre
  <2>2. waitingThreads' \in [Schedulers -> Nat]
    BY <1>3, <2>1
  <2>3. QED BY <1>3, <2>2 DEF IInv, Calling, history
<1>12. QED BY <1>4, <1>10, <1>11 DEF IInv, Core

-----------------------------------------------------------------------------
(* Threads that become idle                                                  *)

\* A thread that becomes idle is one less that runs for its owner, and wakes who
\* waits for that.
LEMMA IdleIs ==
  ASSUME IInv, NEW t \in Threads, NEW s, s = owner[t], Idle(t, s)
  PROVE  /\ s \in Schedulers /\ s \notin destroyed /\ s # None /\ t \in Processes /\ t # None
         /\ t \notin Callers
         /\ pc[t] = "loop" /\ t \in resumed /\ mutex[s] = None /\ ~Back(s)
         /\ at[t] = None /\ target[t] = None
         /\ running'[s] = running[s] \ {t}
         /\ \A r \in Schedulers \ {s} : running'[r] = running[r]
         /\ running' \in [Schedulers -> SUBSET Threads] /\ resumed' = resumed \ {t}
         /\ Cardinality(running'[s]) \in Nat
         /\ Cardinality(running'[s]) + 1 = Cardinality(running[s])
         /\ runningCount[s] = Cardinality(running[s])
<1>1. /\ s \in Schedulers /\ s \notin destroyed /\ s # None /\ t \in Processes /\ t # None
      /\ t \notin Callers
      /\ pc[t] = "loop" /\ t \in resumed /\ mutex[s] = None /\ t \in running[s]
  BY OwnerIs, SchedulerAssumption DEF Idle, Awake, Processes
<1>2. ~Back(s)
  BY <1>1, SchedulerAssumption DEF Back, IInv, MutexOK
<1>3. at[t] = None /\ target[t] = None
  BY <1>1, AllStand DEF Stands, Leaving, Aiming, Inside
<1>4. /\ running'[s] = running[s] \ {t} /\ \A r \in Schedulers \ {s} : running'[r] = running[r]
      /\ running' \in [Schedulers -> SUBSET Threads] /\ resumed' = resumed \ {t}
  BY <1>1 DEF Idle, IInv, Lists
<1>5. /\ Cardinality(running'[s]) \in Nat
      /\ Cardinality(running'[s]) + 1 = Cardinality(running[s])
  <2>1. IsFiniteSet(running[s]) /\ Cardinality(running[s]) \in Nat
    BY <1>1, CountersAre
  <2>4. PICK was : was = running[s]
    OBVIOUS
  <2>5. IsFiniteSet(was \ {t}) /\ Cardinality(was \ {t}) = Cardinality(was) - 1
    BY <1>1, <2>1, <2>4, FS_RemoveElement
  <2>2. IsFiniteSet(running'[s]) /\ Cardinality(running'[s]) = Cardinality(running[s]) - 1
    BY <1>4, <2>4, <2>5
  <2>3. Cardinality(running'[s]) \in Nat
    BY <2>2, FS_CardinalityType
  <2>6. QED BY <2>1, <2>2, <2>3
<1>6. runningCount[s] = Cardinality(running[s])
  BY <1>1, <1>2, CountersAre DEF Counted
<1>7. QED BY <1>1, <1>2, <1>3, <1>4, <1>5, <1>6

\* Who is not woken then still has another thread to wait for.
LEMMA IdleKeepsWaiting ==
  ASSUME IInv, NEW t \in Threads, NEW s, s = owner[t], Idle(t, s),
         owner' = owner, waitingThreads' = waitingThreads,
         \A u \in Threads : pc'[u] \in {"some", "woken"} <=> pc[u] \in {"some", "woken"}
  PROVE  WaitingOK' /\ threadIsIdle' \subseteq Schedulers
<1>1. /\ s \in Schedulers
      /\ \A r \in Schedulers \ {s} : running'[r] = running[r]
  BY IdleIs
<1>2. \A r \in Schedulers : Waiters(r)' = Waiters(r)
  BY DEF Waiters
<1>3. /\ threadIsIdle \subseteq threadIsIdle' /\ threadIsIdle' \subseteq threadIsIdle \cup {s}
      /\ waitingThreads[s] > 0 => s \in threadIsIdle'
  BY DEF Idle, WakeWaiting
<1>4. ASSUME NEW r \in Schedulers
      PROVE  /\ waitingThreads'[r] = Cardinality(Waiters(r)')
             /\ r \notin threadIsIdle' /\ waitingThreads'[r] > 0 =>
                  waitingThreads'[r] < Cardinality(running'[r])
  BY <1>1, <1>2, <1>3, WaitersAre
<1>5. QED BY <1>1, <1>3, <1>4 DEF WaitingOK, IInv, Calling

\* The thread is neither in the pool nor suspended.
LEMMA AwakeIsInNoList ==
  ASSUME IInv, NEW t \in resumed
  PROVE  t \notin Range(pool) /\ \A r \in Schedulers : t \notin Range(suspended[r])
BY DEF IInv, ListsOK

\* The lists of running threads after that.
LEMMA IdleKeepsRunning ==
  ASSUME IInv, NEW t \in Threads, NEW s, s = owner[t], Idle(t, s), owner' = owner
  PROVE  /\ \A r \in Schedulers : running'[r] = {u \in resumed' : owner'[u] = r}
         /\ \A u \in resumed' : owner'[u] \in Schedulers
         /\ resumed' \subseteq Threads
<1>1. /\ running'[s] = running[s] \ {t} /\ resumed' = resumed \ {t}
      /\ \A r \in Schedulers \ {s} : running'[r] = running[r]
  BY IdleIs
<1>2. ASSUME NEW r \in Schedulers PROVE running'[r] = {u \in resumed' : owner'[u] = r}
  <2>1. running[r] = {u \in resumed : owner[u] = r}
    BY DEF IInv, ListsOK
  <2>2. CASE r = s
    BY <1>1, <2>1, <2>2
  <2>3. CASE r # s
    BY <1>1, <2>1, <2>3
  <2>4. QED BY <2>2, <2>3
<1>3. QED BY <1>1, <1>2 DEF IInv, ListsOK, Lists

\* Two sums that stay equal when one is added to each side.
LEMMA SumsGrowEqual ==
  ASSUME NEW a \in Nat, NEW b \in Nat, NEW c \in Nat, NEW d \in Nat, a + 0 = b + c + d
  PROVE  (a + 1) + 0 = (b + 1) + c + d
OBVIOUS

\* One that moves from one side of a sum to the other changes nothing.
LEMMA SumsMoveOver ==
  ASSUME NEW a \in Nat, NEW b \in Nat, NEW c \in Nat, NEW d \in Nat, a + b = c + d
  PROVE  (a - 1) + (b + 1) = c + d
OBVIOUS

\* A thread that is kept is counted as suspended instead of running.
LEMMA RestKeeps == ASSUME IInv, NEW t \in Threads, Rest(t) PROVE IInv'
<1>1. PICK s : s = owner[t]
  OBVIOUS
<1>2. /\ Idle(t, s) /\ fromShared[s] = 0
      /\ suspended' = [suspended EXCEPT ![s] = Append(suspended[s], t)]
      /\ suspendedCount' = [suspendedCount EXCEPT ![s] = suspendedCount[s] + 1]
      /\ unusedCount' = [unusedCount EXCEPT ![s] = unusedCount[s] + 1]
      /\ runningCount' = [runningCount EXCEPT ![s] = runningCount[s] - 1]
      /\ emptyEvent' \subseteq emptyEvent \cup {s}
      /\ pc' = [pc EXCEPT ![t] = "loop"]
      /\ UNCHANGED <<queue, yetToCreate, fromShared, owner, starved, stopCount,
                     waitingThreads, mutex, destroyed, closing, shared, at, target,
                     history>>
  BY <1>1 DEF Rest, Settled
<1>3. /\ s \in Schedulers /\ s \notin destroyed /\ t \in Processes /\ t \notin Callers
      /\ pc[t] = "loop" /\ t \in resumed /\ ~Back(s)
      /\ running'[s] = running[s] \ {t}
      /\ \A r \in Schedulers \ {s} : running'[r] = running[r]
      /\ running' \in [Schedulers -> SUBSET Threads] /\ resumed' = resumed \ {t}
      /\ Cardinality(running'[s]) \in Nat
      /\ Cardinality(running'[s]) + 1 = Cardinality(running[s])
      /\ runningCount[s] = Cardinality(running[s])
  BY <1>1, <1>2, IdleIs
<1>4. pc' = pc
  BY <1>2, <1>3 DEF IInv, Positions
<1>5. Positions' /\ MutexOK'
  BY <1>2, <1>4 DEF IInv, Positions, MutexOK
<1>6. /\ suspended[s] \in Seq(Threads) /\ Len(suspended[s]) \in Nat /\ IsInjective(suspended[s])
      /\ t \notin Range(suspended[s])
  BY <1>3, CountersAre, AwakeIsInNoList DEF IInv, ListsOK
<1>7. /\ suspended'[s] \in Seq(Threads) /\ Len(suspended'[s]) = Len(suspended[s]) + 1
      /\ IsInjective(suspended'[s]) /\ Range(suspended'[s]) = Range(suspended[s]) \cup {t}
      /\ \A r \in Schedulers \ {s} : suspended'[r] = suspended[r]
      /\ suspended' \in [Schedulers -> Seq(Threads)]
  <2>1. suspended \in [Schedulers -> Seq(Threads)]
    BY DEF IInv, Lists
  <2>2. /\ Append(suspended[s], t) \in Seq(Threads)
        /\ Len(Append(suspended[s], t)) = Len(suspended[s]) + 1
        /\ IsInjective(Append(suspended[s], t))
        /\ Range(Append(suspended[s], t)) = Range(suspended[s]) \cup {t}
    BY <1>6, AppendIs
  <2>3. suspended'[s] = Append(suspended[s], t) /\ \A r \in Schedulers \ {s} : suspended'[r] = suspended[r]
    BY <1>2, <1>3, <2>1
  <2>4. suspended' \in [Schedulers -> Seq(Threads)]
    BY <1>2, <2>1, <2>2
  <2>5. QED BY <2>2, <2>3, <2>4
<1>8. Lists' /\ ListsOK'
  <2>1. pool' = pool /\ owner' = owner
    BY <1>2 DEF shared
  <2>2. /\ \A r \in Schedulers : running'[r] = {u \in resumed' : owner'[u] = r}
        /\ \A u \in resumed' : owner'[u] \in Schedulers
        /\ resumed' \subseteq Threads
    BY <1>1, <1>2, IdleKeepsRunning
  <2>3. Lists'
    BY <1>3, <1>7, <2>1, <2>2 DEF IInv, Lists
  <2>4. ASSUME NEW r \in Schedulers, NEW u \in Range(suspended'[r])
        PROVE  u \notin resumed' /\ owner'[u] = r /\ pc'[u] = "loop"
    <3>1. u \in Range(suspended[r]) \/ (u = t /\ r = s)
      BY <1>7
    <3>2. QED BY <1>1, <1>3, <1>4, <2>1, <3>1 DEF IInv, ListsOK
  <2>5. \A r \in Schedulers : IsInjective(suspended'[r])
    BY <1>7 DEF IInv, ListsOK
  <2>6. \A u \in Range(pool') :
          u \notin resumed' /\ owner'[u] = None /\ pc'[u] \in ({"loop"} \cup Leaving) \ {"spin", "release"}
    BY <1>3, <1>4, <2>1 DEF IInv, ListsOK
  <2>7. \A u \in Threads :
          /\ pc'[u] = "new" => u \notin resumed'
          /\ pc'[u] \in {"execute", "some", "woken", "ending"} => u \in resumed'
          /\ pc'[u] \in {"spin", "release"} => u \notin resumed' /\ owner'[u] = at'[u]
    BY <1>2, <1>3, <1>4 DEF IInv, ListsOK
  <2>8. QED BY <2>1, <2>2, <2>3, <2>4, <2>5, <2>6, <2>7 DEF IInv, ListsOK
<1>9. /\ runningCount[s] \in Nat /\ suspendedCount[s] \in Nat /\ yetToCreate[s] \in Nat
      /\ unusedCount[s] \in Nat /\ fromShared[s] = 0
      /\ ThreadCount[s] \in Nat /\ SharedThreads[s] \in Nat /\ Counted(s)
      /\ runningCount[s] - 1 \in Nat
  <2>1. runningCount[s] - 1 = Cardinality(running'[s])
    BY <1>3
  <2>2. QED BY <1>2, <1>3, <2>1, CountersAre
<1>10. Counters'
  <2>1. runningCount[s] - 1 \in Nat /\ suspendedCount[s] + 1 \in Nat /\ unusedCount[s] + 1 \in Nat
    BY <1>9
  <2>2. QED BY <1>2, <2>1 DEF IInv, Counters
<1>11. \A r \in Schedulers : Back(r)' <=> Back(r)
  BY <1>2 DEF Back
<1>12. Counted(s)'
  <2>1. /\ runningCount'[s] = runningCount[s] - 1 /\ suspendedCount'[s] = suspendedCount[s] + 1
        /\ unusedCount'[s] = unusedCount[s] + 1 /\ yetToCreate'[s] = yetToCreate[s]
        /\ fromShared'[s] = 0 /\ destroyed' = destroyed
    BY <1>2, <1>3 DEF IInv, Counters
  <2>2. /\ unusedCount[s] + 0 = suspendedCount[s] + yetToCreate[s] + SharedThreads[s]
        /\ runningCount[s] + unusedCount[s] = ThreadCount[s] + SharedThreads[s]
        /\ yetToCreate[s] <= ThreadCount[s] /\ suspendedCount[s] = Len(suspended[s])
    BY <1>3, <1>9 DEF Counted
  <2>3. runningCount'[s] = Cardinality(running'[s]) + IF Back(s)' THEN 1 ELSE 0
    BY <1>3, <1>11, <2>1
  <2>4. suspendedCount'[s] = Len(suspended'[s])
    BY <1>7, <2>1, <2>2
  <2>9. /\ runningCount[s] \in Nat /\ suspendedCount[s] \in Nat /\ yetToCreate[s] \in Nat
        /\ unusedCount[s] \in Nat /\ ThreadCount[s] \in Nat /\ SharedThreads[s] \in Nat
    BY <1>9
  <2>10. unusedCount[s] + 0 = suspendedCount[s] + yetToCreate[s] + SharedThreads[s]
    BY <2>2
  <2>11. runningCount[s] + unusedCount[s] = ThreadCount[s] + SharedThreads[s]
    BY <2>2
  <2>5. unusedCount'[s] + fromShared'[s] = suspendedCount'[s] + yetToCreate'[s] + SharedThreads[s]
    <3>1. (unusedCount[s] + 1) + 0 = (suspendedCount[s] + 1) + yetToCreate[s] + SharedThreads[s]
      BY ONLY <2>9, <2>10, SumsGrowEqual
    <3>2. QED BY ONLY <2>1, <3>1
  <2>6. runningCount'[s] + unusedCount'[s] = ThreadCount[s] + SharedThreads[s]
    <3>1. (runningCount[s] - 1) + (unusedCount[s] + 1) = ThreadCount[s] + SharedThreads[s]
      BY ONLY <2>9, <2>11, SumsMoveOver
    <3>2. QED BY ONLY <2>1, <3>1
  <2>7. ~Back(s)' /\ ~(fromShared'[s] > 0)
    BY <1>3, <1>11, <2>1
  <2>8. QED BY <2>1, <2>2, <2>3, <2>4, <2>5, <2>6, <2>7 DEF Counted
<1>13. ASSUME NEW r \in Schedulers \ {s} PROVE Counted(r)'
  <2>1. UNCHANGED <<runningCount[r], suspendedCount[r], yetToCreate[r], fromShared[r],
                    unusedCount[r], running[r], suspended[r]>>
    BY <1>2, <1>3, <1>7 DEF IInv, Counters
  <2>2. QED BY <1>2, <1>11, <2>1, OthersStayCounted
<1>14. CountersOK'
  BY <1>12, <1>13 DEF CountersOK
<1>15. Loans' /\ ThreadsAreCounted'
  BY <1>2, <1>4, LoansStay DEF shared
<1>16. Flags' /\ StarvingOK'
  BY <1>2, <1>4, StarvingStays DEF shared, history, Notifying
<1>17. DestroyOK'
  BY <1>2, <1>4, DestroyStays DEF IInv, DestroyOK
<1>18. DestroyedIsForgotten'
  <2>1. \A r \in destroyed : running'[r] = running[r] /\ fromShared'[r] = fromShared[r]
    BY <1>2, <1>3 DEF IInv, Flags
  <2>2. QED BY <1>2, <2>1, ForgottenStays DEF shared
<1>19. WaitingOK' /\ Calling'
  <2>1. WaitingOK' /\ threadIsIdle' \subseteq Schedulers
    BY <1>1, <1>2, <1>4, IdleKeepsWaiting
  <2>2. QED BY <1>2, <1>3, <2>1 DEF IInv, Calling, history
<1>20. QED
  BY <1>5, <1>8, <1>10, <1>14, <1>15, <1>16, <1>17, <1>18, <1>19 DEF IInv

\* A thread that is given back leaves the running ones, and is still counted.
LEMMA GiveBackKeeps == ASSUME IInv, NEW t \in Threads, GiveBack(t) PROVE IInv'
<1>1. PICK s : s = owner[t]
  OBVIOUS
<1>2. /\ Idle(t, s) /\ fromShared[s] > 0
      /\ mutex' = [mutex EXCEPT ![s] = t]
      /\ at' = [at EXCEPT ![t] = s]
      /\ pc' = [pc EXCEPT ![t] = IF starved[s] THEN "spin" ELSE "release"]
      /\ UNCHANGED <<queue, suspended, counters, owner, starved, stopCount, emptyEvent,
                     waitingThreads, destroyed, closing, shared, target, history>>
  BY <1>1 DEF GiveBack
<1>3. /\ s \in Schedulers /\ s \notin destroyed /\ s # None /\ t \in Processes /\ t # None
      /\ t \notin Callers
      /\ pc[t] = "loop" /\ t \in resumed /\ mutex[s] = None /\ ~Back(s)
      /\ at[t] = None /\ target[t] = None
      /\ running'[s] = running[s] \ {t}
      /\ \A r \in Schedulers \ {s} : running'[r] = running[r]
      /\ running' \in [Schedulers -> SUBSET Threads] /\ resumed' = resumed \ {t}
      /\ Cardinality(running'[s]) \in Nat
      /\ Cardinality(running'[s]) + 1 = Cardinality(running[s])
      /\ runningCount[s] = Cardinality(running[s])
  BY <1>1, <1>2, IdleIs
<1>4. /\ pc'[t] \in {"spin", "release"} /\ at'[t] = s /\ target' = target
      /\ mutex'[s] = t /\ \A r \in Schedulers \ {s} : mutex'[r] = mutex[r]
      /\ \A q \in Processes \ {t} : pc'[q] = pc[q] /\ at'[q] = at[q]
  BY <1>2, <1>3 DEF IInv, Positions
<1>5. Positions' /\ MutexOK'
  <2>1. pc' \in [Processes -> Places] /\ at' \in [Processes -> Schedulers \cup {None}]
        /\ mutex' \in [Schedulers -> Processes \cup {None}]
    BY <1>2, <1>3 DEF IInv, Positions, Places
  <2>2. Stands(t)'
    BY <1>3, <1>4, <2>1 DEF Stands, Leaving, Inside, Aiming, ThreadPlaces
  <2>3. Moves(t)
    BY <1>3, <1>4, <2>1, <2>2 DEF Moves, Aside, IInv, Positions
  <2>4. QED BY <2>3, MovesKeepPositions
<1>6. Lists' /\ ListsOK'
  <2>1. pool' = pool /\ owner' = owner /\ suspended' = suspended
    BY <1>2 DEF shared
  <2>2. /\ \A r \in Schedulers : running'[r] = {u \in resumed' : owner'[u] = r}
        /\ \A u \in resumed' : owner'[u] \in Schedulers
        /\ resumed' \subseteq Threads
    BY <1>1, <1>2, IdleKeepsRunning
  <2>3. Lists'
    BY <1>3, <2>1, <2>2 DEF IInv, Lists
  <2>4. t \notin Range(pool) /\ \A r \in Schedulers : t \notin Range(suspended[r])
    BY <1>3, AwakeIsInNoList
  <2>5. ASSUME NEW r \in Schedulers, NEW u \in Range(suspended'[r])
        PROVE  u \notin resumed' /\ owner'[u] = r /\ pc'[u] = "loop"
    <3>1. u \in Threads /\ u # t
      BY <2>1, <2>4 DEF IInv, Lists, Range
    <3>2. QED BY <1>3, <1>4, <2>1, <3>1 DEF IInv, ListsOK, Processes
  <2>6. ASSUME NEW u \in Range(pool')
        PROVE  u \notin resumed' /\ owner'[u] = None /\ pc'[u] \in ({"loop"} \cup Leaving) \ {"spin", "release"}
    <3>1. u \in Threads /\ u # t
      BY <2>1, <2>4 DEF IInv, Lists, Range
    <3>2. QED BY <1>3, <1>4, <2>1, <3>1 DEF IInv, ListsOK, Processes
  <2>7. ASSUME NEW u \in Threads
        PROVE  /\ pc'[u] = "new" => u \notin resumed'
               /\ pc'[u] \in {"execute", "some", "woken", "ending"} => u \in resumed'
               /\ pc'[u] \in {"spin", "release"} => u \notin resumed' /\ owner'[u] = at'[u]
    BY <1>1, <1>3, <1>4, <2>1 DEF IInv, ListsOK, Processes
  <2>8. QED BY <2>1, <2>2, <2>3, <2>5, <2>6, <2>7 DEF IInv, ListsOK
<1>7. Counters' /\ CountersOK'
  <2>1. Counters'
    BY <1>2 DEF IInv, Counters, counters
  <2>2. Back(s)'
    BY <1>4 DEF Back
  <2>3. Counted(s)'
    <3>1. UNCHANGED <<runningCount, suspendedCount, yetToCreate, fromShared, unusedCount,
                      suspended, destroyed>>
      BY <1>2 DEF counters
    <3>2. Counted(s) /\ suspended[s] = <<>>
      BY <1>2, <1>3, CountersAre DEF Counted
    <3>3. runningCount'[s] = Cardinality(running'[s]) + IF Back(s)' THEN 1 ELSE 0
      BY <1>3, <2>2, <3>1
    <3>4. QED BY <1>2, <3>1, <3>2, <3>3 DEF Counted
  <2>4. ASSUME NEW r \in Schedulers \ {s} PROVE Counted(r)'
    <3>1. UNCHANGED <<runningCount[r], suspendedCount[r], yetToCreate[r], fromShared[r],
                      unusedCount[r], running[r], suspended[r]>>
      BY <1>2, <1>3 DEF counters
    <3>2. Back(r)' <=> Back(r)
      <4>1. r # None
        BY SchedulerAssumption
      <4>2. \A u \in Threads : at'[u] = r <=> at[u] = r
        BY <1>3, <1>4, <4>1 DEF Processes
      <4>3. QED BY <4>2 DEF Back
    <3>3. QED BY <1>2, <3>1, <3>2, OthersStayCounted
  <2>5. QED BY <2>1, <2>3, <2>4 DEF CountersOK
<1>8. Loans' /\ ThreadsAreCounted'
  <2>1. \A u \in Threads :
          at'[u] # None /\ pc'[u] \notin {"spin", "release"}
            <=> at[u] # None /\ pc[u] \notin {"spin", "release"}
    BY <1>3, <1>4 DEF Processes
  <2>2. UNCHANGED <<pool, allocCount, poolYetToCreate, fromShared>>
    BY <1>2 DEF shared, counters
  <2>3. QED BY <2>1, <2>2, LoansStay
<1>9. Flags' /\ StarvingOK'
  <2>1. ~Notifying(t) /\ ~Notifying(t)'
    BY <1>3, <1>4 DEF Notifying
  <2>2. \A p \in Processes : Notifying(p)' <=> Notifying(p)
    BY <1>4, <2>1 DEF Notifying
  <2>3. QED BY <1>2, <2>2, StarvingStays DEF shared, history
<1>10. DestroyOK'
  <2>1. \A c \in Callers : pc'[c] = pc[c] /\ at'[c] = at[c]
    BY <1>3, <1>4 DEF Processes
  <2>2. QED BY <1>2, <2>1, DestroyStays DEF IInv, DestroyOK
<1>11. DestroyedIsForgotten'
  <2>1. \A r \in destroyed : running'[r] = running[r] /\ fromShared'[r] = fromShared[r] /\ mutex'[r] = mutex[r]
    BY <1>2, <1>3, <1>4 DEF IInv, Flags, counters
  <2>2. \A u \in Threads : at'[u] = at[u] \/ at'[u] \notin destroyed
    BY <1>3, <1>4 DEF Processes
  <2>3. QED BY <1>2, <2>1, <2>2, ForgottenStays DEF shared
<1>12. WaitingOK' /\ Calling'
  <2>1. \A u \in Threads : pc'[u] \in {"some", "woken"} <=> pc[u] \in {"some", "woken"}
    BY <1>3, <1>4 DEF Processes
  <2>2. WaitingOK' /\ threadIsIdle' \subseteq Schedulers
    BY <1>1, <1>2, <2>1, IdleKeepsWaiting
  <2>3. QED BY <1>2, <1>3, <2>2 DEF IInv, Calling, history
<1>13. QED
  BY <1>5, <1>6, <1>7, <1>8, <1>9, <1>10, <1>11, <1>12 DEF IInv

\* Whoever leaves StopStarvation found its scheduler told or in the list, and nobody
\* was about to tell it then.
LEMMA StopStarvationKeeps == ASSUME IInv, NEW p \in Processes, StopStarvation(p) PROVE IInv'
<1>1. PICK s : s = at[p]
  OBVIOUS
<1>2. /\ pc[p] = "spin" /\ s \in Schedulers /\ s # None /\ target[p] = None
      /\ p \in Threads => p \notin Callers
  BY <1>1, AllStand, SchedulerAssumption
     DEF StopStarvation, Stands, Leaving, Aiming, Inside, Processes
<1>3. /\ starved' = [starved EXCEPT ![s] = FALSE]
      /\ pc' = [pc EXCEPT ![p] = IF p \in Threads THEN "release" ELSE "drain"]
      /\ UNCHANGED <<queue, threads, stopCount, events, mutex, destroyed, closing, pool,
                     allocCount, poolYetToCreate, at, target, history>>
  BY <1>1 DEF StopStarvation
<1>4. /\ pc'[p] = IF p \in Threads THEN "release" ELSE "drain"
      /\ \A q \in Processes \ {p} : pc'[q] = pc[q]
  BY <1>3 DEF IInv, Positions
<1>5. starving \in Seq(Schedulers) /\ IsInjective(starving) /\ starved \in [Schedulers -> BOOLEAN]
  BY DEF IInv, Flags, StarvingOK
<1>6. \/ ~starved[s] /\ starving' = starving
      \/ /\ s \in Range(starving) /\ starving' \in Seq(Schedulers)
         /\ Lost(starving', starving, s)
  <2>1. CASE ~starved[s] /\ UNCHANGED starving
    BY <2>1
  <2>2. CASE \E i \in DOMAIN starving : starving[i] = s /\ starving' = RemoveAt(starving, i)
    <3>1. PICK i \in DOMAIN starving : starving[i] = s /\ starving' = RemoveAt(starving, i)
      BY <2>2
    <3>2. s \in Range(starving)
      BY <3>1 DEF Range
    <3>3. QED BY <1>5, <3>1, <3>2, RemoveIs
  <2>3. QED BY <1>1, <2>1, <2>2 DEF StopStarvation
<1>7. Core'
  <2>1. pc' \in [Processes -> Places]
    BY <1>3 DEF IInv, Positions, Places
  <2>2. Stands(p)'
    BY <1>2, <1>3, <1>4, <2>1, AllStand
       DEF Stands, Leaving, Inside, Aiming, ThreadPlaces, CallerPlaces
  <2>3. Moves(p)
    BY <1>3, <1>4, <2>1, <2>2 DEF Moves, Aside, IInv, Positions
  <2>4. UNCHANGED <<counters, running, suspended, owner, resumed>>
    BY <1>3 DEF threads
  <2>5. p \in Threads => GoesOn(p)
    BY <1>2, <1>4 DEF GoesOn
  <2>6. QED BY <1>2, <1>3, <1>4, <2>3, <2>4, <2>5, CoreStays
<1>8. Flags' /\ StarvingOK'
  <2>1. \A q \in Processes : (Notifying(q)' <=> Notifying(q)) /\ target'[q] = target[q]
    BY <1>2, <1>3, <1>4 DEF Notifying
  <2>2. CASE ~starved[s] /\ starving' = starving
    <3>1. starved' = starved
      BY <1>2, <1>3, <1>5, <2>2
    <3>2. QED BY <1>3, <2>1, <2>2, <3>1, StarvingStays DEF history
  <2>3. CASE s \in Range(starving) /\ starving' \in Seq(Schedulers) /\ Lost(starving', starving, s)
    <3>1. Flags'
      BY <1>3, <2>3 DEF IInv, Flags, history
    <3>2. \A q \in Processes : Notifying(q) => target[q] # s /\ target[q] \in Schedulers
      BY <2>3, TargetIs DEF IInv, StarvingOK, Notifying, Aiming, Inside
    <3>3. \A r \in Schedulers \ {s} : starved'[r] = starved[r]
      BY <1>3
    <3>4. IsInjective(starving') /\ \A r \in Range(starving') : r \in Range(starving) /\ r \in Schedulers \ {s}
      BY <1>5, <2>3 DEF Lost, Range
    <3>5. \A r \in Range(starving') :
            starved'[r] /\ \A q \in Processes : Notifying(q)' => target'[q] # r
      BY <2>1, <3>3, <3>4 DEF IInv, StarvingOK
    <3>6. \A q \in Processes : Notifying(q)' => starved'[target'[q]]
      BY <2>1, <3>2, <3>3 DEF IInv, StarvingOK
    <3>7. \A q, r \in Processes : Notifying(q)' /\ Notifying(r)' /\ target'[q] = target'[r] => q = r
      BY <2>1 DEF IInv, StarvingOK
    <3>8. QED BY <3>1, <3>4, <3>5, <3>6, <3>7 DEF StarvingOK
  <2>4. QED BY <1>6, <2>2, <2>3
<1>9. DestroyOK'
  <2>1. (\A r \in Schedulers : starved'[r] => starved[r]) /\ ~starved'[s]
    BY <1>2, <1>3, <1>5
  <2>2. \A c \in Callers : at[c] # None /\ pc'[c] # "spin" => pc[c] # "spin" \/ ~starved'[at[c]]
    BY <1>1, <1>4, <2>1 DEF Processes
  <2>3. QED BY <1>3, <2>1, <2>2, DestroyStays DEF IInv, DestroyOK
<1>10. DestroyedIsForgotten'
  <2>1. \A r \in destroyed : r \in Range(starving') => r \in Range(starving)
    BY <1>6 DEF Lost
  <2>2. QED BY <1>3, <2>1, ForgottenStays DEF threads, counters
<1>11. WaitingOK'
  <2>1. \A t \in Threads : pc'[t] \in {"some", "woken"} <=> pc[t] \in {"some", "woken"}
    BY <1>2, <1>4 DEF Processes
  <2>2. QED BY <1>3, <2>1, WaitingStays DEF threads, events
<1>12. Calling'
  BY <1>3 DEF IInv, Calling, events, history
<1>13. QED BY <1>7, <1>8, <1>9, <1>10, <1>11, <1>12 DEF IInv, Core

\* Every thread that gives itself back is one that its scheduler owes.
LEMMA ReturningOwes ==
  ASSUME IInv, NEW t \in Threads, pc[t] = "release"
  PROVE  allocCount \in Nat /\ allocCount > 0
<1>1. PICK back : back = {u \in Threads : at[u] # None}
  OBVIOUS
<1>2. /\ IsFiniteSet(back) /\ Cardinality(back) \in Nat
      /\ IsFiniteSet(Debts) /\ Cardinality(Debts) \in Nat
      /\ IsFiniteSet(Returned) /\ Cardinality(Returned) \in Nat
  <2>1. back \subseteq Threads /\ Returned \subseteq Threads
    BY <1>1 DEF Returned
  <2>2. QED BY <2>1, FS_Subset, FS_CardinalityType, SchedulerAssumption DEF IInv, Loans
<1>3. \A u \in back : at[u] \in Schedulers /\ mutex[at[u]] = u /\ u \in Threads
  BY <1>1, AllStand DEF Stands, Processes
<1>4. PICK debt : debt = [u \in back |-> <<at[u], 1>>]
  OBVIOUS
<1>5. ASSUME NEW u \in back PROVE debt[u] = <<at[u], 1>> /\ debt[u] \in Debts
  <2>1. at[u] \in Schedulers /\ Back(at[u])
    BY <1>3 DEF Back
  <2>2. fromShared[at[u]] \in Nat /\ fromShared[at[u]] > 0
    BY <2>1, CountersAre DEF Counted
  <2>3. 1 \in 1..fromShared[at[u]]
    BY <2>2
  <2>4. QED BY <1>4, <2>1, <2>3 DEF Debts
<1>6. debt \in Injection(back, Debts)
  <2>1. debt \in [back -> Debts]
    BY <1>4, <1>5
  <2>2. \A u, v \in back : debt[u] = debt[v] => u = v
    BY <1>3, <1>5
  <2>3. QED BY <2>1, <2>2 DEF Injection, IsInjective
<1>7. Cardinality(back) <= Cardinality(Debts)
  BY <1>2, <1>6, FS_Injection
<1>8. t \in back /\ t \notin Returned /\ Returned \subseteq back
  BY <1>1, AllStand DEF Returned, Stands, Leaving, Processes
<1>9. Cardinality(Returned \cup {t}) = Cardinality(Returned) + 1
  BY <1>2, <1>8, FS_AddElement
<1>10. Cardinality(Returned \cup {t}) <= Cardinality(back)
  BY <1>2, <1>8, FS_Subset
<1>11. Cardinality(Debts) = allocCount + Cardinality(Returned) /\ allocCount \in Nat
  BY DEF IInv, ThreadsAreCounted, Loans
<1>12. Cardinality(Returned) + 1 <= Cardinality(Debts)
  BY <1>2, <1>7, <1>9, <1>10
<1>13. QED BY <1>2, <1>11, <1>12

\* The pool gets the thread, and so the scheduler owes one that nobody has on loan.
LEMMA ReleaseKeeps == ASSUME IInv, NEW t \in Threads, Release(t) PROVE IInv'
<1>1. /\ pc[t] = "release" /\ owner' = [owner EXCEPT ![t] = None]
      /\ pool' = Append(pool, t) /\ allocCount' = allocCount - 1
      /\ pc' = [pc EXCEPT ![t] = IF starving = <<>> THEN "settle" ELSE "notify"]
      /\ UNCHANGED <<queue, running, suspended, counters, resumed, starved, stopCount, events,
                     mutex, destroyed, closing, poolYetToCreate, starving, at, target,
                     history>>
  BY DEF Release
<1>2. /\ t \in Processes /\ t \notin Callers /\ at[t] # None /\ target[t] = None
      /\ t \notin resumed
  BY <1>1, AllStand, SchedulerAssumption DEF Stands, Leaving, Aiming, Inside, Processes, IInv, ListsOK
<1>3. /\ pc'[t] \in {"settle", "notify"} /\ \A q \in Processes \ {t} : pc'[q] = pc[q]
      /\ owner'[t] = None /\ \A u \in Threads \ {t} : owner'[u] = owner[u]
      /\ owner' \in [Threads -> Schedulers \cup {None}]
  BY <1>1, <1>2 DEF IInv, Positions, Lists
<1>4. Positions' /\ MutexOK'
  <2>1. pc' \in [Processes -> Places]
    BY <1>1 DEF IInv, Positions, Places
  <2>2. Stands(t)'
    BY <1>1, <1>2, <1>3, <2>1, AllStand DEF Stands, Leaving, Inside, Aiming, ThreadPlaces
  <2>3. Moves(t)
    BY <1>1, <1>2, <1>3, <2>1, <2>2 DEF Moves, Aside, IInv, Positions
  <2>4. QED BY <2>3, MovesKeepPositions
<1>5. /\ pool \in Seq(Threads) /\ IsInjective(pool) /\ t \notin Range(pool) /\ Len(pool) \in Nat
      /\ \A r \in Schedulers : t \notin Range(suspended[r])
  BY <1>1 DEF IInv, Lists, ListsOK
<1>6. /\ pool' \in Seq(Threads) /\ Len(pool') = Len(pool) + 1
      /\ IsInjective(pool') /\ Range(pool') = Range(pool) \cup {t}
  BY <1>1, <1>5, AppendIs
<1>7. Lists' /\ ListsOK'
  <2>1. Lists'
    BY <1>1, <1>3, <1>6 DEF IInv, Lists
  <2>2. \A r \in Schedulers : running'[r] = {u \in resumed' : owner'[u] = r}
    <3> SUFFICES ASSUME NEW r \in Schedulers PROVE running'[r] = {u \in resumed' : owner'[u] = r}
      OBVIOUS
    <3>1. running'[r] = {u \in resumed : owner[u] = r} /\ resumed' = resumed
      BY <1>1 DEF IInv, ListsOK
    <3>2. \A u \in resumed : owner'[u] = owner[u]
      BY <1>2, <1>3 DEF IInv, Lists
    <3>3. QED BY <3>1, <3>2
  <2>3. \A u \in resumed' : owner'[u] \in Schedulers
    BY <1>1, <1>2, <1>3 DEF IInv, Lists, ListsOK
  <2>4. ASSUME NEW r \in Schedulers, NEW u \in Range(suspended'[r])
        PROVE  u \notin resumed' /\ owner'[u] = r /\ pc'[u] = "loop"
    <3>1. u \in Threads /\ u # t
      BY <1>1, <1>5 DEF IInv, Lists, Range
    <3>2. QED BY <1>1, <1>3, <3>1 DEF IInv, ListsOK, Processes
  <2>5. ASSUME NEW u \in Range(pool')
        PROVE  u \notin resumed' /\ owner'[u] = None /\ pc'[u] \in ({"loop"} \cup Leaving) \ {"spin", "release"}
    <3>1. CASE u = t
      BY <1>1, <1>2, <1>3, <3>1 DEF Leaving
    <3>2. CASE u # t
      <4>5. u \in Range(pool)
        BY <1>6, <2>5, <3>2
      <4>1. u \in Range(pool) /\ u \in Threads
        BY <1>5, <4>5 DEF Range
      <4>2. u \notin resumed /\ owner[u] = None /\ pc[u] \in ({"loop"} \cup Leaving) \ {"spin", "release"}
        BY <4>1 DEF IInv, ListsOK
      <4>3. resumed' = resumed /\ owner'[u] = owner[u] /\ pc'[u] = pc[u]
        BY <1>1, <1>3, <3>2, <4>1 DEF Processes
      <4>4. QED BY <4>2, <4>3
    <3>3. QED BY <3>1, <3>2
  <2>6. ASSUME NEW u \in Threads
        PROVE  /\ pc'[u] = "new" => u \notin resumed'
               /\ pc'[u] \in {"execute", "some", "woken", "ending"} => u \in resumed'
               /\ pc'[u] \in {"spin", "release"} => u \notin resumed' /\ owner'[u] = at'[u]
    BY <1>1, <1>3 DEF IInv, ListsOK, Processes
  <2>7. QED BY <1>1, <1>6, <2>1, <2>2, <2>3, <2>4, <2>5, <2>6 DEF IInv, ListsOK
<1>8. Counters' /\ CountersOK'
  BY <1>1, CountersStay
<1>9. Loans' /\ ThreadsAreCounted'
  <2>1. allocCount \in Nat /\ allocCount > 0 /\ poolYetToCreate \in Nat
    BY <1>1, ReturningOwes DEF IInv, Loans
  <2>2. Debts' = Debts
    BY <1>1 DEF Debts, counters
  <2>3. Returned' = Returned \cup {t} /\ t \notin Returned /\ Returned \subseteq Threads
    BY <1>1, <1>2, <1>3 DEF Returned, Processes
  <2>4. Cardinality(Returned') = Cardinality(Returned) + 1 /\ Cardinality(Returned) \in Nat
    <3>1. PICK was : was = Returned
      OBVIOUS
    <3>2. IsFiniteSet(was) /\ t \notin was
      BY <2>3, <3>1, FS_Subset, SchedulerAssumption
    <3>3. Cardinality(was \cup {t}) = Cardinality(was) + 1
      BY <3>2, FS_AddElement
    <3>4. Cardinality(was) \in Nat
      BY <3>2, FS_CardinalityType
    <3>5. QED BY <2>3, <3>1, <3>3, <3>4
  <2>5. /\ Len(pool) + allocCount + poolYetToCreate = MaxCount
        /\ Cardinality(Debts) = allocCount + Cardinality(Returned)
    BY DEF IInv, ThreadsAreCounted
  <2>6. Len(pool') + allocCount' + poolYetToCreate' = MaxCount
    BY <1>1, <1>5, <1>6, <2>1, <2>5
  <2>7. Cardinality(Debts') = allocCount' + Cardinality(Returned')
    BY <1>1, <2>1, <2>2, <2>4, <2>5
  <2>8. allocCount' \in Nat
    BY <1>1, <2>1
  <2>9. QED BY <1>1, <2>1, <2>2, <2>6, <2>7, <2>8 DEF IInv, Loans, ThreadsAreCounted
<1>10. Flags' /\ StarvingOK'
  <2>1. ~Notifying(t) /\ ~Notifying(t)'
    BY <1>1, <1>3 DEF Notifying
  <2>2. \A p \in Processes : Notifying(p)' <=> Notifying(p)
    BY <1>3, <2>1 DEF Notifying
  <2>3. QED BY <1>1, <2>2, StarvingStays DEF history
<1>11. DestroyOK'
  <2>1. \A c \in Callers : pc'[c] = pc[c]
    BY <1>2, <1>3 DEF Processes
  <2>2. QED BY <1>1, <2>1, DestroyStays DEF IInv, DestroyOK
<1>12. DestroyedIsForgotten'
  BY <1>1, ForgottenStays DEF counters
<1>13. WaitingOK'
  <2>1. ASSUME NEW u \in Threads
        PROVE  /\ pc'[u] \in {"some", "woken"} <=> pc[u] \in {"some", "woken"}
               /\ pc[u] \in {"some", "woken"} => owner'[u] = owner[u]
    BY <1>1, <1>3 DEF Processes
  <2>2. UNCHANGED <<waitingThreads, running, threadIsIdle>>
    BY <1>1 DEF events
  <2>3. QED BY <2>1, <2>2, WaitingStays
<1>14. Calling'
  BY <1>1 DEF IInv, Calling, events, history
<1>15. QED BY <1>4, <1>7, <1>8, <1>9, <1>10, <1>11, <1>12, <1>13, <1>14 DEF IInv

\* The scheduler that is notified next leaves the list.
LEMMA NotifyKeeps == ASSUME IInv, NEW t \in Threads, Notify(t) PROVE IInv'
<1>1. /\ pc[t] = "notify"
      /\ \/ /\ pc' = [pc EXCEPT ![t] = "settle"] /\ UNCHANGED <<starving, target>>
         \/ /\ starving # <<>> /\ pc' = [pc EXCEPT ![t] = "available"]
            /\ target' = [target EXCEPT ![t] = Head(starving)]
            /\ starving' = Tail(starving)
      /\ UNCHANGED <<queue, threads, starved, stopCount, events, mutex, destroyed, closing,
                     pool, allocCount, poolYetToCreate, at, history>>
  BY DEF Notify
<1>2. /\ t \in Processes /\ t \notin Callers /\ at[t] # None /\ target[t] = None /\ ~Notifying(t)
  BY <1>1, AllStand, SchedulerAssumption DEF Stands, Leaving, Aiming, Inside, Processes, Notifying
<1>3. /\ pc'[t] \in {"settle", "available"} /\ pc' \in [Processes -> Places]
      /\ \A q \in Processes \ {t} : pc'[q] = pc[q] /\ target'[q] = target[q]
  BY <1>1, <1>2 DEF IInv, Positions, Places
<1>4. starving \in Seq(Schedulers) /\ IsInjective(starving)
  BY DEF IInv, Flags, StarvingOK
<1>5. \/ pc'[t] = "settle" /\ target' = target /\ starving' = starving
      \/ \E s \in Range(starving) \cap Schedulers :
           /\ pc'[t] = "available" /\ target'[t] = s
           /\ target' \in [Processes -> Schedulers \cup {None}]
           /\ starving' \in Seq(Schedulers) /\ Lost(starving', starving, s)
  <2>1. CASE pc' = [pc EXCEPT ![t] = "settle"] /\ UNCHANGED <<starving, target>>
    BY <1>2, <2>1 DEF IInv, Positions
  <2>2. CASE /\ starving # <<>> /\ pc' = [pc EXCEPT ![t] = "available"]
             /\ target' = [target EXCEPT ![t] = Head(starving)]
             /\ starving' = Tail(starving)
    <3>1. /\ Head(starving) \in Schedulers /\ Head(starving) \in Range(starving)
          /\ Tail(starving) \in Seq(Schedulers)
          /\ Lost(Tail(starving), starving, Head(starving))
      BY <1>4, <2>2, TailIs
    <3>2. QED BY <1>2, <2>2, <3>1 DEF IInv, Positions
  <2>3. QED BY <1>1, <2>1, <2>2
<1>6. Core'
  <2>1. target' \in [Processes -> Schedulers \cup {None}]
    BY <1>5 DEF IInv, Positions
  <2>2. Stands(t)'
    <3>1. target'[t] # None <=> pc'[t] \in Aiming
      BY <1>2, <1>5, SchedulerAssumption DEF Aiming, Inside
    <3>2. QED BY <1>1, <1>2, <1>3, <2>1, <3>1, AllStand DEF Stands, Leaving, Inside, ThreadPlaces
  <2>3. Moves(t)
    BY <1>1, <1>2, <1>3, <2>1, <2>2 DEF Moves, Aside, IInv, Positions
  <2>4. UNCHANGED <<counters, running, suspended, owner, resumed>>
    BY <1>1 DEF threads
  <2>5. GoesOn(t)
    BY <1>1, <1>3 DEF GoesOn, Leaving
  <2>6. QED BY <1>1, <1>3, <2>3, <2>4, <2>5, CoreStays
<1>7. Flags' /\ StarvingOK'
  <2>1. CASE pc'[t] = "settle" /\ target' = target /\ starving' = starving
    <3>1. \A p \in Processes : Notifying(p)' <=> Notifying(p)
      BY <1>2, <1>3, <2>1 DEF Notifying
    <3>2. QED BY <1>1, <2>1, <3>1, StarvingStays DEF history
  <2>2. ASSUME NEW s \in Range(starving) \cap Schedulers,
               pc'[t] = "available", target'[t] = s,
               starving' \in Seq(Schedulers), Lost(starving', starving, s)
        PROVE  Flags' /\ StarvingOK'
    <3>1. Flags'
      BY <1>1, <2>2 DEF IInv, Flags, history
    <3>2. starved[s] /\ \A q \in Processes : Notifying(q) => target[q] # s
      BY DEF IInv, StarvingOK
    <3>3. Notifying(t)' /\ \A q \in Processes \ {t} : (Notifying(q)' <=> Notifying(q)) /\ target'[q] = target[q]
      BY <1>3, <2>2 DEF Notifying
    <3>4. IsInjective(starving') /\ \A r \in Range(starving') : r \in Range(starving) /\ r # s
      BY <2>2 DEF Lost
    <3>5. \A r \in Range(starving') :
            starved'[r] /\ \A q \in Processes : Notifying(q)' => target'[q] # r
      BY <1>1, <2>2, <3>3, <3>4 DEF IInv, StarvingOK
    <3>6. \A q \in Processes : Notifying(q)' => starved'[target'[q]]
      BY <1>1, <2>2, <3>2, <3>3 DEF IInv, StarvingOK
    <3>7. \A q, r \in Processes : Notifying(q)' /\ Notifying(r)' /\ target'[q] = target'[r] => q = r
      BY <2>2, <3>2, <3>3 DEF IInv, StarvingOK
    <3>8. QED BY <3>1, <3>4, <3>5, <3>6, <3>7 DEF StarvingOK
  <2>3. QED BY <1>5, <2>1, <2>2
<1>8. DestroyOK'
  <2>1. \A c \in Callers : pc'[c] = pc[c] /\ target'[c] = target[c]
    BY <1>2, <1>3 DEF Processes
  <2>2. QED BY <1>1, <2>1, DestroyStays DEF IInv, DestroyOK
<1>9. DestroyedIsForgotten'
  <2>1. \A r \in destroyed : r \in Range(starving') => r \in Range(starving)
    BY <1>5 DEF Lost
  <2>2. \A u \in Threads : target'[u] = target[u] \/ target'[u] \notin destroyed
    BY <1>3, <1>5 DEF Processes, IInv, DestroyedIsForgotten
  <2>3. UNCHANGED <<running, fromShared>>
    BY <1>1 DEF threads, counters
  <2>4. QED BY <1>1, <2>1, <2>2, <2>3, ForgottenStays
<1>10. WaitingOK'
  <2>1. \A u \in Threads : pc'[u] \in {"some", "woken"} <=> pc[u] \in {"some", "woken"}
    BY <1>1, <1>3 DEF Processes
  <2>2. UNCHANGED <<waitingThreads, running, threadIsIdle, owner>>
    BY <1>1 DEF events, threads
  <2>3. QED BY <2>1, <2>2, WaitingStays
<1>11. Calling'
  BY <1>1 DEF IInv, Calling, events, history
<1>12. QED BY <1>6, <1>7, <1>8, <1>9, <1>10, <1>11 DEF IInv, Core

\* A scheduler that is notified is not in the list any more, so it does not starve.
LEMMA ThreadAvailableKeeps == ASSUME IInv, NEW t \in Threads, ThreadAvailable(t) PROVE IInv'
<1>1. PICK s : s = target[t]
  OBVIOUS
<1>2. /\ pc[t] = "available" /\ mutex[s] = None
      /\ starved' = [starved EXCEPT ![s] = FALSE] /\ mutex' = [mutex EXCEPT ![s] = t]
      /\ pc' = [pc EXCEPT ![t] = "grow"]
      /\ UNCHANGED <<queue, threads, stopCount, events, destroyed, closing, shared, at,
                     target, history>>
  BY <1>1 DEF ThreadAvailable
<1>3. /\ t \in Processes /\ t \notin Callers /\ t # None /\ at[t] # None /\ at[t] # s
      /\ s \in Schedulers /\ s \notin destroyed /\ s # None
  <2>1. t \in Processes /\ t \notin Callers /\ t # None
    BY SchedulerAssumption DEF Processes
  <2>2. s \in Schedulers /\ s \notin destroyed
    BY <1>1, <1>2, <2>1, TargetIs DEF Aiming
  <2>3. at[t] # None /\ mutex[at[t]] = t
    BY <1>2, <2>1, AllStand DEF Stands, Leaving
  <2>4. QED BY <1>2, <2>1, <2>2, <2>3, SchedulerAssumption
<1>4. /\ pc'[t] = "grow" /\ \A q \in Processes \ {t} : pc'[q] = pc[q]
      /\ mutex'[s] = t /\ \A r \in Schedulers \ {s} : mutex'[r] = mutex[r]
      /\ ~starved'[s] /\ \A r \in Schedulers \ {s} : starved'[r] = starved[r]
      /\ starved' \in [Schedulers -> BOOLEAN]
  BY <1>2, <1>3 DEF IInv, Positions, Flags
<1>5. Core'
  <2>1. pc' \in [Processes -> Places] /\ mutex' \in [Schedulers -> Processes \cup {None}]
    BY <1>2, <1>3 DEF IInv, Positions, Places
  <2>2. Stands(t)'
    BY <1>1, <1>2, <1>3, <1>4, <2>1, AllStand DEF Stands, Leaving, Inside, Aiming, ThreadPlaces
  <2>3. Moves(t)
    BY <1>2, <1>3, <1>4, <2>1, <2>2 DEF Moves, Aside, IInv, Positions
  <2>4. UNCHANGED <<counters, running, suspended, owner, resumed, pool, allocCount, poolYetToCreate>>
    BY <1>2 DEF threads, shared
  <2>5. GoesOn(t)
    BY <1>2, <1>4 DEF GoesOn, Leaving
  <2>6. QED BY <1>2, <1>4, <2>3, <2>4, <2>5, CoreStays
<1>6. Flags' /\ StarvingOK'
  <2>1. starving' = starving /\ target' = target
    BY <1>2 DEF shared
  <2>2. Flags'
    BY <1>2, <1>4, <2>1 DEF IInv, Flags, history
  <2>3. Notifying(t) /\ ~Notifying(t)' /\ \A q \in Processes \ {t} : Notifying(q)' <=> Notifying(q)
    BY <1>2, <1>4 DEF Notifying
  <2>4. s \notin Range(starving) /\ \A q \in Processes \ {t} : Notifying(q) => target[q] # s /\ target[q] \in Schedulers
    BY <1>1, <1>3, <2>3, TargetIs DEF IInv, StarvingOK, Notifying, Aiming, Inside
  <2>5. \A r \in Range(starving) : r \in Schedulers \ {s}
    BY <2>4 DEF IInv, Flags, Range
  <2>6. \A r \in Range(starving') :
          starved'[r] /\ \A q \in Processes : Notifying(q)' => target'[q] # r
    BY <1>4, <2>1, <2>3, <2>5 DEF IInv, StarvingOK
  <2>7. \A q \in Processes : Notifying(q)' => starved'[target'[q]]
    BY <1>4, <2>1, <2>3, <2>4 DEF IInv, StarvingOK
  <2>8. \A q, r \in Processes : Notifying(q)' /\ Notifying(r)' /\ target'[q] = target'[r] => q = r
    BY <2>1, <2>3 DEF IInv, StarvingOK
  <2>9. QED BY <2>1, <2>2, <2>6, <2>7, <2>8 DEF IInv, StarvingOK
<1>7. DestroyOK'
  <2>1. \A c \in Callers : pc'[c] = pc[c]
    BY <1>3, <1>4 DEF Processes
  <2>2. \A r \in Schedulers : starved'[r] => starved[r]
    BY <1>4
  <2>3. QED BY <1>2, <2>1, <2>2, DestroyStays DEF IInv, DestroyOK
<1>8. DestroyedIsForgotten'
  <2>1. \A r \in destroyed : mutex'[r] = mutex[r]
    BY <1>3, <1>4 DEF IInv, Flags
  <2>2. QED BY <1>2, <2>1, ForgottenStays DEF shared, threads, counters
<1>9. WaitingOK'
  <2>1. \A u \in Threads : pc'[u] \in {"some", "woken"} <=> pc[u] \in {"some", "woken"}
    BY <1>2, <1>4 DEF Processes
  <2>2. UNCHANGED <<waitingThreads, running, threadIsIdle, owner>>
    BY <1>2 DEF events, threads
  <2>3. QED BY <2>1, <2>2, WaitingStays
<1>10. Calling'
  BY <1>2 DEF IInv, Calling, events, history
<1>11. QED BY <1>5, <1>6, <1>7, <1>8, <1>9, <1>10 DEF IInv, Core

\* All that an allocation keeps.
LEMMA AllocationKeeps ==
  ASSUME IInv, NEW s, NEW p, NEW to, NEW on, Allocates(s, p, to, on),
         \A r \in closing : queue'[r] = queue[r], Calling'
  PROVE  IInv'
BY AllocationKeepsPositions, AllocationKeepsLists, AllocationKeepsCounters,
   AllocationKeepsStarving, AllocationKeepsDestroyed, AllocationKeepsWaiting,
   AllocationKeepsLoans DEF IInv

\* p leaves the critical section it was in, and nothing else changes; it goes on
\* to nobody's harm.
LEMMA LeavingKeeps ==
  ASSUME IInv, NEW p \in Processes, NEW s \in Schedulers, NEW on,
         p \in Threads => pc[p] = "grow" /\ on = "notify",
         p \in Callers => pc[p] \in {"idle", "resume"} /\ on = "idle",
         mutex[s] \in {None, p}, s \notin destroyed,
         p \in Threads => target[p] = s,
         pc' = [pc EXCEPT ![p] = on], mutex' = [mutex EXCEPT ![s] = None],
         target' = [target EXCEPT ![p] = None],
         \A r \in closing : stopCount'[r] = 0 \/ queue'[r] = 0,
         UNCHANGED <<threads, starved, shared, hungry, waitingThreads, threadIsIdle,
                     destroyed, closing, at>>
  PROVE  Core' /\ Flags' /\ StarvingOK' /\ DestroyOK' /\ DestroyedIsForgotten' /\ WaitingOK'
<1>1. /\ p \in Threads => p \notin Callers
      /\ p \in Threads \/ p \in Callers
      /\ p # None /\ s # None
  BY SchedulerAssumption DEF Processes
<1>2. /\ pc'[p] = on /\ target'[p] = None /\ mutex'[s] = None
      /\ \A q \in Processes \ {p} : pc'[q] = pc[q] /\ target'[q] = target[q]
      /\ \A r \in Schedulers \ {s} : mutex'[r] = mutex[r]
  BY DEF IInv, Positions
<1>3. Core'
  <2>1. on \in Places
    BY <1>1 DEF Places
  <2>2. /\ mutex' \in [Schedulers -> Processes \cup {None}] /\ pc' \in [Processes -> Places]
        /\ at' \in [Processes -> Schedulers \cup {None}]
        /\ target' \in [Processes -> Schedulers \cup {None}]
    BY <2>1 DEF IInv, Positions
  <2>3. Stands(p)'
    <3>1. ASSUME p \in Threads
          PROVE  /\ pc'[p] \in ThreadPlaces
                 /\ at'[p] # None <=> pc'[p] \in Leaving
                 /\ at'[p] # None => mutex'[at'[p]] = p
                 /\ pc'[p] \in Inside => target'[p] # at'[p]
      <4>1. at[p] # None /\ at[p] \in Schedulers /\ mutex[at[p]] = p /\ at[p] # s
        BY <3>1, AllStand DEF Stands, Leaving, Inside
      <4>2. QED BY <1>2, <3>1, <4>1 DEF ThreadPlaces, Leaving, Inside
    <3>2. ASSUME p \in Callers
          PROVE  /\ pc'[p] \in CallerPlaces
                 /\ at'[p] # None <=> pc'[p] \in {"spin", "drain", "empty"}
      BY <1>2, <3>2, AllStand DEF Stands, CallerPlaces
    <3>3. pc'[p] \notin Aiming
      BY <1>1, <1>2 DEF Aiming, Inside
    <3>4. QED BY <1>2, <2>2, <3>1, <3>2, <3>3 DEF Stands, Aiming
  <2>4. Moves(p)
    BY <1>2, <2>2, <2>3 DEF Moves, Aside
  <2>5. UNCHANGED <<counters, running, suspended, owner, resumed, pool, allocCount, poolYetToCreate>>
    BY DEF threads, shared
  <2>6. p \in Threads => GoesOn(p)
    BY <1>2 DEF GoesOn, Leaving
  <2>7. QED BY <1>2, <2>4, <2>5, <2>6, CoreStays
<1>4. Flags' /\ StarvingOK'
  <2>1. ~Notifying(p) /\ ~Notifying(p)'
    BY <1>1, <1>2 DEF Notifying
  <2>2. \A q \in Processes : (Notifying(q)' <=> Notifying(q)) /\ (Notifying(q) => target'[q] = target[q])
    BY <1>2, <2>1 DEF Notifying
  <2>3. QED BY <2>2, StarvingStays DEF shared
<1>5. DestroyOK'
  <2>1. None \notin closing
    BY SchedulerAssumption DEF IInv, Flags
  <2>2. \A c \in Callers :
          /\ at[c] # None /\ pc'[c] # "spin" => pc[c] # "spin"
          /\ target'[c] = target[c] \/ target'[c] \notin closing
    BY <1>1, <1>2, <2>1 DEF Processes
  <2>3. QED BY <2>2, DestroyStays
<1>6. DestroyedIsForgotten'
  <2>1. None \notin destroyed /\ destroyed \subseteq Schedulers
    BY SchedulerAssumption DEF IInv, Flags
  <2>2. \A t \in Threads : target'[t] = target[t] \/ target'[t] \notin destroyed
    BY <1>2, <2>1 DEF Processes
  <2>3. \A r \in destroyed : mutex'[r] = mutex[r]
    BY <1>2, <2>1
  <2>4. QED BY <2>2, <2>3, ForgottenStays DEF threads, counters, shared
<1>7. WaitingOK'
  <2>1. \A t \in Threads : pc'[t] \in {"some", "woken"} <=> pc[t] \in {"some", "woken"}
    BY <1>2 DEF Processes
  <2>2. QED BY <2>1, WaitingStays DEF threads
<1>8. QED BY <1>3, <1>4, <1>5, <1>6, <1>7

\* A thread that notifies allocates for the scheduler, or leaves it.
LEMMA GrowKeeps == ASSUME IInv, NEW t \in Threads, Grow(t) PROVE IInv'
<1>1. PICK s : s = target[t]
  OBVIOUS
<1>2. /\ pc[t] = "grow" /\ Keep(s, t)
      /\ \/ WantsShared(s) /\ AllocateSharedThread(s, t, "grow", "notify")
         \/ pc' = [pc EXCEPT ![t] = "notify"] /\ UNCHANGED <<threads, starved, shared, hungry>>
      /\ UNCHANGED <<queue, stopCount, events, destroyed, closing, at, scheduled, stops>>
  BY <1>1 DEF Grow
<1>3. /\ t \in Processes /\ t \notin Callers /\ s \in Schedulers /\ s \notin destroyed
      /\ mutex[s] = t
  BY <1>1, <1>2, TargetIs, SchedulerAssumption DEF Aiming, Inside, Processes
<1>4. Calling'
  BY <1>2 DEF IInv, Calling, events
<1>5. CASE WantsShared(s) /\ AllocateSharedThread(s, t, "grow", "notify")
  <2>1. Allocates(s, t, "grow", "notify")
    BY <1>1, <1>2, <1>3, <1>5 DEF Allocates, events
  <2>2. QED BY <1>2, <1>4, <2>1, AllocationKeeps
<1>6. CASE pc' = [pc EXCEPT ![t] = "notify"] /\ UNCHANGED <<threads, starved, shared, hungry>>
  <2>1. pc'[t] = "notify"
    BY <1>3, <1>6 DEF IInv, Positions
  <2>2. mutex' = [mutex EXCEPT ![s] = None] /\ target' = [target EXCEPT ![t] = None]
    BY <1>2, <2>1 DEF Keep
  <2>3. \A r \in closing : stopCount'[r] = 0 \/ queue'[r] = 0
    BY <1>2 DEF IInv, DestroyOK
  <2>4. UNCHANGED <<waitingThreads, threadIsIdle>>
    BY <1>2 DEF events
  <2>5. Core' /\ Flags' /\ StarvingOK' /\ DestroyOK' /\ DestroyedIsForgotten' /\ WaitingOK'
    BY <1>1, <1>2, <1>3, <1>6, <2>2, <2>3, <2>4, LeavingKeeps
  <2>6. QED BY <1>4, <2>5 DEF IInv, Core
<1>7. QED BY <1>2, <1>5, <1>6

\* A debt that is crossed off is one pair less.
LEMMA DebtIsRemoved ==
  ASSUME IInv, NEW s \in Schedulers, fromShared[s] > 0,
         fromShared' = [fromShared EXCEPT ![s] = fromShared[s] - 1]
  PROVE  IsFiniteSet(Debts') /\ Cardinality(Debts') = Cardinality(Debts) - 1
<1>1. fromShared \in [Schedulers -> Nat] /\ IsFiniteSet(Debts)
  BY DEF IInv, Counters, Loans
<1>2. fromShared'[s] = fromShared[s] - 1 /\ \A r \in Schedulers \ {s} : fromShared'[r] = fromShared[r]
  BY <1>1
<1>3. 1..(fromShared[s] - 1) = 1..fromShared[s] \ {fromShared[s]} /\ fromShared[s] \in 1..fromShared[s]
  BY <1>1
<1>4. PICK debt : debt = <<s, fromShared[s]>>
  OBVIOUS
<1>5. Debts' = Debts \ {debt} /\ debt \in Debts
  <2>1. \A x : x \in Debts <=> \E r \in Schedulers : \E n \in 1..fromShared[r] : x = <<r, n>>
    BY DEF Debts
  <2>2. \A x : x \in Debts' <=> \E r \in Schedulers : \E n \in 1..fromShared'[r] : x = <<r, n>>
    BY DEF Debts
  <2>3. ASSUME NEW x \in Debts' PROVE x \in Debts \ {debt}
    <3>1. PICK r \in Schedulers : \E n \in 1..fromShared'[r] : x = <<r, n>>
      BY <2>2, <2>3
    <3>2. PICK n \in 1..fromShared'[r] : x = <<r, n>>
      BY <3>1
    <3>3. CASE r = s
      BY <1>2, <1>3, <1>4, <2>1, <3>2, <3>3
    <3>4. CASE r # s
      BY <1>2, <1>4, <2>1, <3>2, <3>4
    <3>5. QED BY <3>3, <3>4
  <2>4. ASSUME NEW x \in Debts \ {debt} PROVE x \in Debts'
    <3>1. PICK r \in Schedulers : \E n \in 1..fromShared[r] : x = <<r, n>>
      BY <2>1, <2>4
    <3>2. PICK n \in 1..fromShared[r] : x = <<r, n>>
      BY <3>1
    <3>3. n \in 1..fromShared'[r]
      BY <1>2, <1>3, <1>4, <2>4, <3>2
    <3>4. QED BY <2>2, <3>2, <3>3
  <2>5. debt \in Debts
    BY <1>3, <1>4, <2>1
  <2>6. QED BY <2>3, <2>4, <2>5
<1>6. PICK was : was = Debts
  OBVIOUS
<1>7. IsFiniteSet(was \ {debt}) /\ Cardinality(was \ {debt}) = Cardinality(was) - 1
  BY <1>1, <1>5, <1>6, FS_RemoveElement
<1>8. QED BY <1>5, <1>6, <1>7

\* The thread that was given back is crossed off, and nobody else gives itself back
\* to that scheduler.
LEMMA SettleKeeps == ASSUME IInv, NEW t \in Threads, Settle(t) PROVE IInv'
<1>1. PICK s : s = at[t]
  OBVIOUS
<1>2. /\ pc[t] = "settle"
      /\ fromShared' = [fromShared EXCEPT ![s] = fromShared[s] - 1]
      /\ unusedCount' = [unusedCount EXCEPT ![s] = unusedCount[s] + 1]
      /\ runningCount' = [runningCount EXCEPT ![s] = runningCount[s] - 1]
      /\ emptyEvent' \subseteq emptyEvent \cup {s}
      /\ mutex' = [mutex EXCEPT ![s] = None] /\ at' = [at EXCEPT ![t] = None]
      /\ pc' = [pc EXCEPT ![t] = "loop"]
      /\ UNCHANGED <<queue, running, suspended, suspendedCount, yetToCreate, owner,
                     resumed, starved, stopCount, threadIsIdle, waitingThreads, destroyed,
                     closing, shared, target, history>>
  BY <1>1 DEF Settle, Settled
<1>3. /\ t \in Processes /\ t \notin Callers /\ t # None /\ s \in Schedulers /\ s # None
      /\ s \notin destroyed /\ mutex[s] = t /\ target[t] = None
  BY <1>1, <1>2, PlaceIs, AllStand, SchedulerAssumption DEF Stands, Leaving, Aiming, Inside, Processes
<1>4. /\ pc'[t] = "loop" /\ at'[t] = None /\ mutex'[s] = None
      /\ \A q \in Processes \ {t} : pc'[q] = pc[q] /\ at'[q] = at[q]
      /\ \A r \in Schedulers \ {s} : mutex'[r] = mutex[r]
  BY <1>2, <1>3 DEF IInv, Positions
<1>5. Positions' /\ MutexOK'
  <2>1. pc' \in [Processes -> Places] /\ at' \in [Processes -> Schedulers \cup {None}]
        /\ mutex' \in [Schedulers -> Processes \cup {None}]
    BY <1>2, <1>3 DEF IInv, Positions, Places
  <2>2. Stands(t)'
    BY <1>2, <1>3, <1>4, <2>1 DEF Stands, Leaving, Inside, Aiming, ThreadPlaces
  <2>3. Moves(t)
    BY <1>2, <1>3, <1>4, <2>1, <2>2 DEF Moves, Aside, IInv, Positions
  <2>4. QED BY <2>3, MovesKeepPositions
<1>6. Lists' /\ ListsOK'
  <2>1. ASSUME NEW u \in Threads PROVE GoesOn(u) /\ (pc'[u] \in {"spin", "release"} => at'[u] = at[u])
    BY <1>4 DEF GoesOn, Processes
  <2>2. QED BY <1>2, <2>1, ListsStay DEF shared
<1>7. Back(s) /\ fromShared[s] > 0
  <2>1. Back(s)
    BY <1>1 DEF Back
  <2>2. QED BY <1>3, <2>1, CountersAre DEF Counted
<1>8. ~Back(s)'
  <2>1. ASSUME NEW u \in Threads PROVE at'[u] # s
    <3>1. CASE u = t
      BY <1>3, <1>4, <3>1
    <3>2. CASE u # t
      <4>1. at'[u] = at[u]
        BY <1>4, <3>2 DEF Processes
      <4>2. at[u] = s => mutex[s] = u
        BY <1>3 DEF IInv, MutexOK
      <4>3. QED BY <1>3, <3>2, <4>1, <4>2
    <3>3. QED BY <3>1, <3>2
  <2>2. QED BY <2>1 DEF Back
<1>9. /\ runningCount[s] \in Nat /\ suspendedCount[s] \in Nat /\ yetToCreate[s] \in Nat
      /\ unusedCount[s] \in Nat /\ fromShared[s] \in Nat
      /\ ThreadCount[s] \in Nat /\ SharedThreads[s] \in Nat /\ Cardinality(running[s]) \in Nat
      /\ Counted(s)
  BY <1>3, CountersAre
<1>10. runningCount[s] = Cardinality(running[s]) + 1
  BY <1>7, <1>9 DEF Counted
<1>11. Counters'
  <2>1. runningCount[s] - 1 \in Nat /\ fromShared[s] - 1 \in Nat /\ unusedCount[s] + 1 \in Nat
    BY <1>7, <1>9, <1>10
  <2>2. QED BY <1>2, <2>1 DEF IInv, Counters
<1>12. Counted(s)'
  <2>1. /\ runningCount'[s] = runningCount[s] - 1 /\ suspendedCount'[s] = suspendedCount[s]
        /\ unusedCount'[s] = unusedCount[s] + 1 /\ yetToCreate'[s] = yetToCreate[s]
        /\ fromShared'[s] = fromShared[s] - 1 /\ destroyed' = destroyed
        /\ suspended' = suspended /\ running' = running
    BY <1>2, <1>3 DEF IInv, Counters
  <2>2. runningCount'[s] = Cardinality(running'[s]) + IF Back(s)' THEN 1 ELSE 0
    BY <1>8, <1>9, <1>10, <2>1
  <2>3. unusedCount'[s] + fromShared'[s] = suspendedCount'[s] + yetToCreate'[s] + SharedThreads[s]
    <3>1. /\ fromShared[s] \in Nat /\ unusedCount[s] \in Nat
          /\ suspendedCount[s] + yetToCreate[s] \in Nat /\ SharedThreads[s] \in Nat
      BY <1>9
    <3>2. fromShared[s] + unusedCount[s] = (suspendedCount[s] + yetToCreate[s]) + SharedThreads[s]
      BY <1>9 DEF Counted
    <3>3. (fromShared[s] - 1) + (unusedCount[s] + 1) = (suspendedCount[s] + yetToCreate[s]) + SharedThreads[s]
      BY ONLY <3>1, <3>2, SumsMoveOver
    <3>4. fromShared[s] - 1 \in Int /\ unusedCount[s] + 1 \in Int
      BY <3>1
    <3>5. QED BY <2>1, <3>3, <3>4
  <2>4. runningCount'[s] + unusedCount'[s] = ThreadCount[s] + SharedThreads[s]
    <3>1. /\ runningCount[s] \in Nat /\ unusedCount[s] \in Nat
          /\ ThreadCount[s] \in Nat /\ SharedThreads[s] \in Nat
      BY <1>9
    <3>2. runningCount[s] + unusedCount[s] = ThreadCount[s] + SharedThreads[s]
      BY <1>9 DEF Counted
    <3>3. (runningCount[s] - 1) + (unusedCount[s] + 1) = ThreadCount[s] + SharedThreads[s]
      BY ONLY <3>1, <3>2, SumsMoveOver
    <3>4. QED BY ONLY <2>1, <3>3
  <2>5. suspended[s] = <<>>
    BY <1>7, <1>9 DEF Counted
  <2>6. (s \notin destroyed' => suspendedCount'[s] = Len(suspended'[s])) /\ yetToCreate'[s] <= ThreadCount[s]
    BY <1>9, <2>1 DEF Counted
  <2>7. QED BY <1>8, <2>1, <2>2, <2>3, <2>4, <2>5, <2>6 DEF Counted
<1>13. ASSUME NEW r \in Schedulers \ {s} PROVE Counted(r)'
  <2>1. UNCHANGED <<runningCount[r], suspendedCount[r], yetToCreate[r], fromShared[r],
                    unusedCount[r], running[r], suspended[r]>>
    BY <1>2 DEF IInv, Counters
  <2>2. Back(r)' <=> Back(r)
    <3>1. r # None
      BY SchedulerAssumption
    <3>2. \A u \in Threads : at'[u] = r <=> at[u] = r
      BY <1>1, <1>4, <3>1 DEF Processes
    <3>3. QED BY <3>2 DEF Back
  <2>3. QED BY <1>2, <2>1, <2>2, OthersStayCounted
<1>14. CountersOK'
  BY <1>12, <1>13 DEF CountersOK
<1>15. Loans' /\ ThreadsAreCounted'
  <2>1. IsFiniteSet(Debts') /\ Cardinality(Debts') = Cardinality(Debts) - 1
    BY <1>2, <1>3, <1>7, DebtIsRemoved
  <2>2. Returned' = Returned \ {t} /\ t \in Returned /\ Returned \subseteq Threads
    BY <1>1, <1>2, <1>3, <1>4 DEF Returned, Processes
  <2>3. Cardinality(Returned') = Cardinality(Returned) - 1 /\ Cardinality(Returned) \in Nat
    <3>1. PICK was : was = Returned
      OBVIOUS
    <3>2. IsFiniteSet(was) /\ t \in was
      BY <2>2, <3>1, FS_Subset, SchedulerAssumption
    <3>3. Cardinality(was \ {t}) = Cardinality(was) - 1
      BY <3>2, FS_RemoveElement
    <3>4. Cardinality(was) \in Nat
      BY <3>2, FS_CardinalityType
    <3>5. QED BY <2>2, <3>1, <3>3, <3>4
  <2>4. allocCount \in Nat /\ Cardinality(Debts) = allocCount + Cardinality(Returned)
    BY DEF IInv, Loans, ThreadsAreCounted
  <2>5. UNCHANGED <<pool, allocCount, poolYetToCreate>>
    BY <1>2 DEF shared
  <2>6. Cardinality(Debts') = allocCount' + Cardinality(Returned')
    BY <2>1, <2>3, <2>4, <2>5
  <2>7. QED BY <2>1, <2>5, <2>6 DEF IInv, Loans, ThreadsAreCounted
<1>16. Flags' /\ StarvingOK'
  <2>1. ~Notifying(t) /\ ~Notifying(t)'
    BY <1>2, <1>4 DEF Notifying
  <2>2. \A p \in Processes : Notifying(p)' <=> Notifying(p)
    BY <1>4, <2>1 DEF Notifying
  <2>3. QED BY <1>2, <2>2, StarvingStays DEF shared, history
<1>17. DestroyOK'
  <2>1. \A c \in Callers : pc'[c] = pc[c] /\ at'[c] = at[c]
    BY <1>3, <1>4 DEF Processes
  <2>2. QED BY <1>2, <2>1, DestroyStays DEF IInv, DestroyOK
<1>18. DestroyedIsForgotten'
  <2>1. None \notin destroyed /\ destroyed \subseteq Schedulers
    BY SchedulerAssumption DEF IInv, Flags
  <2>2. \A r \in destroyed : fromShared'[r] = fromShared[r] /\ mutex'[r] = mutex[r]
    BY <1>2, <1>3, <1>4, <2>1 DEF IInv, Counters
  <2>3. \A u \in Threads : at'[u] = at[u] \/ at'[u] \notin destroyed
    BY <1>4, <2>1 DEF Processes
  <2>4. QED BY <1>2, <2>2, <2>3, ForgottenStays DEF shared
<1>19. WaitingOK'
  <2>1. \A u \in Threads : pc'[u] \in {"some", "woken"} <=> pc[u] \in {"some", "woken"}
    BY <1>2, <1>4 DEF Processes
  <2>2. QED BY <1>2, <2>1, WaitingStays
<1>20. Calling'
  BY <1>2, <1>3 DEF IInv, Calling, history
<1>21. QED
  BY <1>5, <1>6, <1>11, <1>14, <1>15, <1>16, <1>17, <1>18, <1>19, <1>20 DEF IInv

-----------------------------------------------------------------------------
(* The methods                                                               *)

\* Who calls a scheduler has nothing to do with another one, and the scheduler is
\* not being destroyed.
LEMMA CallerIs ==
  ASSUME IInv, NEW c \in Callers, NEW s \in Schedulers, Calls(c, s)
  PROVE  /\ c \in Processes /\ c \notin Threads /\ c # None /\ s # None
         /\ pc[c] = "idle" /\ mutex[s] = None /\ s \notin closing /\ s \notin destroyed
         /\ at[c] = None /\ target[c] = None
<1>1. c \in Processes /\ c \notin Threads /\ c # None /\ s # None
  BY SchedulerAssumption DEF Processes
<1>2. pc[c] = "idle" /\ mutex[s] = None /\ s \notin closing /\ s \notin destroyed
  BY DEF Calls, IInv, Flags
<1>3. QED BY <1>1, <1>2, AllStand DEF Stands, Aiming, Inside

\* A caller that only changes numbers does nobody harm.
LEMMA NumbersKeep ==
  ASSUME IInv, NEW c \in Callers, NEW s \in Schedulers, Calls(c, s),
         \A r \in closing : stopCount'[r] = 0 \/ queue'[r] = 0,
         UNCHANGED <<threads, starved, shared, hungry, waitingThreads, threadIsIdle,
                     destroyed, closing, at, pc, mutex, target>>
  PROVE  Core' /\ Flags' /\ StarvingOK' /\ DestroyOK' /\ DestroyedIsForgotten' /\ WaitingOK'
<1>1. /\ c \in Processes /\ c \notin Threads /\ pc[c] = "idle" /\ mutex[s] = None
      /\ s \notin destroyed /\ target[c] = None
  BY CallerIs
<1>2. /\ pc' = [pc EXCEPT ![c] = "idle"] /\ mutex' = [mutex EXCEPT ![s] = None]
      /\ target' = [target EXCEPT ![c] = None]
  BY <1>1 DEF IInv, Positions
<1>3. QED BY <1>1, <1>2, LeavingKeeps

\* A caller that schedules a job allocates a thread for it, or leaves it to others.
LEMMA ScheduleKeeps ==
  ASSUME IInv, NEW c \in Callers, NEW s \in Schedulers, Schedule(c, s) PROVE IInv'
<1>1. /\ Calls(c, s) /\ scheduled < MaxJobs /\ scheduled' = scheduled + 1
      /\ emptyEvent' \subseteq emptyEvent
      /\ queue' = [queue EXCEPT ![s] = queue[s] + 1]
      /\ \/ stopCount[s] = 0 /\ WantsThread(s) /\ AllocateThread(s, c, "idle", "idle")
         \/ UNCHANGED <<threads, starved, shared, pc, hungry>>
      /\ Keep(s, c)
      /\ UNCHANGED <<stopCount, threadIsIdle, waitingThreads, destroyed, closing, at, stops>>
  BY DEF Schedule
<1>2. /\ c \in Processes /\ c \notin Threads /\ pc[c] = "idle" /\ mutex[s] = None
      /\ s \notin closing /\ s \notin destroyed
  BY <1>1, CallerIs
<1>3. \A r \in closing : queue'[r] = queue[r]
  BY <1>1, <1>2 DEF IInv, Calling, Flags
<1>4. Calling'
  <2>1. scheduled' \in 0..MaxJobs
    BY <1>1, SchedulerAssumption DEF IInv, Calling
  <2>2. queue' \in [Schedulers -> Nat]
    BY <1>1 DEF IInv, Calling
  <2>3. QED BY <1>1, <2>1, <2>2 DEF IInv, Calling
<1>5. CASE WantsThread(s) /\ AllocateThread(s, c, "idle", "idle")
  <2>1. Allocates(s, c, "idle", "idle")
    BY <1>1, <1>2, <1>5 DEF Allocates, WantsThread
  <2>2. QED BY <1>3, <1>4, <2>1, AllocationKeeps
<1>6. CASE UNCHANGED <<threads, starved, shared, pc, hungry>>
  <2>1. mutex' = [mutex EXCEPT ![s] = None] /\ target' = [target EXCEPT ![c] = None]
    BY <1>1, <1>2, <1>6 DEF Keep
  <2>2. pc' = [pc EXCEPT ![c] = "idle"]
    BY <1>2, <1>6 DEF IInv, Positions
  <2>3. \A r \in closing : stopCount'[r] = 0 \/ queue'[r] = 0
    BY <1>1, <1>3 DEF IInv, DestroyOK
  <2>4. Core' /\ Flags' /\ StarvingOK' /\ DestroyOK' /\ DestroyedIsForgotten' /\ WaitingOK'
    BY <1>1, <1>2, <1>6, <2>1, <2>2, <2>3, LeavingKeeps
  <2>5. QED BY <1>4, <2>4 DEF IInv, Core
<1>7. QED BY <1>1, <1>5, <1>6

\* One that stops the scheduler, ...
LEMMA StopKeeps ==
  ASSUME IInv, NEW c \in Callers, NEW s \in Schedulers, Stop(c, s) PROVE IInv'
<1>1. /\ Calls(c, s) /\ stops < MaxStops /\ stops' = stops + 1
      /\ stopCount' = [stopCount EXCEPT ![s] = stopCount[s] + 1]
      /\ UNCHANGED <<queue, threads, starved, events, mutex, destroyed, closing, shared, pc,
                     at, target, scheduled, hungry>>
  BY DEF Stop
<1>2. \A r \in closing : stopCount'[r] = 0 \/ queue'[r] = 0
  BY <1>1, CallerIs DEF IInv, Calling, Flags, DestroyOK
<1>3. Core' /\ Flags' /\ StarvingOK' /\ DestroyOK' /\ DestroyedIsForgotten' /\ WaitingOK'
  BY <1>1, <1>2, NumbersKeep DEF events
<1>4. Calling'
  <2>1. stops' \in 0..MaxStops
    BY <1>1, SchedulerAssumption DEF IInv, Calling
  <2>2. stopCount' \in [Schedulers -> Nat]
    BY <1>1 DEF IInv, Calling
  <2>3. QED BY <1>1, <2>1, <2>2 DEF IInv, Calling, events
<1>5. QED BY <1>3, <1>4 DEF IInv, Core

\* ... or removes jobs.
LEMMA RemoveKeeps ==
  ASSUME IInv, NEW c \in Callers, NEW s \in Schedulers, NEW watermark \in Watermarks,
         RemoveJobFromQueue(c, s, watermark)
  PROVE  IInv'
<1>1. /\ Calls(c, s) /\ queue' = [queue EXCEPT ![s] = watermark]
      /\ UNCHANGED <<threads, starved, stopCount, events, mutex, destroyed, closing, shared,
                     pc, at, target, history>>
  BY DEF RemoveJobFromQueue
<1>2. \A r \in closing : stopCount'[r] = 0 \/ queue'[r] = 0
  BY <1>1, CallerIs DEF IInv, Calling, Flags, DestroyOK
<1>3. Core' /\ Flags' /\ StarvingOK' /\ DestroyOK' /\ DestroyedIsForgotten' /\ WaitingOK'
  BY <1>1, <1>2, NumbersKeep DEF events, history
<1>4. Calling'
  <2>1. watermark \in Nat
    BY SchedulerAssumption
  <2>2. queue' \in [Schedulers -> Nat]
    BY <1>1, <2>1 DEF IInv, Calling
  <2>3. QED BY <1>1, <2>2 DEF IInv, Calling, events, history
<1>5. QED BY <1>3, <1>4 DEF IInv, Core

\* The last Resume stays in the critical section that nobody is in.
LEMMA ResumeKeeps ==
  ASSUME IInv, NEW c \in Callers, NEW s \in Schedulers, Resume(c, s) PROVE IInv'
<1>1. /\ Calls(c, s) /\ stopCount[s] > 0
      /\ stopCount' = [stopCount EXCEPT ![s] = stopCount[s] - 1]
      /\ pc' = [pc EXCEPT ![c] = IF stopCount[s] = 1 THEN "resume" ELSE "idle"]
      /\ Keep(s, c)
      /\ UNCHANGED <<queue, threads, starved, events, destroyed, closing, shared, at, history>>
  BY DEF Resume
<1>2. /\ c \in Processes /\ c \notin Threads /\ c # None /\ s # None
      /\ pc[c] = "idle" /\ mutex[s] = None
      /\ s \notin closing /\ s \notin destroyed /\ at[c] = None /\ target[c] = None
  BY <1>1, CallerIs
<1>3. \A r \in closing : stopCount'[r] = 0 \/ queue'[r] = 0
  BY <1>1, <1>2 DEF IInv, Calling, Flags, DestroyOK
<1>4. Calling'
  <2>1. stopCount' \in [Schedulers -> Nat]
    BY <1>1 DEF IInv, Calling
  <2>2. QED BY <1>1, <2>1 DEF IInv, Calling, events, history
<1>5. CASE stopCount[s] # 1
  <2>1. pc' = [pc EXCEPT ![c] = "idle"] /\ pc'[c] = "idle"
    BY <1>1, <1>2, <1>5 DEF IInv, Positions
  <2>2. mutex' = [mutex EXCEPT ![s] = None] /\ target' = [target EXCEPT ![c] = None]
    BY <1>1, <2>1 DEF Keep
  <2>3. Core' /\ Flags' /\ StarvingOK' /\ DestroyOK' /\ DestroyedIsForgotten' /\ WaitingOK'
    BY <1>1, <1>2, <1>3, <2>1, <2>2, LeavingKeeps DEF events, history
  <2>4. QED BY <1>4, <2>3 DEF IInv, Core
<1>6. CASE stopCount[s] = 1
  <2>1. /\ pc' = [pc EXCEPT ![c] = "resume"] /\ pc'[c] = "resume"
        /\ \A q \in Processes \ {c} : pc'[q] = pc[q]
    BY <1>1, <1>2, <1>6 DEF IInv, Positions
  <2>2. mutex' = [mutex EXCEPT ![s] = c] /\ target' = [target EXCEPT ![c] = s]
    BY <1>1, <2>1 DEF Keep
  <2>3. /\ mutex'[s] = c /\ \A r \in Schedulers \ {s} : mutex'[r] = mutex[r]
        /\ target'[c] = s /\ \A q \in Processes \ {c} : target'[q] = target[q]
    BY <1>2, <2>2 DEF IInv, Positions
  <2>4. Core'
    <3>1. /\ mutex' \in [Schedulers -> Processes \cup {None}] /\ pc' \in [Processes -> Places]
          /\ at' \in [Processes -> Schedulers \cup {None}]
          /\ target' \in [Processes -> Schedulers \cup {None}]
      BY <1>1, <1>2, <2>1, <2>2 DEF IInv, Positions, Places
    <3>2. Stands(c)'
      BY <1>1, <1>2, <2>1, <2>3, <3>1 DEF Stands, CallerPlaces, Aiming, Inside
    <3>3. Moves(c)
      BY <1>1, <1>2, <2>1, <2>3, <3>1, <3>2 DEF Moves, Aside
    <3>4. UNCHANGED <<counters, running, suspended, owner, resumed, pool, allocCount, poolYetToCreate>>
      BY <1>1 DEF threads, shared
    <3>5. QED BY <1>1, <1>2, <2>1, <3>3, <3>4, CoreStays
  <2>5. Flags' /\ StarvingOK'
    <3>1. ~Notifying(c) /\ ~Notifying(c)'
      BY <1>2, <2>1 DEF Notifying
    <3>2. \A q \in Processes : (Notifying(q)' <=> Notifying(q)) /\ (Notifying(q) => target'[q] = target[q])
      BY <2>1, <2>3, <3>1 DEF Notifying
    <3>3. QED BY <1>1, <3>2, StarvingStays DEF shared, history
  <2>6. DestroyOK'
    <3>1. \A d \in Callers :
            /\ at[d] # None /\ pc'[d] # "spin" => pc[d] # "spin"
            /\ target'[d] = target[d] \/ target'[d] \notin closing
      BY <1>2, <2>1, <2>3 DEF Processes
    <3>2. QED BY <1>1, <1>3, <3>1, DestroyStays
  <2>7. DestroyedIsForgotten'
    <3>1. \A t \in Threads : target'[t] = target[t]
      BY <1>2, <2>3 DEF Processes
    <3>2. \A r \in destroyed : mutex'[r] = mutex[r]
      BY <1>2, <2>3 DEF IInv, Flags
    <3>3. QED BY <1>1, <3>1, <3>2, ForgottenStays DEF threads, counters, shared
  <2>8. WaitingOK'
    <3>1. \A t \in Threads : pc'[t] = pc[t]
      BY <1>2, <2>1 DEF Processes
    <3>2. QED BY <1>1, <3>1, WaitingStays DEF threads, events
  <2>9. QED BY <1>4, <2>4, <2>5, <2>6, <2>7, <2>8 DEF IInv, Core
<1>7. QED BY <1>5, <1>6

\* Its loop allocates threads, or ends.
LEMMA GrowResumedKeeps == ASSUME IInv, NEW c \in Callers, GrowResumed(c) PROVE IInv'
<1>1. PICK s : s = target[c]
  OBVIOUS
<1>2. /\ pc[c] = "resume" /\ Keep(s, c)
      /\ \/ WantsMore(s) /\ AllocateThread(s, c, "resume", "idle")
         \/ pc' = [pc EXCEPT ![c] = "idle"] /\ UNCHANGED <<threads, starved, shared, hungry>>
      /\ UNCHANGED <<queue, stopCount, events, destroyed, closing, at, scheduled, stops>>
  BY <1>1 DEF GrowResumed
<1>3. /\ c \in Processes /\ c \notin Threads /\ s \in Schedulers /\ s \notin destroyed
      /\ mutex[s] = c
  BY <1>1, <1>2, TargetIs, SchedulerAssumption DEF Aiming, Inside, Processes
<1>4. Calling'
  BY <1>2 DEF IInv, Calling, events
<1>5. CASE WantsMore(s) /\ AllocateThread(s, c, "resume", "idle")
  <2>1. Allocates(s, c, "resume", "idle")
    BY <1>1, <1>2, <1>3, <1>5 DEF Allocates, WantsMore, events
  <2>2. QED BY <1>2, <1>4, <2>1, AllocationKeeps
<1>6. CASE pc' = [pc EXCEPT ![c] = "idle"] /\ UNCHANGED <<threads, starved, shared, hungry>>
  <2>1. pc'[c] = "idle"
    BY <1>3, <1>6 DEF IInv, Positions
  <2>2. mutex' = [mutex EXCEPT ![s] = None] /\ target' = [target EXCEPT ![c] = None]
    BY <1>2, <2>1 DEF Keep
  <2>3. \A r \in closing : stopCount'[r] = 0 \/ queue'[r] = 0
    BY <1>2 DEF IInv, DestroyOK
  <2>4. UNCHANGED <<waitingThreads, threadIsIdle>>
    BY <1>2 DEF events
  <2>5. Core' /\ Flags' /\ StarvingOK' /\ DestroyOK' /\ DestroyedIsForgotten' /\ WaitingOK'
    BY <1>2, <1>3, <1>6, <2>2, <2>3, <2>4, LeavingKeeps
  <2>6. QED BY <1>4, <2>5 DEF IInv, Core
<1>7. QED BY <1>2, <1>5, <1>6

\* A caller that changes its place only, between two schedulers' critical sections.
LEMMA WalkKeeps ==
  ASSUME IInv, NEW c \in Callers, NEW to \in CallerPlaces \ Aiming, NEW s \in Schedulers \cup {None},
         s # None <=> to \in {"spin", "drain", "empty"},
         pc[c] \notin Aiming,
         pc' = [pc EXCEPT ![c] = to], at' = [at EXCEPT ![c] = s],
         UNCHANGED <<threads, mutex, shared, destroyed, target, waitingThreads, threadIsIdle>>
  PROVE  /\ Core' /\ WaitingOK' /\ DestroyedIsForgotten'
         /\ \A q \in Processes : Notifying(q)' <=> Notifying(q)
         /\ pc'[c] = to /\ at'[c] = s
         /\ \A q \in Processes \ {c} : pc'[q] = pc[q] /\ at'[q] = at[q]
<1>1. c \in Processes /\ c \notin Threads
  BY SchedulerAssumption DEF Processes
<1>2. /\ pc'[c] = to /\ at'[c] = s
      /\ \A q \in Processes \ {c} : pc'[q] = pc[q] /\ at'[q] = at[q]
  BY <1>1 DEF IInv, Positions
<1>3. Core'
  <2>1. /\ to \in Places /\ pc' \in [Processes -> Places]
        /\ at' \in [Processes -> Schedulers \cup {None}]
    BY <1>1 DEF IInv, Positions, Places, CallerPlaces
  <2>2. Stands(c)'
    BY <1>1, <1>2, <2>1, AllStand DEF Stands, Aiming
  <2>3. Moves(c)
    BY <1>1, <1>2, <2>1, <2>2 DEF Moves, Aside, IInv, Positions
  <2>4. UNCHANGED <<counters, running, suspended, owner, resumed, pool, allocCount, poolYetToCreate>>
    BY DEF threads, shared
  <2>5. QED BY <1>1, <1>2, <2>3, <2>4, CoreStays
<1>4. \A q \in Processes : Notifying(q)' <=> Notifying(q)
  BY <1>2 DEF Notifying, Aiming, Inside
<1>5. WaitingOK'
  <2>1. \A t \in Threads : pc'[t] = pc[t]
    BY <1>1, <1>2 DEF Processes
  <2>2. QED BY <2>1, WaitingStays DEF threads
<1>6. DestroyedIsForgotten'
  <2>1. \A t \in Threads : at'[t] = at[t]
    BY <1>1, <1>2 DEF Processes
  <2>2. QED BY <2>1, ForgottenStays DEF threads, counters, shared
<1>7. QED BY <1>2, <1>3, <1>4, <1>5, <1>6

\* Who begins to wait for an empty queue has called an open scheduler, ...
LEMMA WaitForEmptyQueueKeeps ==
  ASSUME IInv, NEW c \in Callers, NEW s \in Schedulers, WaitForEmptyQueue(c, s) PROVE IInv'
<1>1. /\ Calls(c, s) /\ at' = [at EXCEPT ![c] = s] /\ pc' = [pc EXCEPT ![c] = "drain"]
      /\ UNCHANGED <<queue, threads, starved, stopCount, events, mutex, destroyed, closing,
                     shared, target, history>>
  BY DEF WaitForEmptyQueue
<1>2. /\ c \in Processes /\ s # None /\ pc[c] = "idle" /\ s \notin closing /\ s \notin destroyed
  BY <1>1, CallerIs
<1>3. /\ Core' /\ WaitingOK' /\ DestroyedIsForgotten'
      /\ \A q \in Processes : Notifying(q)' <=> Notifying(q)
      /\ at'[c] = s /\ \A q \in Processes \ {c} : pc'[q] = pc[q] /\ at'[q] = at[q]
  <2>1. "drain" \in CallerPlaces \ Aiming /\ pc[c] \notin Aiming
    BY <1>2 DEF CallerPlaces, Aiming, Inside
  <2>2. UNCHANGED <<waitingThreads, threadIsIdle>>
    BY <1>1 DEF events
  <2>3. QED BY <1>1, <1>2, <2>1, <2>2, WalkKeeps
<1>4. Flags' /\ StarvingOK'
  BY <1>1, <1>3, StarvingStays DEF shared, history
<1>5. DestroyOK'
  <2>1. \A d \in Callers : (d = c /\ at'[d] \notin closing /\ at'[d] \notin destroyed) \/ (at'[d] = at[d] /\ pc'[d] = pc[d])
    BY <1>2, <1>3 DEF Processes
  <2>2. QED BY <1>1, <2>1 DEF IInv, DestroyOK
<1>6. Calling'
  BY <1>1 DEF IInv, Calling, events, history
<1>7. QED BY <1>3, <1>4, <1>5, <1>6 DEF IInv, Core

\* ... and the destructor begins when nobody else is in it.
LEMMA DestroyKeeps ==
  ASSUME IInv, NEW c \in Callers, NEW s \in Schedulers, Destroy(c, s) PROVE IInv'
<1>1. /\ Calls(c, s) /\ (stopCount[s] = 0 \/ queue[s] = 0)
      /\ \A d \in Callers : at[d] # s /\ target[d] # s
      /\ closing' = closing \cup {s}
      /\ at' = [at EXCEPT ![c] = s] /\ pc' = [pc EXCEPT ![c] = "spin"]
      /\ UNCHANGED <<queue, threads, starved, stopCount, events, mutex, destroyed, shared,
                     target, history>>
  BY DEF Destroy
<1>2. /\ c \in Processes /\ s # None /\ pc[c] = "idle" /\ s \notin closing /\ s \notin destroyed
  BY <1>1, CallerIs
<1>3. /\ Core' /\ WaitingOK' /\ DestroyedIsForgotten'
      /\ \A q \in Processes : Notifying(q)' <=> Notifying(q)
      /\ pc'[c] = "spin" /\ at'[c] = s
      /\ \A q \in Processes \ {c} : pc'[q] = pc[q] /\ at'[q] = at[q]
  <2>1. "spin" \in CallerPlaces \ Aiming /\ pc[c] \notin Aiming
    BY <1>2 DEF CallerPlaces, Aiming, Inside
  <2>2. UNCHANGED <<waitingThreads, threadIsIdle>>
    BY <1>1 DEF events
  <2>3. QED BY <1>1, <1>2, <2>1, <2>2, WalkKeeps
<1>4. Flags'
  BY <1>1 DEF IInv, Flags, shared, history
<1>5. StarvingOK'
  BY <1>1, <1>3 DEF IInv, StarvingOK, shared
<1>6. DestroyOK'
  <2>1. \A d \in Callers \ {c} : at'[d] = at[d] /\ pc'[d] = pc[d] /\ at[d] # s
    BY <1>1, <1>3 DEF Processes
  <2>2. \A r \in closing' : stopCount'[r] = 0 \/ queue'[r] = 0
    BY <1>1 DEF IInv, DestroyOK
  <2>3. \A r \in closing' : \A d \in Callers : target'[d] # r
    BY <1>1 DEF IInv, DestroyOK
  <2>4. \A r \in closing' : \A d, e \in Callers : at'[d] = r /\ at'[e] = r => d = e
    <3> SUFFICES ASSUME NEW r \in closing', NEW d \in Callers, NEW e \in Callers,
                        at'[d] = r, at'[e] = r
                 PROVE  d = e
      OBVIOUS
    <3>1. CASE r = s
      BY <2>1, <3>1
    <3>2. CASE r # s
      BY <1>1, <1>3, <2>1, <3>2 DEF IInv, DestroyOK
    <3>3. QED BY <3>1, <3>2
  <2>5. \A d \in Callers : at'[d] \in closing' /\ pc'[d] # "spin" => ~starved'[at'[d]]
    BY <1>1, <1>3, <2>1 DEF IInv, DestroyOK
  <2>6. \A r \in destroyed' : ~starved'[r] /\ \A d \in Callers : at'[d] # r
    BY <1>1, <1>2, <1>3, <2>1 DEF IInv, DestroyOK
  <2>7. QED BY <2>2, <2>3, <2>4, <2>5, <2>6 DEF DestroyOK
<1>7. Calling'
  BY <1>1 DEF IInv, Calling, events, history
<1>8. QED BY <1>3, <1>4, <1>5, <1>6, <1>7 DEF IInv, Core

\* A caller that is woken looks again.
LEMMA WakeEmptyKeeps == ASSUME IInv, NEW c \in Callers, WakeEmpty(c) PROVE IInv'
<1>1. /\ pc[c] = "empty" /\ pc' = [pc EXCEPT ![c] = "drain"]
      /\ UNCHANGED <<queue, threads, starved, stopCount, events, mutex, destroyed, closing,
                     shared, at, target, history>>
  BY DEF WakeEmpty
<1>2. PICK s : s = at[c]
  OBVIOUS
<1>3. c \in Processes /\ c \notin Threads /\ s \in Schedulers /\ s # None
  BY <1>1, <1>2, AllStand, SchedulerAssumption DEF Stands, Processes
<1>4. at' = [at EXCEPT ![c] = s]
  BY <1>1, <1>2, <1>3 DEF IInv, Positions
<1>5. /\ Core' /\ WaitingOK' /\ DestroyedIsForgotten'
      /\ \A q \in Processes : Notifying(q)' <=> Notifying(q)
      /\ \A q \in Processes \ {c} : pc'[q] = pc[q]
  <2>1. "drain" \in CallerPlaces \ Aiming /\ pc[c] \notin Aiming
    BY <1>1 DEF CallerPlaces, Aiming, Inside
  <2>2. UNCHANGED <<waitingThreads, threadIsIdle>>
    BY <1>1 DEF events
  <2>3. QED BY <1>1, <1>3, <1>4, <2>1, <2>2, WalkKeeps
<1>6. Flags' /\ StarvingOK'
  BY <1>1, <1>5, StarvingStays DEF shared, history
<1>7. DestroyOK'
  <2>1. \A d \in Callers : pc'[d] # "spin" => pc[d] # "spin"
    BY <1>1, <1>5 DEF Processes
  <2>2. QED BY <1>1, <2>1, DestroyStays DEF IInv, DestroyOK
<1>8. Calling'
  BY <1>1 DEF IInv, Calling, events, history
<1>9. QED BY <1>5, <1>6, <1>7, <1>8 DEF IInv, Core

\* A scheduler whose count has fallen to zero has no thread and owes none.
LEMMA EmptyIsFree ==
  ASSUME IInv, NEW s \in Schedulers, s \notin destroyed, runningCount[s] = 0
  PROVE  running[s] = {} /\ fromShared[s] = 0 /\ ~Back(s)
<1>1. /\ suspendedCount[s] \in Nat /\ yetToCreate[s] \in Nat
      /\ fromShared[s] \in Nat /\ unusedCount[s] \in Nat
      /\ ThreadCount[s] \in Nat /\ SharedThreads[s] \in Nat
      /\ IsFiniteSet(running[s]) /\ Cardinality(running[s]) \in Nat /\ Counted(s)
  BY CountersAre
<1>2. Cardinality(running[s]) = 0 /\ ~Back(s)
  BY <1>1 DEF Counted
<1>3. running[s] = {}
  BY <1>1, <1>2, FS_EmptySet
<1>4. fromShared[s] = 0
  <2> SUFFICES ASSUME fromShared[s] > 0 PROVE FALSE
    BY <1>1
  <2>1. suspended[s] = <<>> /\ suspendedCount[s] = 0
    BY <1>1 DEF Counted
  <2>2. /\ unusedCount[s] + fromShared[s] = 0 + yetToCreate[s] + SharedThreads[s]
        /\ 0 + unusedCount[s] = ThreadCount[s] + SharedThreads[s]
        /\ yetToCreate[s] <= ThreadCount[s]
    BY <1>1, <2>1 DEF Counted
  <2>3. /\ yetToCreate[s] \in Nat /\ fromShared[s] \in Nat /\ unusedCount[s] \in Nat
        /\ ThreadCount[s] \in Nat /\ SharedThreads[s] \in Nat /\ fromShared[s] > 0
    BY <1>1
  <2>4. QED BY ONLY <2>2, <2>3
<1>5. QED BY <1>2, <1>3, <1>4

\* Nobody is in its critical section, and so nobody will be.
LEMMA FreeIsForgotten ==
  ASSUME IInv, NEW c \in Callers, NEW s \in Schedulers, s \in closing, at[c] = s, pc[c] = "drain",
         mutex[s] = None, runningCount[s] = 0
  PROVE  /\ s \notin destroyed /\ ~starved[s] /\ s \notin Range(starving)
         /\ running[s] = {} /\ fromShared[s] = 0
         /\ \A t \in Threads : at[t] # s /\ target[t] # s
<1>1. s \notin destroyed /\ ~starved[s]
  BY DEF IInv, DestroyOK
<1>2. running[s] = {} /\ fromShared[s] = 0 /\ ~Back(s)
  BY <1>1, EmptyIsFree
<1>3. s \notin Range(starving)
  BY <1>1 DEF IInv, StarvingOK
<1>4. ASSUME NEW t \in Threads PROVE target[t] # s
  <2>1. t \in Processes /\ t # None /\ s # None
    BY SchedulerAssumption DEF Processes
  <2>2. target[t] # None <=> pc[t] \in Aiming
    BY <2>1, AllStand DEF Stands
  <2>3. CASE pc[t] = "available"
    BY <1>1, <2>1, <2>3 DEF IInv, StarvingOK, Notifying
  <2>4. CASE pc[t] \in Inside
    BY <2>1, <2>4, AllStand DEF Stands
  <2>5. QED BY <2>1, <2>2, <2>3, <2>4 DEF Aiming
<1>5. QED BY <1>1, <1>2, <1>3, <1>4 DEF Back

\* The end of the destructor: the threads that are left end with it.
LEMMA EndingKeeps ==
  ASSUME IInv, NEW c \in Callers, NEW s \in Schedulers,
         s = at[c], pc[c] = "drain", mutex[s] = None, runningCount[s] = 0, s \in closing,
         \A r \in closing : stopCount[r] = 0 \/ queue'[r] = 0,
         pc' = [p \in Processes |->
                  IF p = c THEN "idle" ELSE IF p \in Range(suspended[s]) THEN "new" ELSE pc[p]],
         at' = [at EXCEPT ![c] = None], destroyed' = destroyed \cup {s},
         suspended' = [suspended EXCEPT ![s] = <<>>],
         UNCHANGED <<running, counters, owner, resumed, starved, stopCount, threadIsIdle,
                     waitingThreads, mutex, closing, shared, target, history>>,
         Calling'
  PROVE  IInv'
<1>1. /\ c \in Processes /\ c \notin Threads /\ c # None /\ s # None /\ None \notin Schedulers
      /\ target[c] = None
  BY AllStand, SchedulerAssumption DEF Stands, Aiming, Inside, Processes
<1>2. /\ s \notin destroyed /\ ~starved[s] /\ s \notin Range(starving)
      /\ running[s] = {} /\ fromShared[s] = 0
      /\ \A t \in Threads : at[t] # s /\ target[t] # s
  BY FreeIsForgotten
<1>3. \A t \in Range(suspended[s]) :
        t \in Threads /\ t \notin resumed /\ owner[t] = s /\ pc[t] = "loop"
  BY DEF IInv, Lists, ListsOK, Range
<1>4. /\ pc'[c] = "idle" /\ at'[c] = None
      /\ \A q \in Processes \ {c} : at'[q] = at[q]
      /\ \A q \in Processes \ {c} :
           pc'[q] = pc[q] \/ (q \in Range(suspended[s]) /\ pc[q] = "loop" /\ pc'[q] = "new")
      /\ \A q \in Processes \ {c} : q \notin Range(suspended[s]) => pc'[q] = pc[q]
  BY <1>1, <1>3 DEF IInv, Positions
<1>5. Positions' /\ MutexOK'
  <2>1. at' \in [Processes -> Schedulers \cup {None}]
    BY <1>1 DEF IInv, Positions
  <2>2. pc' \in [Processes -> Places]
    <3>1. \A q \in Processes : pc'[q] \in Places
      BY <1>4 DEF IInv, Positions, Places
    <3>2. pc' = [q \in Processes |-> pc'[q]]
      OBVIOUS
    <3>3. QED BY <3>1, <3>2
  <2>3. Stands(c)'
    BY <1>1, <1>4, <2>1, <2>2 DEF Stands, CallerPlaces, Aiming, Inside
  <2>4. \A q \in Processes \ {c} : Aside(q)
    BY <1>3, <1>4 DEF Aside
  <2>5. Moves(c)
    BY <1>1, <2>1, <2>2, <2>3, <2>4 DEF Moves, IInv, Positions
  <2>6. QED BY <2>5, MovesKeepPositions
<1>6. suspended'[s] = <<>> /\ \A r \in Schedulers \ {s} : suspended'[r] = suspended[r]
  BY DEF IInv, Lists
<1>7. Lists' /\ ListsOK'
  <2>1. pool' = pool
    BY DEF shared
  <2>2. Lists'
    BY <2>1 DEF IInv, Lists
  <2>3. Range(<<>>) = {} /\ IsInjective(<<>>)
    BY DEF Range, IsInjective
  <2>4. \A r \in Schedulers : IsInjective(suspended'[r])
    BY <1>6, <2>3 DEF IInv, ListsOK
  <2>5. ASSUME NEW r \in Schedulers, NEW u \in Range(suspended'[r])
        PROVE  u \notin resumed' /\ owner'[u] = r /\ pc'[u] = "loop"
    <3>1. r # s /\ u \in Range(suspended[r])
      BY <1>6, <2>3, <2>5
    <3>2. u \notin resumed /\ owner[u] = r /\ pc[u] = "loop"
      BY <3>1 DEF IInv, ListsOK
    <3>3. u \in Threads
      BY <3>1 DEF IInv, Lists, Range
    <3>4. u \notin Range(suspended[s])
      BY <1>3, <3>1, <3>2
    <3>5. QED BY <1>1, <1>4, <3>2, <3>3, <3>4 DEF Processes
  <2>6. ASSUME NEW u \in Range(pool')
        PROVE  u \notin resumed' /\ owner'[u] = None /\ pc'[u] \in ({"loop"} \cup Leaving) \ {"spin", "release"}
    <3>1. u \notin resumed /\ owner[u] = None /\ pc[u] \in ({"loop"} \cup Leaving) \ {"spin", "release"}
      BY <2>1 DEF IInv, ListsOK
    <3>2. u \in Threads
      BY <2>1 DEF IInv, Lists, Range
    <3>3. u \notin Range(suspended[s])
      BY <1>1, <1>3, <3>1
    <3>4. QED BY <1>1, <1>4, <3>1, <3>2, <3>3 DEF Processes
  <2>7. ASSUME NEW u \in Threads
        PROVE  /\ pc'[u] = "new" => u \notin resumed'
               /\ pc'[u] \in {"execute", "some", "woken", "ending"} => u \in resumed'
               /\ pc'[u] \in {"spin", "release"} => u \notin resumed' /\ owner'[u] = at'[u]
    <3>1. u \in Processes \ {c}
      BY <1>1 DEF Processes
    <3>2. CASE pc'[u] = pc[u]
      BY <1>4, <3>1, <3>2 DEF IInv, ListsOK
    <3>3. CASE u \in Range(suspended[s]) /\ pc'[u] = "new"
      BY <1>3, <3>3
    <3>4. QED BY <1>4, <3>1, <3>2, <3>3
  <2>8. QED BY <2>1, <2>2, <2>4, <2>5, <2>6, <2>7 DEF IInv, ListsOK
<1>8. \A r \in Schedulers : Back(r)' <=> Back(r)
  BY <1>1, <1>4 DEF Back, Processes
<1>9. Counters' /\ CountersOK'
  <2>1. Counters'
    BY DEF IInv, Counters, counters
  <2>2. Counted(s)'
    <3>1. Counted(s)
      BY CountersAre
    <3>2. UNCHANGED <<runningCount, suspendedCount, yetToCreate, fromShared, unusedCount, running>>
      BY DEF counters
    <3>3. s \in destroyed'
      OBVIOUS
    <3>4. QED BY <1>6, <1>8, <3>1, <3>2, <3>3 DEF Counted
  <2>3. ASSUME NEW r \in Schedulers \ {s} PROVE Counted(r)'
    <3>1. UNCHANGED <<runningCount[r], suspendedCount[r], yetToCreate[r], fromShared[r],
                      unusedCount[r], running[r], suspended[r]>>
      BY <1>6 DEF counters
    <3>2. QED BY <1>8, <3>1, OthersStayCounted
  <2>4. QED BY <2>1, <2>2, <2>3 DEF CountersOK
<1>10. Loans' /\ ThreadsAreCounted'
  <2>1. ASSUME NEW u \in Threads
        PROVE  at'[u] # None /\ pc'[u] \notin {"spin", "release"}
                 <=> at[u] # None /\ pc[u] \notin {"spin", "release"}
    BY <1>1, <1>4 DEF Processes
  <2>2. QED BY <2>1, LoansStay DEF shared, counters
<1>11. Flags'
  BY DEF IInv, Flags, shared, history
<1>12. \A q \in Processes : Notifying(q)' <=> Notifying(q)
  BY <1>4 DEF Notifying
<1>13. StarvingOK'
  BY <1>12 DEF IInv, StarvingOK, shared
<1>14. DestroyOK'
  <2>1. \A d \in Callers \ {c} : at'[d] = at[d] /\ pc'[d] = pc[d]
    <3>1. \A d \in Callers : d \in Processes /\ d \notin Threads
      BY SchedulerAssumption DEF Processes
    <3>2. QED BY <1>3, <1>4, <3>1
  <2>2. \A d \in Callers \ {c} : at[d] # s
    BY DEF IInv, DestroyOK
  <2>3. None \notin closing /\ None \notin destroyed
    BY <1>1 DEF IInv, Flags
  <2>4. \A r \in closing' : stopCount'[r] = 0 \/ queue'[r] = 0
    OBVIOUS
  <2>5. \A r \in closing' : \A d \in Callers : target'[d] # r
    BY DEF IInv, DestroyOK
  <2>6. \A r \in closing' : \A d, e \in Callers : at'[d] = r /\ at'[e] = r => d = e
    BY <1>4, <2>1, <2>3 DEF IInv, DestroyOK
  <2>7. \A d \in Callers : at'[d] \in closing' /\ pc'[d] # "spin" => ~starved'[at'[d]]
    BY <1>4, <2>1, <2>3 DEF IInv, DestroyOK
  <2>8. \A r \in destroyed' : ~starved'[r] /\ \A d \in Callers : at'[d] # r
    BY <1>1, <1>2, <1>4, <2>1, <2>2, <2>3 DEF IInv, DestroyOK
  <2>9. QED BY <2>4, <2>5, <2>6, <2>7, <2>8 DEF DestroyOK
<1>15. DestroyedIsForgotten'
  <2>1. \A t \in Threads : at'[t] = at[t]
    BY <1>1, <1>4 DEF Processes
  <2>2. UNCHANGED <<running, fromShared, mutex, starving, target>>
    BY DEF counters, shared
  <2>3. QED BY <1>2, <2>1, <2>2 DEF IInv, DestroyedIsForgotten
<1>16. WaitingOK'
  <2>1. ASSUME NEW u \in Threads PROVE pc'[u] \in {"some", "woken"} <=> pc[u] \in {"some", "woken"}
    BY <1>1, <1>4 DEF Processes
  <2>2. QED BY <2>1, WaitingStays
<1>17. QED
  BY <1>5, <1>7, <1>9, <1>10, <1>11, <1>13, <1>14, <1>15, <1>16 DEF IInv

\* Waiting for an empty queue goes on, or ends, and with it the destructor.
LEMMA DrainKeeps == ASSUME IInv, NEW c \in Callers, Drain(c) PROVE IInv'
<1>1. PICK s : s = at[c]
  OBVIOUS
<1>2. pc[c] = "drain" /\ mutex[s] = None
  BY <1>1 DEF Drain
<1>3. c \in Processes /\ c \notin Threads /\ s \in Schedulers /\ s # None
  BY <1>1, <1>2, AllStand, SchedulerAssumption DEF Stands, Processes
<1> DEFINE left == IF stopCount[s] = 0 THEN queue[s] ELSE 0
           empty == runningCount[s] = 0 /\ left = 0
           ended == empty /\ s \in closing
<1>4. /\ queue' = [queue EXCEPT ![s] = left]
      /\ emptyEvent' = IF empty THEN emptyEvent ELSE emptyEvent \ {s}
      /\ pc' = [p \in Processes |->
                  IF p = c THEN IF empty THEN "idle" ELSE "empty"
                  ELSE IF ended /\ p \in Range(suspended[s]) THEN "new"
                  ELSE pc[p]]
      /\ at' = [at EXCEPT ![c] = IF empty THEN None ELSE s]
      /\ destroyed' = IF ended THEN destroyed \cup {s} ELSE destroyed
      /\ suspended' = IF ended THEN [suspended EXCEPT ![s] = <<>>] ELSE suspended
      /\ UNCHANGED <<running, counters, owner, resumed, starved, stopCount, threadIsIdle,
                     waitingThreads, mutex, closing, shared, target, history>>
  BY <1>1 DEF Drain
<1>5. \A r \in closing : stopCount[r] = 0 \/ queue'[r] = 0
  <2>1. ASSUME NEW r \in closing PROVE stopCount[r] = 0 \/ queue'[r] = 0
    <3>1. r \in Schedulers /\ queue \in [Schedulers -> Nat]
      BY DEF IInv, Flags, Calling
    <3>2. CASE r = s
      BY <1>4, <3>1, <3>2
    <3>3. CASE r # s
      BY <1>4, <3>1, <3>3 DEF IInv, DestroyOK
    <3>4. QED BY <3>2, <3>3
  <2>2. QED BY <2>1
<1>6. Calling'
  <2>1. left \in Nat
    BY <1>3 DEF IInv, Calling
  <2>2. queue' \in [Schedulers -> Nat] /\ emptyEvent' \subseteq Schedulers
    BY <1>4, <2>1 DEF IInv, Calling
  <2>3. QED BY <1>4, <2>2 DEF IInv, Calling, history
<1>7. CASE ended
  BY <1>1, <1>2, <1>3, <1>4, <1>5, <1>6, <1>7, EndingKeeps
<1>8. CASE ~ended
  <2>1. PICK to, place : to = (IF empty THEN "idle" ELSE "empty") /\ place = (IF empty THEN None ELSE s)
    OBVIOUS
  <2>2. pc' = [pc EXCEPT ![c] = to] /\ at' = [at EXCEPT ![c] = place]
    BY <1>4, <1>8, <2>1 DEF IInv, Positions
  <2>3. /\ to \in CallerPlaces \ Aiming /\ place \in Schedulers \cup {None}
        /\ place # None <=> to \in {"spin", "drain", "empty"}
        /\ pc[c] \notin Aiming
    BY <1>2, <1>3, <2>1 DEF CallerPlaces, Aiming, Inside
  <2>4. UNCHANGED <<threads, mutex, shared, destroyed, target, waitingThreads, threadIsIdle>>
    BY <1>4, <1>8 DEF threads
  <2>5. /\ Core' /\ WaitingOK' /\ DestroyedIsForgotten'
        /\ \A q \in Processes : Notifying(q)' <=> Notifying(q)
        /\ pc'[c] = to /\ at'[c] = place
        /\ \A q \in Processes \ {c} : pc'[q] = pc[q] /\ at'[q] = at[q]
    BY <2>2, <2>3, <2>4, WalkKeeps
  <2>6. Flags' /\ StarvingOK'
    BY <1>4, <2>4, <2>5, StarvingStays DEF shared, history
  <2>7. DestroyOK'
    <3>1. \A d \in Callers : (d = c /\ at'[d] \in {None, at[d]} /\ pc[d] # "spin")
                             \/ (at'[d] = at[d] /\ pc'[d] = pc[d])
      BY <1>1, <1>2, <2>1, <2>5 DEF Processes
    <3>2. None \notin closing /\ None \notin destroyed
      BY SchedulerAssumption DEF IInv, Flags
    <3>3. \A r \in closing' : stopCount'[r] = 0 \/ queue'[r] = 0
      BY <1>4, <1>5
    <3>4. \A r \in closing' : \A d \in Callers : target'[d] # r
      BY <1>4 DEF IInv, DestroyOK
    <3>5. \A r \in closing' : \A d, e \in Callers : at'[d] = r /\ at'[e] = r => d = e
      BY <1>4, <3>1, <3>2 DEF IInv, DestroyOK
    <3>6. \A d \in Callers : at'[d] \in closing' /\ pc'[d] # "spin" => ~starved'[at'[d]]
      BY <1>4, <3>1, <3>2 DEF IInv, DestroyOK
    <3>7. \A r \in destroyed' : ~starved'[r] /\ \A d \in Callers : at'[d] # r
      BY <1>4, <2>4, <3>1, <3>2 DEF IInv, DestroyOK
    <3>8. QED BY <3>3, <3>4, <3>5, <3>6, <3>7 DEF DestroyOK
  <2>8. QED BY <1>6, <2>5, <2>6, <2>7 DEF IInv, Core
<1>9. QED BY <1>7, <1>8

-----------------------------------------------------------------------------
(* The theorems                                                              *)

\* What threads do, ...
LEMMA WorkKeeps ==
  ASSUME IInv, NEW t \in Threads, Work(t) \/ WaitForSomeJobs(t) PROVE IInv'
<1>1. t \in Processes
  BY DEF Processes
<1>2. QED
  BY <1>1, AssignJobKeeps, RestKeeps, GiveBackKeeps, StopStarvationKeeps, ReleaseKeeps,
     NotifyKeeps, ThreadAvailableKeeps, GrowKeeps, RegisterKeeps, SettleKeeps, FinishKeeps,
     WakeSomeKeeps, LeaveSomeKeeps, WaitForSomeJobsKeeps DEF Work

\* ... and what callers do.
LEMMA CallKeeps ==
  ASSUME IInv, NEW c \in Callers, Call(c) \/ Continue(c) PROVE IInv'
<1>1. c \in Processes
  BY DEF Processes
<1>2. CASE Call(c)
  BY <1>2, ScheduleKeeps, StopKeeps, ResumeKeeps, RemoveKeeps, WaitForEmptyQueueKeeps,
     DestroyKeeps DEF Call
<1>3. CASE Continue(c)
  BY <1>1, <1>3, GrowResumedKeeps, RegisterKeeps, StopStarvationKeeps, DrainKeeps,
     WakeEmptyKeeps DEF Continue
<1>4. QED BY <1>2, <1>3

\* A step that changes nothing.
LEMMA StutterKeeps == IInv /\ UNCHANGED vars => IInv'
<1> SUFFICES ASSUME IInv, UNCHANGED vars PROVE IInv'
  OBVIOUS
<1>1. UNCHANGED <<queue, running, suspended, runningCount, suspendedCount, yetToCreate,
                  fromShared, unusedCount, owner, resumed, starved, stopCount, emptyEvent,
                  threadIsIdle, waitingThreads, mutex, destroyed, closing, pool, allocCount,
                  poolYetToCreate, starving, pc, at, target, scheduled, stops, hungry>>
  BY DEF vars, threads, counters, events, shared, history
<1>2. Counters' /\ CountersOK'
  BY <1>1, CountersStay DEF counters
<1>3. Lists' /\ ListsOK'
  BY <1>1, ListsStay DEF GoesOn
<1>4. Loans' /\ ThreadsAreCounted'
  BY <1>1, LoansStay
<1>5. Positions' /\ MutexOK'
  BY <1>1 DEF IInv, Positions, MutexOK
<1>6. Flags' /\ StarvingOK'
  BY <1>1, StarvingStays DEF Notifying
<1>7. DestroyOK' /\ DestroyedIsForgotten'
  BY <1>1 DEF IInv, DestroyOK, DestroyedIsForgotten
<1>8. WaitingOK'
  BY <1>1, WaitingStays
<1>9. Calling'
  BY <1>1 DEF IInv, Calling
<1>10. QED BY <1>2, <1>3, <1>4, <1>5, <1>6, <1>7, <1>8, <1>9 DEF IInv

\* The invariant holds whatever is called, in whatever order threads and callers
\* enter the critical sections of JobScheduler.cpp and of the pool.
THEOREM Invariance == Spec => []IInv
<1>1. IInv /\ [Next]_vars => IInv'
  <2> SUFFICES ASSUME IInv, [Next]_vars PROVE IInv'
    OBVIOUS
  <2>1. CASE \E t \in Threads : Work(t) \/ WaitForSomeJobs(t)
    BY <2>1, WorkKeeps
  <2>2. CASE \E c \in Callers : Call(c) \/ Continue(c)
    BY <2>2, CallKeeps
  <2>3. CASE UNCHANGED vars
    BY <2>3, StutterKeeps
  <2>4. QED BY <2>1, <2>2, <2>3 DEF Next
<1>2. QED BY <1>1, InitInvariant, PTL DEF Spec

\* Every variable keeps its type.
THEOREM Typing == Spec => []TypeOK
BY Invariance, TypesAreKept, PTL

\* A thread that gives itself back has the mutex of its scheduler, so when nobody
\* is in there the counters agree with the lists.
LEMMA CountersAgree == IInv => CountersMatch
<1> SUFFICES ASSUME IInv, NEW s \in Schedulers, s \notin destroyed, mutex[s] = None
             PROVE  /\ runningCount[s] = Cardinality(running[s])
                    /\ suspendedCount[s] = Len(suspended[s])
                    /\ unusedCount[s] + fromShared[s] = suspendedCount[s] + yetToCreate[s] + SharedThreads[s]
                    /\ fromShared[s] > 0 => suspended[s] = <<>>
  BY DEF CountersMatch
<1>1. ~Back(s)
  BY SchedulerAssumption DEF Back, IInv, MutexOK
<1>2. runningCount[s] = Cardinality(running[s])
  BY <1>1, CountersAre DEF Counted
<1>3. QED BY <1>2, CountersAre DEF Counted

\* The owner of a thread, and whether it is resumed, tell the only list it is in.
LEMMA PlacesAreOne == IInv => ThreadsHaveOnePlace
<1> SUFFICES ASSUME IInv PROVE ThreadsHaveOnePlace
  OBVIOUS
<1>1. ASSUME NEW t \in Threads
      PROVE  Cardinality({s \in Schedulers : t \in running[s]})
               + Cardinality({s \in Schedulers : t \in Range(suspended[s])})
               + (IF t \in Range(pool) THEN 1 ELSE 0) <= 1
  <2>1. PICK runs : runs = {s \in Schedulers : t \in running[s]}
    OBVIOUS
  <2>2. PICK rests : rests = {s \in Schedulers : t \in Range(suspended[s])}
    OBVIOUS
  <2>3. \A s \in runs : t \in resumed /\ owner[t] = s /\ s \in Schedulers
    BY <2>1 DEF IInv, ListsOK
  <2>4. \A s \in rests : t \notin resumed /\ owner[t] = s /\ s \in Schedulers
    BY <2>2 DEF IInv, ListsOK
  <2>5. t \in Range(pool) => t \notin resumed /\ owner[t] = None
    BY DEF IInv, ListsOK
  <2>6. Cardinality({}) = 0 /\ Cardinality({owner[t]}) = 1
    BY FS_EmptySet, FS_Singleton
  <2>7. runs \in {{}, {owner[t]}} /\ rests \in {{}, {owner[t]}}
    BY <2>3, <2>4
  <2>8. PICK r : r = Cardinality(runs)
    OBVIOUS
  <2>9. PICK w : w = Cardinality(rests)
    OBVIOUS
  <2>10. PICK n : n = IF t \in Range(pool) THEN 1 ELSE 0
    OBVIOUS
  <2>11. r \in {0, 1} /\ w \in {0, 1} /\ n \in {0, 1}
    BY <2>6, <2>7, <2>8, <2>9, <2>10
  <2>12. (r = 0 <=> runs = {}) /\ (w = 0 <=> rests = {}) /\ (n = 0 <=> t \notin Range(pool))
    BY <2>6, <2>7, <2>8, <2>9, <2>10
  <2>13. /\ runs = {} \/ rests = {}
         /\ runs = {} \/ t \notin Range(pool)
         /\ rests = {} \/ t \notin Range(pool)
    BY <2>3, <2>4, <2>5, SchedulerAssumption
  <2>14. r + w + n <= 1
    BY ONLY <2>11, <2>12, <2>13
  <2>15. QED BY <2>1, <2>2, <2>8, <2>9, <2>10, <2>14, Zenon
<1>2. ASSUME NEW t \in Threads, Awake(t) \/ pc[t] \in {"execute", "some", "woken", "ending"}
      PROVE  owner[t] \notin destroyed /\ t \in running[owner[t]]
  <2>1. t \in resumed
    BY <1>2 DEF Awake, IInv, ListsOK
  <2>2. QED BY <2>1, OwnerIs
<1>3. QED BY <1>1, <1>2 DEF ThreadsHaveOnePlace

\* No thread is lost between the schedulers and the pool, listed twice or run for a
\* destroyed scheduler, and no scheduler keeps one while it owes one
\* (JobScheduler.h:351-353, 229-231).
THEOREM NoThreadIsLostTheorem == Spec => []NoThreadIsLost
<1>1. IInv => NoThreadIsLost
  BY CountersAgree, PlacesAreOne DEF IInv, NoThreadIsLost
<1>2. QED BY <1>1, Invariance, PTL

\* The destructor of a scheduler leaves nobody behind that will come back to it.
THEOREM DestroyedTheorem == Spec => []DestroyedIsForgotten
<1>1. IInv => DestroyedIsForgotten
  BY DEF IInv
<1>2. QED BY <1>1, Invariance, PTL

\* While threads of a scheduler wait in WaitForSomeJobs and are not woken, one of
\* its threads works (JobScheduler.h:76).
THEOREM SomebodyWorksTheorem == Spec => []SomebodyWorks
<1>1. IInv => SomebodyWorks
  <2> SUFFICES ASSUME IInv, NEW s \in Schedulers, NEW sleepers,
                      sleepers = {t \in Threads : pc[t] = "some" /\ owner[t] = s},
                      sleepers # {}, s \notin threadIsIdle
               PROVE  running[s] \ sleepers # {}
    BY DEF SomebodyWorks
  <2>1. /\ IsFiniteSet(Waiters(s)) /\ Cardinality(Waiters(s)) \in Nat
        /\ waitingThreads[s] = Cardinality(Waiters(s))
        /\ waitingThreads[s] > 0 => waitingThreads[s] < Cardinality(running[s])
    BY WaitersAre
  <2>2. IsFiniteSet(running[s]) /\ Cardinality(running[s]) \in Nat
    BY CountersAre
  <2>3. sleepers \subseteq Waiters(s)
    BY DEF Waiters
  <2>4. IsFiniteSet(sleepers) /\ Cardinality(sleepers) \in Nat
        /\ Cardinality(sleepers) <= Cardinality(Waiters(s))
    BY <2>1, <2>3, FS_Subset, FS_CardinalityType
  <2>5. Cardinality(sleepers) # 0
    BY <2>4, FS_EmptySet
  <2>6. Cardinality(sleepers) < Cardinality(running[s])
    BY <2>1, <2>2, <2>4, <2>5
  <2>7. ~(running[s] \subseteq sleepers)
    <3> SUFFICES ASSUME running[s] \subseteq sleepers PROVE FALSE
      OBVIOUS
    <3>1. Cardinality(running[s]) <= Cardinality(sleepers)
      BY <2>4, FS_Subset
    <3>2. QED BY <2>2, <2>4, <2>6, <3>1
  <2>8. QED BY <2>7
<1>2. QED BY <1>1, Invariance, PTL
=============================================================================
