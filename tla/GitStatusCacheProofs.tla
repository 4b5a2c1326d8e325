------------------------- MODULE GitStatusCacheProofs -------------------------
(***************************************************************************)
(* Proofs about GitStatusCache, for every finite set of subfolders and all *)
(* bounds.                                                                 *)
(***************************************************************************)
EXTENDS GitStatusCache, FiniteSetTheorems, SequenceTheorems, TLAPS

-----------------------------------------------------------------------------
(* The crawler is awake                                                      *)

\* A crawler that has found no block that ends soon goes to sleep when its queues
\* are empty, so it must be woken if there is such a block by then.
AwakeInv ==
  /\ pc \in [Threads -> Places]
  /\ lockNoted \in {"none", "added", "removed"}
  /\ WakeIsNotLost
  /\ pc["crawler"] = "pick" /\ noWatch \in {"soon", "over"} => wake

\* Whoever adds folders wakes the crawler.
LEMMA AddedWakes ==
  ASSUME NEW fs, AddFolders(fs)
  PROVE  (folders' = folders /\ wake' = wake) \/ wake'
BY DEF AddFolders

\* Initially there is nothing to do.
LEMMA InitAwake == Init => AwakeInv
BY DEF Init, AwakeInv, WakeIsNotLost, Threads, Places, Folders

\* Nothing outside of the crawler leaves it something to do without waking it.
LEMMA OutsideStaysAwake ==
  ASSUME AwakeInv,
         \/ \E f \in Folders : Change(f)
         \/ TakeLock \/ DropLock \/ BlockPath \/ UnBlockPath \/ ReadNotifications \/ Time
         \/ \E path \in Paths : AddPathForUpdate(path)
  PROVE  AwakeInv'
<1> USE DEF AwakeInv, WakeIsNotLost, outside, queues, blocks, status, place, locals, history
<1>1. ASSUME NEW f \in Folders, Change(f) PROVE AwakeInv'
  BY <1>1 DEF Change
<1>2. CASE TakeLock
  BY <1>2 DEF TakeLock
<1>3. CASE DropLock
  BY <1>3 DEF DropLock
<1>4. CASE BlockPath
  BY <1>4 DEF BlockPath
<1>5. CASE UnBlockPath
  BY <1>5 DEF UnBlockPath
<1>6. CASE ReadNotifications
  BY <1>6 DEF ReadNotifications
<1>7. CASE Time
  BY <1>7 DEF Time
<1>8. ASSUME NEW path \in Paths, AddPathForUpdate(path) PROVE AwakeInv'
  BY <1>8 DEF AddPathForUpdate
<1>9. QED BY <1>1, <1>2, <1>3, <1>4, <1>5, <1>6, <1>7, <1>8

\* No step of the computation of a status changes the queues, and none of them
\* ends asleep.
LEMMA UpdatesStayAwake ==
  ASSUME AwakeInv, NEW t \in Threads, UpdateCurrentStatus(t)
  PROVE  AwakeInv'
BY DEF AwakeInv, WakeIsNotLost, UpdateCurrentStatus, Calc, Write, Tell, Told, Goto, Threads,
       Places, outside, queues, blocks, status, locals, history

\* The steps of the crawler that look at its queues.
LEMMA QueuesStayAwake ==
  ASSUME AwakeInv,
         \/ Wake \/ RemoveTimedoutBlocks \/ Nothing \/ DeferPath \/ TakePath \/ NoPath
         \/ DeferFolder \/ TakeFolder \/ Erase
  PROVE  AwakeInv'
<1> USE DEF AwakeInv, WakeIsNotLost, Goto, Threads, Places, Picking, outside, queues, blocks,
            status, locals, history
<1>1. CASE Wake
  BY <1>1 DEF Wake
<1>2. CASE RemoveTimedoutBlocks
  BY <1>2 DEF RemoveTimedoutBlocks
<1>3. CASE Nothing
  BY <1>3 DEF Nothing
<1>4. CASE DeferPath
  BY <1>4 DEF DeferPath
<1>5. CASE TakePath
  BY <1>5 DEF TakePath
<1>6. CASE NoPath
  BY <1>6 DEF NoPath
<1>7. CASE DeferFolder
  BY <1>7 DEF DeferFolder
<1>8. CASE TakeFolder
  BY <1>8 DEF TakeFolder
<1>9. CASE Erase
  BY <1>9 DEF Erase
<1>10. QED BY <1>1, <1>2, <1>3, <1>4, <1>5, <1>6, <1>7, <1>8, <1>9

\* The steps of the crawler that read and store a status, and failures.
LEMMA CrawlsStayAwake ==
  ASSUME AwakeInv,
         \/ Begin \/ Enum \/ Store \/ ReadFile \/ StoreFile \/ After \/ Fail \/ FailFile
  PROVE  AwakeInv'
<1> USE DEF AwakeInv, WakeIsNotLost, Goto, Update, Threads, Places, outside, queues, blocks,
            status, locals, history
<1>1. CASE Begin
  BY <1>1 DEF Begin
<1>2. CASE Enum
  BY <1>2 DEF Enum
<1>3. CASE Store
  BY <1>3 DEF Store
<1>4. CASE ReadFile
  BY <1>4 DEF ReadFile
<1>5. CASE StoreFile
  BY <1>5 DEF StoreFile
<1>6. CASE After
  BY <1>6 DEF After
<1>7. CASE Fail
  BY <1>7 DEF Fail
<1>8. CASE FailFile
  BY <1>8 DEF FailFile
<1>9. QED BY <1>1, <1>2, <1>3, <1>4, <1>5, <1>6, <1>7, <1>8

\* A question of the shell wakes the crawler for what it adds.
LEMMA AsksStayAwake ==
  ASSUME AwakeInv, NEW f \in Folders, GetStatusForPath(f)
  PROVE  AwakeInv'
<1>1. (folders' = folders /\ wake' = wake) \/ wake'
  BY AddedWakes DEF GetStatusForPath
<1>2. /\ pc'["crawler"] = pc["crawler"]
      /\ pc' \in [Threads -> Places]
  BY DEF GetStatusForPath, AwakeInv, Goto, Threads, Places
<1>3. UNCHANGED <<paths, noWatch, lockNoted>>
  BY DEF GetStatusForPath, outside, blocks
<1>4. QED BY <1>1, <1>2, <1>3 DEF AwakeInv, WakeIsNotLost

\* Every step of the specification keeps the invariant.
LEMMA StepStaysAwake == AwakeInv /\ [Next]_vars => AwakeInv'
<1> SUFFICES ASSUME AwakeInv, [Next]_vars PROVE AwakeInv'
  OBVIOUS
<1>1. CASE UNCHANGED vars
  BY <1>1 DEF AwakeInv, WakeIsNotLost, vars, outside, queues, blocks, place
<1>2. CASE Next
  BY <1>2, OutsideStaysAwake, UpdatesStayAwake, QueuesStayAwake, CrawlsStayAwake,
     AsksStayAwake DEF Next, Crawl, Threads
<1>3. QED BY <1>1, <1>2

\* The crawler never sleeps on a request or through the end of a block: every
\* SetEvent of FolderCrawler.cpp and DirectoryWatcher.cpp is where it is needed.
THEOREM WakeTheorem == Spec => []WakeIsNotLost
<1>1. Spec => []AwakeInv
  BY InitAwake, StepStaysAwake, PTL DEF Spec
<1>2. AwakeInv => WakeIsNotLost
  BY DEF AwakeInv
<1>3. QED BY <1>1, <1>2, PTL

-----------------------------------------------------------------------------
(* Queues without duplicates                                                 *)

\* What it means for a queue to be another one without x.
Lost(rest, old, x) == IsInjective(rest) /\ Range(rest) = Range(old) \ {x}

\* What a part of a sequence is.
LEMMA PartIs ==
  ASSUME NEW S, NEW seq \in Seq(S), NEW a \in Nat \ {0}, NEW b \in 0..Len(seq),
         NEW part, part = SubSeq(seq, a, b)
  PROVE  /\ part \in Seq(S)
         /\ Len(part) = IF a <= b THEN b - a + 1 ELSE 0
         /\ \A i \in 1..Len(part) : part[i] = seq[a + i - 1]
<1>1. /\ a \in Int /\ b \in Int
      /\ \A i \in a..b : seq[i] \in S
  OBVIOUS
<1>2. /\ part \in Seq(S)
      /\ Len(part) = IF a <= b THEN b - a + 1 ELSE 0
      /\ \A i \in 1..(b - a + 1) : part[i] = seq[a + i - 1]
  BY <1>1, SubSeqProperties
<1>3. QED BY <1>1, <1>2

\* The head of a list is in it, and the tail is the list without it.
LEMMA TailIs ==
  ASSUME NEW S, NEW seq \in Seq(S), IsInjective(seq), seq # <<>>
  PROVE  /\ Head(seq) \in S /\ Head(seq) \in Range(seq)
         /\ Tail(seq) \in Seq(S)
         /\ Lost(Tail(seq), seq, Head(seq))
<1>1. Len(seq) \in Nat /\ Len(seq) > 0
  OBVIOUS
<1>2. Head(seq) \in S /\ Head(seq) \in Range(seq)
  BY <1>1 DEF Range
<1>3. PICK tail : tail = Tail(seq)
  OBVIOUS
<1>4. tail \in Seq(S) /\ Len(tail) = Len(seq) - 1 /\ \A i \in 1..Len(tail) : tail[i] = seq[i + 1]
  BY <1>1, <1>3
<1>5. IsInjective(tail)
  <2>1. \A i, j \in 1..Len(seq) : seq[i] = seq[j] => i = j
    BY DEF IsInjective
  <2>2. \A i \in 1..Len(tail) : i + 1 \in 1..Len(seq)
    BY <1>1, <1>4
  <2>3. ASSUME NEW i \in 1..Len(tail), NEW j \in 1..Len(tail), tail[i] = tail[j] PROVE i = j
    <3>1. i + 1 = j + 1
      BY ONLY <1>4, <2>1, <2>2, <2>3
    <3>2. QED BY <1>1, <1>4, <3>1
  <2>4. QED BY <1>4, <2>3 DEF IsInjective
<1>6. Range(tail) = Range(seq) \ {Head(seq)}
  <2>1. \A i \in 1..Len(tail) : i + 1 # 1 /\ i + 1 \in 1..Len(seq)
    BY <1>1, <1>4
  <2>2. Range(tail) \subseteq Range(seq) \ {Head(seq)}
    BY <1>1, <1>4, <2>1 DEF Range, IsInjective
  <2>3. \A i \in 1..Len(seq) : i # 1 => i - 1 \in 1..Len(tail) /\ tail[i - 1] = seq[i]
    BY <1>1, <1>4
  <2>4. Range(seq) \ {Head(seq)} \subseteq Range(tail)
    BY <1>1, <1>4, <2>3 DEF Range
  <2>5. QED BY <2>2, <2>4
<1>7. QED BY <1>2, <1>3, <1>4, <1>5, <1>6 DEF Lost

\* An element that is cut out of a list is not in it any more.
LEMMA RemoveIs ==
  ASSUME NEW S, NEW seq \in Seq(S), IsInjective(seq), NEW i \in DOMAIN seq
  PROVE  /\ RemoveAt(seq, i) \in Seq(S)
         /\ Lost(RemoveAt(seq, i), seq, seq[i])
<1>1. Len(seq) \in Nat /\ i \in 1..Len(seq) /\ DOMAIN seq = 1..Len(seq)
  OBVIOUS
<1>2. PICK left : left = SubSeq(seq, 1, i - 1)
  OBVIOUS
<1>11. PICK right : right = SubSeq(seq, i + 1, Len(seq))
  OBVIOUS
<1>12. PICK rest : rest = left \o right
  OBVIOUS
<1>3. left \in Seq(S) /\ Len(left) = i - 1 /\ \A j \in 1..(i - 1) : left[j] = seq[j]
  BY <1>1, <1>2, PartIs
<1>4. right \in Seq(S) /\ Len(right) = Len(seq) - i
      /\ \A j \in 1..(Len(seq) - i) : right[j] = seq[i + j]
  BY <1>1, <1>11, PartIs
<1>5. /\ rest \in Seq(S) /\ Len(rest) = Len(left) + Len(right)
      /\ \A j \in 1..(Len(left) + Len(right)) :
           rest[j] = IF j <= Len(left) THEN left[j] ELSE right[j - Len(left)]
  BY <1>12, <1>3, <1>4, ConcatProperties
<1>10. Len(rest) = Len(seq) - 1 /\ DOMAIN rest = 1..(Len(seq) - 1)
  BY <1>1, <1>3, <1>4, <1>5
<1>6. ASSUME NEW j \in 1..(Len(seq) - 1)
      PROVE  rest[j] = IF j < i THEN seq[j] ELSE seq[j + 1]
  <2>1. CASE j < i
    BY <1>1, <1>3, <1>4, <1>5, <2>1
  <2>2. CASE ~(j < i)
    <3>1. rest[j] = right[j - (i - 1)] /\ j - (i - 1) \in 1..(Len(seq) - i)
      BY <1>1, <1>3, <1>4, <1>5, <2>2
    <3>2. right[j - (i - 1)] = seq[i + (j - (i - 1))] /\ i + (j - (i - 1)) = j + 1
      BY <1>1, <1>4, <3>1
    <3>3. QED BY <2>2, <3>1, <3>2
  <2>3. QED BY <2>1, <2>2
<1>13. PICK was : was = [j \in 1..(Len(seq) - 1) |-> IF j < i THEN j ELSE j + 1]
  OBVIOUS
<1>14. \A j \in 1..(Len(seq) - 1) :
         was[j] \in 1..Len(seq) /\ was[j] # i /\ rest[j] = seq[was[j]]
  BY <1>1, <1>6, <1>13
<1>15. \A j, k \in 1..(Len(seq) - 1) : was[j] = was[k] => j = k
  BY <1>1, <1>13
<1>16. \A k \in 1..Len(seq) : k # i => \E j \in 1..(Len(seq) - 1) : was[j] = k
  <2> SUFFICES ASSUME NEW k \in 1..Len(seq), k # i
               PROVE  \E j \in 1..(Len(seq) - 1) : was[j] = k
    OBVIOUS
  <2>1. CASE k < i
    BY <1>1, <1>13, <2>1
  <2>2. CASE k > i
    <3>1. k - 1 \in 1..(Len(seq) - 1) /\ was[k - 1] = k
      BY <1>1, <1>13, <2>2
    <3>2. QED BY <3>1
  <2>3. QED BY <1>1, <2>1, <2>2
<1>17. \A j, k \in 1..Len(seq) : seq[j] = seq[k] => j = k
  BY <1>1 DEF IsInjective
<1>7. IsInjective(rest)
  BY <1>10, <1>14, <1>15, <1>17 DEF IsInjective
<1>8. Range(rest) = Range(seq) \ {seq[i]}
  <2>1. Range(rest) \subseteq Range(seq) \ {seq[i]}
    BY <1>1, <1>10, <1>14, <1>17 DEF Range
  <2>2. ASSUME NEW x \in Range(seq) \ {seq[i]} PROVE x \in Range(rest)
    <3>1. PICK k \in 1..Len(seq) : x = seq[k]
      BY <1>1 DEF Range
    <3>2. k # i
      BY <3>1
    <3>3. PICK j \in 1..(Len(seq) - 1) : was[j] = k
      BY <1>16, <3>2
    <3>4. rest[j] = x
      BY <1>14, <3>1, <3>3
    <3>5. QED BY <1>10, <3>4 DEF Range
  <2>3. QED BY <2>1, <2>2
<1>9. QED BY <1>2, <1>5, <1>7, <1>8, <1>11, <1>12 DEF Lost, RemoveAt

\* push_back of something new.
LEMMA AppendIs ==
  ASSUME NEW S, NEW seq \in Seq(S), IsInjective(seq), NEW x \in S, x \notin Range(seq)
  PROVE  /\ Append(seq, x) \in Seq(S) /\ Len(Append(seq, x)) = Len(seq) + 1
         /\ Append(seq, x) # <<>>
         /\ IsInjective(Append(seq, x))
         /\ Range(Append(seq, x)) = Range(seq) \cup {x}
<1>1. Len(seq) \in Nat /\ DOMAIN seq = 1..Len(seq)
  OBVIOUS
<1>2. PICK more : more = Append(seq, x)
  OBVIOUS
<1>3. more \in Seq(S) /\ Len(more) = Len(seq) + 1 /\ more[Len(seq) + 1] = x
      /\ \A i \in 1..Len(seq) : more[i] = seq[i]
  BY <1>1, <1>2
<1>4. \A i \in 1..(Len(seq) + 1) : i = Len(seq) + 1 \/ i \in 1..Len(seq)
  BY <1>1
<1>5. IsInjective(more)
  BY <1>1, <1>3, <1>4 DEF IsInjective, Range
<1>6. Range(more) = Range(seq) \cup {x}
  BY <1>1, <1>3, <1>4 DEF Range
<1>7. QED BY <1>1, <1>2, <1>3, <1>5, <1>6

\* erase takes a request out, whether it is there or not.
LEMMA ErasedIs ==
  ASSUME NEW S, NEW queue \in Seq(S), IsInjective(queue), NEW x
  PROVE  /\ Erased(queue, x) \in Seq(S)
         /\ Lost(Erased(queue, x), queue, x)
<1>1. DOMAIN queue = 1..Len(queue)
  OBVIOUS
<1>2. CASE Contains(queue, x)
  <2>1. PICK i \in DOMAIN queue : i = CHOOSE j \in DOMAIN queue : queue[j] = x
    BY <1>1, <1>2 DEF Contains
  <2>2. queue[i] = x
    BY <1>1, <1>2, <2>1 DEF Contains
  <2>3. Erased(queue, x) = RemoveAt(queue, i)
    BY <1>2, <2>1 DEF Erased
  <2>4. QED BY <2>2, <2>3, RemoveIs
<1>3. CASE ~Contains(queue, x)
  <2>1. Erased(queue, x) = queue
    BY <1>3 DEF Erased
  <2>2. x \notin Range(queue)
    BY <1>1, <1>3 DEF Contains, Range
  <2>3. QED BY <2>1, <2>2 DEF Lost
<1>4. QED BY <1>2, <1>3

\* Push adds a request, which is there once.
LEMMA PushIs ==
  ASSUME NEW S, NEW queue \in Seq(S), IsInjective(queue), NEW x \in S
  PROVE  /\ Push(queue, x) \in Seq(S) /\ IsInjective(Push(queue, x))
         /\ Push(queue, x) # <<>>
         /\ Range(Push(queue, x)) = Range(queue) \cup {x}
<1>1. PICK rest : rest = Erased(queue, x)
  OBVIOUS
<1>2. rest \in Seq(S) /\ IsInjective(rest) /\ Range(rest) = Range(queue) \ {x}
  BY <1>1, ErasedIs DEF Lost
<1>3. x \notin Range(rest)
  BY <1>2
<1>4. /\ Append(rest, x) \in Seq(S) /\ IsInjective(Append(rest, x))
      /\ Append(rest, x) # <<>>
      /\ Range(Append(rest, x)) = Range(rest) \cup {x}
  BY <1>2, <1>3, AppendIs
<1>5. QED BY <1>1, <1>2, <1>4 DEF Push

\* A request that moves from the head to the end of a queue stays in it.
LEMMA DeferIs ==
  ASSUME NEW S, NEW queue \in Seq(S), IsInjective(queue), queue # <<>>, NEW x \in S
  PROVE  /\ Push(Tail(queue), x) \in Seq(S) /\ IsInjective(Push(Tail(queue), x))
         /\ Range(Push(Tail(queue), x)) = (Range(queue) \ {Head(queue)}) \cup {x}
<1>1. PICK rest : rest = Tail(queue)
  OBVIOUS
<1>2. rest \in Seq(S) /\ IsInjective(rest) /\ Range(rest) = Range(queue) \ {Head(queue)}
  BY <1>1, TailIs DEF Lost
<1>3. rest \in Seq(S) /\ IsInjective(rest)
  BY <1>2
<1>4. Push(rest, x) \in Seq(S) /\ IsInjective(Push(rest, x))
  BY ONLY <1>3, x \in S, PushIs
<1>5. Range(Push(rest, x)) = Range(rest) \cup {x}
  BY ONLY <1>3, x \in S, PushIs
<1>6. QED BY <1>1, <1>2, <1>4, <1>5

\* Several folders that are added are all there, once, with all that was there.
LEMMA AddedIs ==
  ASSUME NEW queue \in Seq(Folders), NEW fs \in SUBSET Folders, NEW more \in Added(queue, fs)
  PROVE  /\ more \in Seq(Folders) /\ IsInjective(more)
         /\ Range(more) = Range(queue) \cup fs
<1>1. PICK all : all = Range(queue) \cup fs
  OBVIOUS
<1>2. PICK n : n = Cardinality(all)
  OBVIOUS
<1>3. IsFiniteSet(all) /\ n \in Nat /\ all \subseteq Folders
  <2>1. IsFiniteSet(Folders)
    BY CacheAssumption, FS_AddElement, FS_Union, FS_Singleton DEF Folders
  <2>2. Range(queue) \subseteq Folders
    BY DEF Range
  <2>3. QED BY <1>1, <1>2, <2>1, <2>2, FS_Subset, FS_CardinalityType
<1>4. more \in [1..n -> all] /\ \A i, j \in 1..n : i # j => more[i] # more[j]
  BY <1>1, <1>2 DEF Added, SetToSeqs
<1>5. IsInjective(more)
  BY <1>4 DEF IsInjective
<1>6. Range(more) = all
  <2>1. Cardinality(1..n) = n
    BY <1>3, FS_Interval
  <2>2. more \in Injection(1..n, all)
    BY <1>4, <1>5 DEF Injection
  <2>3. more \in Surjection(1..n, all)
    BY <1>2, <1>3, <2>1, <2>2, FS_Injection
  <2>4. QED BY <1>4, <2>3 DEF Surjection, Range
<1>7. more \in Seq(Folders)
  BY <1>3, <1>4, SeqDef
<1>8. QED BY <1>1, <1>5, <1>6, <1>7

-----------------------------------------------------------------------------
(* Types                                                                     *)

\* The places at which the crawler reads, at which a thread computes a status, and
\* at which the crawler has a job.
Reading == {"begin", "enum", "store", "file", "store_file"}
Updating == {"calc", "write", "tell"}
Busy == Reading \cup Updating \cup {"after", "erase"}

\* What types of places every step needs: the crawler that works has a job, there
\* is a folder when it picks one, the shell only computes, and only subfolders have
\* something to tell.
PlacesFit ==
  /\ pc["crawler"] \in Busy => job # <<>>
  /\ pc["crawler"] = "folder" => folders # <<>>
  /\ pc["crawler"] # "idle" /\ pc["shell"] \in Updating \cup {"idle"}
  /\ \A t \in Threads : pc[t] = "tell" => cur[t] # Root

TypeInv == TypeOK /\ PlacesFit

\* Whoever adds folders leaves what is requested, and adds them if nothing is locked
\* or blocked.
LEMMA AddFoldersIs ==
  ASSUME QueueTypes, NEW fs \in SUBSET Folders, AddFolders(fs)
  PROVE  /\ folders' \in Seq(Folders) /\ IsInjective(folders') /\ wake' \in BOOLEAN
         /\ Range(folders) \subseteq Range(folders')
         /\ lock \/ ~IsPathGood \/ fs \subseteq Range(folders')
         /\ folders # <<>> => folders' # <<>>
<1>1. CASE ~lock /\ IsPathGood /\ fs # {}
  <2>1. PICK more : more = folders'
    OBVIOUS
  <2>2. more \in Added(folders, fs) /\ wake' = TRUE
    BY <1>1, <2>1 DEF AddFolders
  <2>3. folders \in Seq(Folders)
    BY DEF QueueTypes
  <2>4. more \in Seq(Folders) /\ IsInjective(more) /\ Range(more) = Range(folders) \cup fs
    BY <2>2, <2>3, AddedIs
  <2>5. more # <<>>
    BY <1>1, <2>4 DEF Range
  <2>6. QED BY <2>1, <2>2, <2>4, <2>5
<1>2. CASE ~(~lock /\ IsPathGood /\ fs # {})
  <2>1. folders' = folders /\ wake' = wake
    BY <1>2 DEF AddFolders
  <2>2. QED BY <1>2, <2>1 DEF QueueTypes
<1>3. QED BY <1>1, <1>2

\* Initially all is typed.
LEMMA InitTypes == Init => TypeInv
<1> SUFFICES ASSUME Init PROVE TypeInv
  OBVIOUS
<1> USE CacheAssumption DEF Init
<1>1. QueueTypes
  <2>1. paths = <<>> /\ folders = <<>> /\ wake = FALSE
    OBVIOUS
  <2>2. <<>> \in Seq(Paths) /\ <<>> \in Seq(Folders)
    BY ONLY EmptySeq
  <2>3. DOMAIN <<>> = {}
    OBVIOUS
  <2>4. IsInjective(<<>>)
    BY ONLY <2>3 DEF IsInjective
  <2>5. QED BY ONLY <2>1, <2>2, <2>4 DEF QueueTypes
<1>2. OutsideTypes /\ BlockTypes
  BY DEF OutsideTypes, BlockTypes
<1>3. StatusTypes
  BY DEF StatusTypes, Statuses
<1>4. PlaceTypes
  BY DEF PlaceTypes, Threads, Places, Folders, Statuses
<1>5. PlacesFit
  BY DEF PlacesFit, Busy, Reading, Updating, Threads
<1>6. QED BY <1>1, <1>2, <1>3, <1>4, <1>5 DEF TypeInv, TypeOK

\* The queues stay typed when nobody but the crawler works.
LEMMA OutsideKeepsQueues ==
  ASSUME TypeInv,
         \/ \E f \in Folders : Change(f) \/ GetStatusForPath(f)
         \/ TakeLock \/ DropLock \/ BlockPath \/ UnBlockPath \/ ReadNotifications \/ Time
         \/ \E path \in Paths : AddPathForUpdate(path)
         \/ \E t \in Threads : UpdateCurrentStatus(t)
  PROVE  QueueTypes' /\ (folders # <<>> => folders' # <<>>)
<1>0. QueueTypes /\ OutsideTypes
  BY DEF TypeInv, TypeOK
<1>1. CASE UNCHANGED queues
  BY <1>0, <1>1 DEF QueueTypes, queues
<1>2. CASE UnBlockPath
  <2>1. Push(folders, Root) \in Seq(Folders) /\ IsInjective(Push(folders, Root))
        /\ Push(folders, Root) # <<>>
    BY <1>0, PushIs DEF QueueTypes, Folders
  <2>2. QED BY <1>0, <1>2, <2>1 DEF UnBlockPath, QueueTypes
<1>3. CASE ReadNotifications
  BY <1>0, <1>3 DEF ReadNotifications, QueueTypes
<1>4. ASSUME NEW path \in Paths, AddPathForUpdate(path)
      PROVE  QueueTypes' /\ (folders # <<>> => folders' # <<>>)
  <2>1. Push(paths, path) \in Seq(Paths) /\ IsInjective(Push(paths, path))
    BY <1>0, PushIs DEF QueueTypes
  <2>2. QED BY <1>0, <1>4, <2>1 DEF AddPathForUpdate, QueueTypes, OutsideTypes
<1>5. ASSUME NEW f \in Folders, GetStatusForPath(f)
      PROVE  QueueTypes' /\ (folders # <<>> => folders' # <<>>)
  <2>1. PICK fs \in SUBSET Folders : AddFolders(fs)
    BY <1>5 DEF GetStatusForPath, Folders
  <2>2. paths' = paths
    BY <1>5 DEF GetStatusForPath
  <2>3. QED BY <1>0, <2>1, <2>2, AddFoldersIs DEF QueueTypes
<1>6. ASSUME NEW f \in Folders, Change(f) PROVE UNCHANGED queues
  BY <1>6 DEF Change
<1>7. ASSUME TakeLock \/ DropLock \/ BlockPath \/ Time PROVE UNCHANGED queues
  BY <1>7 DEF TakeLock, DropLock, BlockPath, Time
<1>8. ASSUME NEW t \in Threads, UpdateCurrentStatus(t) PROVE UNCHANGED queues
  BY <1>8 DEF UpdateCurrentStatus, Calc, Write, Tell
<1>9. QED BY <1>1, <1>2, <1>3, <1>4, <1>5, <1>6, <1>7, <1>8

\* The queues stay typed when the crawler takes from them.
LEMMA PickingKeepsQueues ==
  ASSUME TypeInv,
         \/ Wake \/ RemoveTimedoutBlocks \/ Nothing \/ DeferPath \/ TakePath \/ NoPath
         \/ DeferFolder \/ TakeFolder \/ Erase
  PROVE  QueueTypes'
<1>0. QueueTypes /\ PlaceTypes /\ PlacesFit
  BY DEF TypeInv, TypeOK
<1>1. CASE Wake
  BY <1>0, <1>1 DEF Wake, QueueTypes
<1>2. CASE RemoveTimedoutBlocks
  <2>1. PICK fs \in SUBSET Folders : AddFolders(fs)
    BY <1>2 DEF RemoveTimedoutBlocks, Folders
  <2>2. paths' = paths
    BY <1>2 DEF RemoveTimedoutBlocks
  <2>3. QED BY <1>0, <2>1, <2>2, AddFoldersIs DEF QueueTypes
<1>3. CASE Nothing \/ NoPath
  BY <1>0, <1>3 DEF Nothing, NoPath, QueueTypes, queues
<1>4. CASE DeferPath
  <2>1. paths # <<>> /\ UNCHANGED <<folders, wake>>
    BY <1>4 DEF DeferPath
  <2>2. PICK path \in Paths : paths' = Push(Tail(paths), path)
    <3>1. Head(paths) \in Paths /\ <<"dir", Root>> \in Paths
      BY <1>0, <2>1, TailIs DEF QueueTypes, Paths, Kinds, Folders
    <3>2. QED BY <1>4, <3>1 DEF DeferPath
  <2>3. QED BY <1>0, <2>1, <2>2, DeferIs DEF QueueTypes
<1>5. CASE TakePath
  <2>1. paths # <<>> /\ paths' = Tail(paths) /\ UNCHANGED <<folders, wake>>
    BY <1>5 DEF TakePath
  <2>2. QED BY <1>0, <2>1, TailIs DEF QueueTypes, Lost
<1>6. CASE DeferFolder \/ TakeFolder
  <2>1. folders # <<>> /\ UNCHANGED <<paths, wake>>
    BY <1>0, <1>6 DEF DeferFolder, TakeFolder, PlacesFit
  <2>2. folders' = Push(Tail(folders), Head(folders)) \/ folders' = Tail(folders)
    BY <1>6 DEF DeferFolder, TakeFolder
  <2>3. /\ Head(folders) \in Folders
        /\ Tail(folders) \in Seq(Folders) /\ IsInjective(Tail(folders))
    BY <1>0, <2>1, TailIs DEF QueueTypes, Lost
  <2>4. LET more == Push(Tail(folders), Head(folders))
        IN  more \in Seq(Folders) /\ IsInjective(more)
    BY <1>0, <2>1, <2>3, DeferIs DEF QueueTypes
  <2>5. QED BY <1>0, <2>1, <2>2, <2>3, <2>4 DEF QueueTypes
<1>7. CASE Erase
  <2>1. /\ paths' \in {paths, Erased(paths, job)}
        /\ folders' \in {folders, Erased(folders, Here)}
        /\ wake' = wake
    BY <1>7 DEF Erase
  <2>2. QED BY <1>0, <2>1, ErasedIs DEF QueueTypes, Lost
<1>8. QED BY <1>1, <1>2, <1>3, <1>4, <1>5, <1>6, <1>7

\* The folder of a crawler that works.
LEMMA HereIs ==
  ASSUME TypeInv, pc["crawler"] \in Busy
  PROVE  Here \in Folders /\ job[1] \in Kinds \cup {"folder"} /\ job = <<job[1], Here>>
BY DEF TypeInv, TypeOK, PlaceTypes, PlacesFit, Here

\* The queues stay typed when the crawler reads.
LEMMA CrawlsKeepQueues ==
  ASSUME TypeInv,
         \/ Begin \/ Enum \/ Store \/ ReadFile \/ StoreFile \/ After \/ Fail \/ FailFile
  PROVE  QueueTypes' /\ (folders # <<>> => folders' # <<>>)
<1>0. QueueTypes
  BY DEF TypeInv, TypeOK
<1>1. CASE UNCHANGED queues
  BY <1>0, <1>1 DEF QueueTypes, queues
<1>2. CASE Begin \/ Store \/ ReadFile \/ StoreFile
  <2>1. UNCHANGED queues
    BY <1>2 DEF Begin, Store, ReadFile, StoreFile
  <2>2. QED BY <1>1, <2>1
<1>3. ASSUME Enum \/ Fail \/ FailFile \/ (After /\ retry)
      PROVE  paths' = paths /\ \E fs \in SUBSET Folders : AddFolders(fs)
  <2>1. Here \in Folders
    BY <1>3, HereIs DEF Enum, Fail, FailFile, After, Busy, Reading
  <2>2. \A f : {c \in Children(f) : job[1] = "folder" \/ ~valid[c]} \in SUBSET Folders
               /\ {c \in Children(f) : child[c] # "none"} \in SUBSET Folders
    BY DEF Children, Folders
  <2>3. CASE Enum
    BY <2>2, <2>3 DEF Enum
  <2>4. CASE Fail
    BY <2>2, <2>4 DEF Fail
  <2>5. CASE FailFile \/ (After /\ retry)
    BY <2>1, <2>5 DEF FailFile, After, Retry
  <2>6. QED BY <1>3, <2>3, <2>4, <2>5
<1>4. CASE Enum \/ Fail \/ FailFile \/ (After /\ retry)
  BY <1>0, <1>3, <1>4, AddFoldersIs DEF QueueTypes
<1>5. CASE After /\ ~retry
  <2>1. UNCHANGED queues
    BY <1>5 DEF After, queues
  <2>2. QED BY <1>1, <2>1
<1>6. QED BY <1>2, <1>4, <1>5

\* The types of all but the queues, and the places.
OtherTypes ==
  /\ OutsideTypes /\ BlockTypes /\ StatusTypes /\ PlaceTypes
  /\ failed \subseteq Folders
  /\ slips \subseteq {"erased", "late_status"}

\* They are kept where nobody crawls or computes, and ...
LEMMA OtherTypesStay ==
  ASSUME OtherTypes, PlacesFit, OutsideTypes', BlockTypes', folders # <<>> => folders' # <<>>,
         UNCHANGED <<status, place, locals, failed, slips>>
  PROVE  OtherTypes' /\ PlacesFit'
<1> USE DEF OtherTypes, StatusTypes, PlaceTypes, PlacesFit, status, place, locals
<1>1. OtherTypes'
  BY ONLY OtherTypes, OutsideTypes', BlockTypes', UNCHANGED <<status, place, locals, failed, slips>>
<1>2. PlacesFit'
  BY ONLY PlacesFit, folders # <<>> => folders' # <<>>, UNCHANGED <<status, place, locals, failed, slips>>
<1>3. QED BY <1>1, <1>2

\* ... when nobody but the crawler works, ...
LEMMA OutsideKeepsTypes ==
  ASSUME TypeInv, folders # <<>> => folders' # <<>>,
         \/ \E f \in Folders : Change(f) \/ GetStatusForPath(f)
         \/ TakeLock \/ DropLock \/ BlockPath \/ UnBlockPath \/ ReadNotifications \/ Time
         \/ \E path \in Paths : AddPathForUpdate(path)
  PROVE  OtherTypes' /\ PlacesFit'
<1>0. OtherTypes /\ OutsideTypes /\ BlockTypes /\ PlacesFit
  BY DEF TypeInv, TypeOK, OtherTypes
<1> USE DEF history
<1>1. ASSUME NEW f \in Folders, Change(f) PROVE OtherTypes' /\ PlacesFit'
  <2>1. \A kinds \in {{}, {"file"}, Kinds} : kinds \X {f} \subseteq Paths
    BY DEF Paths, Kinds
  <2>2. noted' \subseteq Paths
    <3>1. PICK kinds \in {{}, {"file"}, Kinds} : noted' = noted \cup (kinds \X {f})
      BY <1>1 DEF Change
    <3>2. QED BY <1>0, <2>1, <3>1 DEF OutsideTypes
  <2>3. disk' \in [Folders -> {"normal", "modified"}] /\ UNCHANGED <<lock, client, buffer, lockNoted>>
    BY <1>0, <1>1 DEF Change, OutsideTypes
  <2>4. OutsideTypes'
    BY <1>0, <2>2, <2>3 DEF OutsideTypes
  <2>5. UNCHANGED <<blocks, status, place, locals, failed, slips>>
    BY <1>1 DEF Change
  <2>6. BlockTypes'
    BY <1>0, <2>5 DEF BlockTypes, blocks
  <2>7. QED BY <1>0, <2>4, <2>5, <2>6, OtherTypesStay
<1>2. CASE TakeLock \/ DropLock
  <2>1. OutsideTypes'
    BY <1>0, <1>2 DEF TakeLock, DropLock, OutsideTypes
  <2>2. UNCHANGED <<blocks, status, place, locals, failed, slips>>
    BY <1>2 DEF TakeLock, DropLock
  <2>3. BlockTypes'
    BY <1>0, <2>2 DEF BlockTypes, blocks
  <2>4. QED BY <1>0, <2>1, <2>2, <2>3, OtherTypesStay
<1>3. CASE BlockPath \/ UnBlockPath
  <2>1. OutsideTypes'
    BY <1>0, <1>3 DEF BlockPath, UnBlockPath, OutsideTypes
  <2>2. BlockTypes'
    BY <1>0, <1>3 DEF BlockPath, UnBlockPath, BlockTypes
  <2>3. UNCHANGED <<status, place, locals, failed, slips>>
    BY <1>3 DEF BlockPath, UnBlockPath
  <2>4. QED BY <1>0, <2>1, <2>2, <2>3, OtherTypesStay
<1>4. CASE ReadNotifications
  <2>1. OutsideTypes'
    BY <1>0, <1>4 DEF ReadNotifications, OutsideTypes
  <2>2. BlockTypes'
    BY <1>0, <1>4 DEF ReadNotifications, BlockTypes
  <2>3. UNCHANGED <<status, place, locals, failed, slips>>
    BY <1>4 DEF ReadNotifications
  <2>4. QED BY <1>0, <2>1, <2>2, <2>3, OtherTypesStay
<1>5. ASSUME NEW path \in Paths, AddPathForUpdate(path) PROVE OtherTypes' /\ PlacesFit'
  <2>1. OutsideTypes'
    BY <1>0, <1>5 DEF AddPathForUpdate, OutsideTypes
  <2>2. UNCHANGED <<blocks, status, place, locals, failed, slips>>
    BY <1>5 DEF AddPathForUpdate
  <2>3. BlockTypes'
    BY <1>0, <2>2 DEF BlockTypes, blocks
  <2>4. QED BY <1>0, <2>1, <2>2, <2>3, OtherTypesStay
<1>6. ASSUME NEW f \in Folders, GetStatusForPath(f) PROVE OtherTypes' /\ PlacesFit'
  BY <1>0, <1>6 DEF GetStatusForPath, OtherTypes, OutsideTypes, BlockTypes, StatusTypes, PlaceTypes,
     PlacesFit, outside, queues, blocks, status, place, locals, Goto, Threads, Places, Busy,
     Reading, Updating
<1>7. CASE Time
  <2>1. BlockTypes'
    BY <1>0, <1>7 DEF Time, BlockTypes
  <2>2. UNCHANGED <<outside, status, place, locals, failed, slips>>
    BY <1>7 DEF Time
  <2>3. OutsideTypes'
    BY <1>0, <2>2 DEF OutsideTypes, outside
  <2>4. QED BY <1>0, <2>1, <2>2, <2>3, OtherTypesStay
<1>8. QED BY <1>1, <1>2, <1>3, <1>4, <1>5, <1>6, <1>7

\* What a status is.
LEMMA WorstIs == \A S : Worst(S) \in Statuses
BY DEF Worst, Statuses

\* ... when a thread computes a status, ...
LEMMA UpdatesKeepTypes ==
  ASSUME TypeInv, NEW t \in Threads, UpdateCurrentStatus(t), folders' = folders
  PROVE  OtherTypes' /\ PlacesFit'
<1>0. OtherTypes /\ PlacesFit
  BY DEF TypeInv, TypeOK, OtherTypes
<1>1. \A f : Recursive(f) \in Statuses
  BY WorstIs DEF Recursive
<1>2. pc[t] \in Updating /\ cur[t] \in Folders
  BY <1>0 DEF UpdateCurrentStatus, Calc, Write, Tell, Updating, OtherTypes, PlaceTypes
<1> USE <1>0, <1>1, <1>2
<1>3. CASE Calc(t)
  <2>1. /\ new' \in [Threads -> Statuses]
        /\ pc' = [pc EXCEPT ![t] = "write"] /\ cur' = cur
    BY <1>3 DEF Calc, Goto, OtherTypes, PlaceTypes
  <2>2. QED BY <1>3, <2>1 DEF Calc, OtherTypes, OutsideTypes, BlockTypes, StatusTypes, PlaceTypes,
               PlacesFit, outside, blocks, status, locals, history, Threads, Places, Busy,
               Reading, Updating
<1>4. CASE Write(t)
  <2>1. full' \in [Folders -> Statuses] /\ new' \in [Threads -> Statuses]
    BY <1>4 DEF Write, OtherTypes, StatusTypes, PlaceTypes, Statuses
  <2>2. pc' \in [Threads -> Places] /\ slips' \subseteq {"erased", "late_status"} /\ PlacesFit'
    BY <1>4 DEF Write, Goto, Told, Late, OtherTypes, PlaceTypes, PlacesFit, locals, Threads,
                Places, Busy, Reading, Updating
  <2>3. QED BY <1>4, <2>1, <2>2 DEF Write, OtherTypes, OutsideTypes, BlockTypes, StatusTypes,
               PlaceTypes, outside, blocks, locals, history
<1>5. CASE Tell(t)
  <2>1. /\ child' \in [Subfolders -> Statuses] /\ childTmp' \in [Subfolders -> Statuses]
        /\ cur' \in [Threads -> Folders] /\ new' \in [Threads -> Statuses]
    BY <1>5 DEF Tell, OtherTypes, StatusTypes, PlaceTypes, Statuses, Folders
  <2>2. pc' \in [Threads -> Places] /\ slips' \subseteq {"erased", "late_status"} /\ PlacesFit'
    BY <1>5 DEF Tell, Goto, Told, Late, OtherTypes, PlaceTypes, PlacesFit, locals, Threads,
                Places, Busy, Reading, Updating
  <2>3. QED BY <1>5, <2>1, <2>2 DEF Tell, OtherTypes, OutsideTypes, BlockTypes, StatusTypes,
               PlaceTypes, outside, blocks, locals, history
<1>6. QED BY <1>3, <1>4, <1>5 DEF UpdateCurrentStatus

\* ... when the crawler takes from its queues, ...
LEMMA PickingKeepsTypes ==
  ASSUME TypeInv,
         \/ Wake \/ RemoveTimedoutBlocks \/ Nothing \/ DeferPath \/ TakePath \/ NoPath
         \/ DeferFolder \/ TakeFolder \/ Erase
  PROVE  OtherTypes' /\ PlacesFit'
<1>0. OtherTypes /\ PlacesFit
  BY DEF TypeInv, TypeOK, OtherTypes
<1> USE <1>0 DEF OtherTypes, OutsideTypes, BlockTypes, StatusTypes, PlaceTypes, PlacesFit,
                 outside, queues, blocks, status, place, locals, history, Goto, Threads, Places,
                 Busy, Reading, Updating
<1>1. CASE Wake \/ Nothing \/ NoPath
  <2>1. pc' \in [Threads -> Places] /\ PlacesFit'
    BY <1>1 DEF Wake, Nothing, NoPath, Picking
  <2>2. OutsideTypes' /\ BlockTypes' /\ StatusTypes'
    BY <1>1 DEF Wake, Nothing, NoPath
  <2>3. UNCHANGED <<cur, new, locals, history, slips>>
    BY <1>1 DEF Wake, Nothing, NoPath
  <2>4. QED BY <2>1, <2>2, <2>3
<1>2. CASE RemoveTimedoutBlocks
  <2>1. pc' \in [Threads -> Places] /\ PlacesFit'
    BY <1>2 DEF RemoveTimedoutBlocks
  <2>2. BlockTypes'
    BY <1>2 DEF RemoveTimedoutBlocks
  <2>3. UNCHANGED <<outside, status, cur, new, locals, history, slips>>
    BY <1>2 DEF RemoveTimedoutBlocks
  <2>4. QED BY <2>1, <2>2, <2>3
<1>3. CASE DeferPath \/ DeferFolder
  <2>1. pc' = [pc EXCEPT !["crawler"] = "loop"] /\ UNCHANGED <<cur, job>>
    BY <1>3 DEF DeferPath, DeferFolder
  <2>2. pc' \in [Threads -> Places] /\ PlacesFit'
    BY <2>1
  <2>3. OutsideTypes' /\ BlockTypes' /\ StatusTypes'
    BY <1>3 DEF DeferPath, DeferFolder
  <2>4. UNCHANGED <<cur, new, locals, history, slips>>
    BY <1>3 DEF DeferPath, DeferFolder
  <2>5. QED BY <2>2, <2>3, <2>4
<1>4. CASE TakePath
  <2>1. Head(paths) \in Kinds \X Folders
    BY <1>4, TailIs DEF TakePath, TypeInv, TypeOK, QueueTypes, Paths
  <2>2. /\ job' \in (Kinds \cup {"folder"}) \X Folders /\ job' # <<>>
        /\ todo' \in {<<>>, <<"file">>}
        /\ valid' \in [Folders -> BOOLEAN]
    BY <1>4, <2>1 DEF TakePath, Kinds
  <2>3. pc' \in [Threads -> Places] /\ PlacesFit'
    BY <1>4, <2>2 DEF TakePath, Picking
  <2>4. QED BY <1>4, <2>2, <2>3 DEF TakePath
<1>5. CASE TakeFolder
  <2>1. Head(folders) \in Folders
    BY <1>5, TailIs DEF TakeFolder, TypeInv, TypeOK, QueueTypes
  <2>2. job' \in (Kinds \cup {"folder"}) \X Folders /\ job' # <<>>
    BY <1>5, <2>1 DEF TakeFolder
  <2>3. pc' \in [Threads -> Places] /\ PlacesFit'
    BY <1>5, <2>2 DEF TakeFolder
  <2>4. QED BY <1>5, <2>2, <2>3 DEF TakeFolder
<1>6. CASE Erase
  <2>1. slips' \subseteq {"erased", "late_status"} /\ job' = <<>>
    BY <1>6 DEF Erase
  <2>2. pc' \in [Threads -> Places] /\ PlacesFit'
    BY <1>6 DEF Erase
  <2>3. QED BY <1>6, <2>1, <2>2 DEF Erase
<1>7. QED BY <1>1, <1>2, <1>3, <1>4, <1>5, <1>6

\* ... and when it reads.
LEMMA CrawlsKeepTypes ==
  ASSUME TypeInv, folders # <<>> => folders' # <<>>,
         \/ Begin \/ Enum \/ Store \/ ReadFile \/ StoreFile \/ After \/ Fail \/ FailFile
  PROVE  OtherTypes' /\ PlacesFit'
<1>0. OtherTypes /\ PlacesFit
  BY DEF TypeInv, TypeOK, OtherTypes
<1>1. Here \in Folders /\ pc["crawler"] \in Busy
  BY HereIs DEF Begin, Enum, Store, ReadFile, StoreFile, After, Fail, FailFile, Busy, Reading
<1>2. "crawler" \in Threads /\ job # <<>>
  BY <1>0, <1>1 DEF Threads, PlacesFit
<1> USE <1>0, <1>1, <1>2 DEF OtherTypes, outside, blocks, status, place, locals, history, Goto,
                             Update
<1>3. PlacesFit'
  BY DEF Begin, Enum, Store, ReadFile, StoreFile, After, Fail, FailFile, PlacesFit, PlaceTypes,
         Threads, Places, Busy, Reading, Updating
<1>4. pc' \in [Threads -> Places]
  BY DEF Begin, Enum, Store, ReadFile, StoreFile, After, Fail, FailFile, PlaceTypes, Places
<1>5. OutsideTypes'
  BY DEF Begin, Enum, Store, ReadFile, StoreFile, After, Fail, FailFile, OutsideTypes
<1>6. BlockTypes'
  BY DEF Begin, Enum, Store, ReadFile, StoreFile, After, Fail, FailFile, Retry, BlockTypes
<1>7. cur' \in [Threads -> Folders] /\ new' \in [Threads -> Statuses]
  BY DEF Begin, Enum, Store, ReadFile, StoreFile, After, Fail, FailFile, PlaceTypes, Folders
<1>8. /\ job' = job /\ todo' \in {<<>>, <<"file">>} /\ retry' \in BOOLEAN
      /\ got' \in Statuses
  <2>1. disk[Here] \in Statuses /\ "none" \in Statuses
    BY DEF OutsideTypes, Statuses
  <2>2. QED BY <2>1 DEF Begin, Enum, Store, ReadFile, StoreFile, After, Fail, FailFile, PlaceTypes
<1>9. StatusTypes'
  <2> USE DEF StatusTypes, PlaceTypes, Statuses
  <2>1. CASE Begin
    BY <2>1 DEF Begin
  <2>2. CASE Enum
    BY <2>2 DEF Enum
  <2>3. CASE Store
    BY <2>3 DEF Store
  <2>4. CASE StoreFile
    BY <2>4 DEF StoreFile
  <2>5. CASE Fail
    BY <2>5 DEF Fail
  <2>6. CASE ReadFile \/ After \/ FailFile
    BY <2>6 DEF ReadFile, After, FailFile
  <2>7. QED BY <2>1, <2>2, <2>3, <2>4, <2>5, <2>6
<1>10. failed' \subseteq Folders /\ slips' = slips
  BY DEF Begin, Enum, Store, ReadFile, StoreFile, After, Fail, FailFile
<1>11. PlaceTypes'
  BY <1>4, <1>7, <1>8 DEF PlaceTypes
<1>12. QED BY <1>3, <1>5, <1>6, <1>9, <1>10, <1>11

\* Every step keeps the types.
LEMMA StepKeepsTypes == TypeInv /\ [Next]_vars => TypeInv'
<1> SUFFICES ASSUME TypeInv, [Next]_vars PROVE TypeInv'
  OBVIOUS
<1>1. ASSUME QueueTypes', OtherTypes', PlacesFit' PROVE TypeInv'
  BY <1>1 DEF TypeInv, TypeOK, OtherTypes
<1>2. CASE UNCHANGED vars
  BY <1>2 DEF TypeInv, TypeOK, OutsideTypes, QueueTypes, BlockTypes, StatusTypes, PlaceTypes,
     PlacesFit, vars, outside, queues, blocks, status, place, locals, history
<1>3. CASE Next
  <2>1. ASSUME NEW t \in Threads, UpdateCurrentStatus(t) PROVE TypeInv'
    <3>1. folders' = folders
      BY <2>1 DEF UpdateCurrentStatus, Calc, Write, Tell, queues
    <3>2. QED BY <1>1, <2>1, <3>1, OutsideKeepsQueues, UpdatesKeepTypes
  <2>2. CASE \/ \E f \in Folders : Change(f) \/ GetStatusForPath(f)
             \/ TakeLock \/ DropLock \/ BlockPath \/ UnBlockPath \/ ReadNotifications \/ Time
             \/ \E path \in Paths : AddPathForUpdate(path)
    BY <1>1, <2>2, OutsideKeepsQueues, OutsideKeepsTypes
  <2>3. CASE \/ Wake \/ RemoveTimedoutBlocks \/ Nothing \/ DeferPath \/ TakePath \/ NoPath
             \/ DeferFolder \/ TakeFolder \/ Erase
    BY <1>1, <2>3, PickingKeepsQueues, PickingKeepsTypes
  <2>4. CASE Begin \/ Enum \/ Store \/ ReadFile \/ StoreFile \/ After \/ Fail \/ FailFile
    BY <1>1, <2>4, CrawlsKeepQueues, CrawlsKeepTypes
  <2>5. QED BY <1>3, <2>1, <2>2, <2>3, <2>4 DEF Next, Crawl, Threads
<1>4. QED BY <1>2, <1>3

\* Everything the cache keeps has its type, and no queue has anything twice: what
\* the queues promise ("a queue like container which avoids storing duplicates", UniqueQueue.h:24) holds
\* wherever folders and paths are pushed, moved and erased.
THEOREM Typing == Spec => []TypeOK
<1>1. Spec => []TypeInv
  BY InitTypes, StepKeepsTypes, PTL DEF Spec
<1>2. TypeInv => TypeOK
  BY DEF TypeInv
<1>3. QED BY <1>1, <1>2, PTL

-----------------------------------------------------------------------------
(* What is pending                                                           *)

\* The crawler is at one of some places with a job on f.
At(f, places) == pc["crawler"] \in places /\ Here = f

\* The root will be requested when the lock and the blocks are over.
Suspended == lock \/ lockNoted # "none" \/ noWatch # "none"

\* The folder is requested, or will be with the root; or a change of it or of its
\* file is on its way.
Requested(f) ==
  \/ Root \in Range(folders) \/ f \in Range(folders)
  \/ \E kind \in Kinds : <<kind, f>> \in noted \cup buffer \cup Range(paths)

\* The crawler will read what is in f now, has just read it, or will request f:
\* itself, or with the root.
Underway(f) ==
  \/ At(f, {"begin", "enum", "file"})
  \/ At(f, {"store", "store_file"}) /\ got = disk[f]
  \/ At(f, Updating \cup {"after"}) /\ (retry \/ todo # <<>>)
  \/ At(Root, {"begin", "enum"}) /\ job[1] = "folder"
  \/ At(Root, Updating \cup {"after"}) /\ retry

Pending(f) == Suspended \/ Requested(f) \/ Underway(f)

\* A thread computes the status of f, or is about to store it.
Computes(f) == \E t \in Threads : pc[t] \in {"calc", "write"} /\ cur[t] = f

\* A thread is about to tell the root of it.
Tells(f) == \E t \in Threads : pc[t] = "tell" /\ cur[t] = f

-----------------------------------------------------------------------------
(* The invariant                                                             *)

\* A folder of which the crawler has read something is valid; and of one that is
\* not valid nothing is known, or the crawler begins to read it.
ValidIsRead ==
  /\ \A f \in Folders : At(f, {"file", "store_file", "after", "erase"} \cup Updating) => valid[f]
  /\ \A f \in Folders : valid[f] \/ files[f] = "none" \/ At(f, {"begin"})

\* A folder itself is never modified, only its file.
OwnIsNormal == \A f \in Folders : own[f] \in {"none", "normal"}

\* What is read as something else than it is, will be read.
FilesFollow ==
  \A f \in Folders :
    (valid[f] /\ files[f] # disk[f]) \/ At(f, {"store", "store_file"}) => Pending(f)

\* The subfolders of a root that is valid are, or will be.
ValidBelow ==
  (valid[Root] \/ At(Root, {"store"})) /\ ~At(Root, {"begin", "enum"})
    => \A c \in Subfolders : valid[c] \/ Pending(c)

\* The status of a folder is up to date, or a thread will compute it.
FullFollows ==
  \A f \in Folders : valid[f] /\ full[f] # Recursive(f) => Computes(f) \/ At(f, {"enum", "store"})

\* The root knows the status of a subfolder, or will be told.
ChildFollows ==
  \A c \in Subfolders :
    valid[c] /\ child[c] # full[c] => Computes(c) \/ Tells(c) \/ Pending(c)

\* What the crawl of the root will store of its subfolders is what it knows of them.
TmpFollows ==
  \A c \in Subfolders :
    /\ At(Root, {"enum"}) => childTmp[c] \in {"none", child[c]}
    /\ At(Root, {"store"}) => childTmp[c] = child[c]

\* The inductive invariant: the second half holds as long as no slip was recorded.
CurrentInv ==
  /\ ValidIsRead /\ OwnIsNormal /\ TmpFollows
  /\ slips = {} => FilesFollow /\ ValidBelow /\ FullFollows /\ ChildFollows

\* Initially nothing is valid.
LEMMA InitCurrent == Init => CurrentInv
<1> SUFFICES ASSUME Init PROVE CurrentInv
  OBVIOUS
<1>1. pc["crawler"] = "wait" /\ \A f \in Folders : ~valid[f] /\ files[f] = "none" /\ own[f] = "none"
  BY DEF Init, Threads
<1>2. \A f \in Folders : ~At(f, Reading) /\ ~At(f, Busy)
  BY <1>1 DEF At, Busy, Reading, Updating
<1>3. ValidIsRead /\ OwnIsNormal /\ TmpFollows
  BY <1>1 DEF ValidIsRead, OwnIsNormal, TmpFollows, At, Updating
<1>4. FilesFollow /\ ValidBelow /\ FullFollows
  BY <1>1 DEF FilesFollow, ValidBelow, FullFollows, At, Folders
<1>5. ChildFollows
  BY <1>1 DEF ChildFollows, Folders
<1>6. QED BY <1>3, <1>4, <1>5 DEF CurrentInv

\* What the queues keep stays requested.
LEMMA RequestsStay ==
  ASSUME NEW f, Requested(f), Range(folders) \subseteq Range(folders'),
         noted \cup buffer \cup Range(paths) \subseteq noted' \cup buffer' \cup Range(paths')
  PROVE  Requested(f)'
BY DEF Requested

\* What a crawler does that stays where it is, or has no job, stays underway.
LEMMA CrawlerStays ==
  ASSUME NEW f, Underway(f), disk'[f] = disk[f],
         \/ /\ pc'["crawler"] = pc["crawler"]
            /\ UNCHANGED <<job, todo, got, retry>>
         \/ pc["crawler"] \notin Busy
  PROVE  Underway(f)'
BY DEF Underway, At, Here, Busy, Reading, Updating

\* The status of a folder is computed from what the folder knows.
LEMMA RecursiveStays ==
  ASSUME NEW f, files'[f] = files[f], own'[f] = own[f],
         \A c \in Children(f) : child'[c] = child[c]
  PROVE  Recursive(f)' = Recursive(f)
<1>1. {child'[c] : c \in Children(f)} = {child[c] : c \in Children(f)}
  OBVIOUS
<1>2. Children(f)' = Children(f)
  BY DEF Children
<1>3. QED BY <1>1, <1>2 DEF Recursive, Worst

\* As far as the invariant tells, the crawler is where it was.
SamePlace ==
  \A f : /\ At(f, {"begin"})' = At(f, {"begin"})
         /\ At(f, {"enum"})' = At(f, {"enum"})
         /\ At(f, {"store"})' = At(f, {"store"})
         /\ At(f, {"begin", "enum"})' = At(f, {"begin", "enum"})
         /\ At(f, {"enum", "store"})' = At(f, {"enum", "store"})
         /\ At(f, {"store", "store_file"})' = At(f, {"store", "store_file"})
         /\ At(f, {"file", "store_file", "after", "erase"} \cup Updating)'
              = At(f, {"file", "store_file", "after", "erase"} \cup Updating)

\* A step that changes no status keeps the invariant, if what is pending stays so, if
\* a file that changes is pending, and if the threads that have work stay there.
LEMMA QuietStep ==
  ASSUME TypeInv, CurrentInv, UNCHANGED <<status, slips>>,
         \/ /\ pc'["crawler"] = pc["crawler"] /\ cur'["crawler"] = cur["crawler"]
            /\ job' = job
         \/ pc["crawler"] \notin Busy /\ pc'["crawler"] \notin Busy,
         \/ pc["shell"] = "idle"
         \/ pc'["shell"] = pc["shell"] /\ cur'["shell"] = cur["shell"],
         \A f \in Folders : Pending(f) => Pending(f)',
         \A f \in Folders : disk'[f] # disk[f] => Pending(f)'
  PROVE  CurrentInv'
<1>0. /\ own' = own /\ valid' = valid /\ files' = files /\ full' = full
      /\ child' = child /\ childTmp' = childTmp /\ slips' = slips
  BY DEF status
<1>2. SamePlace
  BY DEF SamePlace, At, Here, Busy, Reading, Updating
<1>3. \A t \in Threads : \/ pc[t] \notin Updating
                         \/ pc'[t] = pc[t] /\ cur'[t] = cur[t]
  BY DEF Threads, Updating, Busy
<1>4. \A f : Computes(f) => Computes(f)'
  BY <1>3 DEF Computes, Updating
<1>5. ValidIsRead' /\ OwnIsNormal' /\ TmpFollows'
  BY <1>0, <1>2 DEF CurrentInv, ValidIsRead, OwnIsNormal, TmpFollows, SamePlace
<1>6. ASSUME slips' = {} PROVE FilesFollow'
  <2>1. FilesFollow
    BY <1>0, <1>6 DEF CurrentInv
  <2>2. QED BY <1>0, <1>2, <2>1 DEF FilesFollow, SamePlace
<1>7. ASSUME slips' = {} PROVE ValidBelow'
  <2>1. ValidBelow /\ Subfolders \subseteq Folders
    BY <1>0, <1>7 DEF CurrentInv, Folders
  <2>2. QED BY <1>0, <1>2, <2>1 DEF ValidBelow, SamePlace
<1>8. ASSUME slips' = {} PROVE FullFollows'
  <2>1. FullFollows
    BY <1>0, <1>8 DEF CurrentInv
  <2>2. \A f \in Folders : Recursive(f)' = Recursive(f)
    BY <1>0, RecursiveStays
  <2>3. QED BY <1>0, <1>2, <1>4, <2>1, <2>2 DEF FullFollows, SamePlace
<1>9. ASSUME slips' = {} PROVE ChildFollows'
  <2>1. ChildFollows /\ Subfolders \subseteq Folders
    BY <1>0, <1>9 DEF CurrentInv, Folders
  <2>2. \A c : Tells(c) => Tells(c)'
    BY <1>3 DEF Tells, Updating
  <2>3. QED BY <1>0, <1>4, <2>1, <2>2 DEF ChildFollows
<1>10. QED BY <1>5, <1>6, <1>7, <1>8, <1>9 DEF CurrentInv

-----------------------------------------------------------------------------
(* The steps                                                                 *)

\* A file that changes is notified, or its change comes with a lock; nothing else
\* outside of the threads takes anything from what is pending.
LEMMA OutsideStaysCurrent ==
  ASSUME TypeInv, CurrentInv,
         \/ \E f \in Folders : Change(f)
         \/ TakeLock \/ DropLock \/ BlockPath \/ UnBlockPath \/ ReadNotifications \/ Time
         \/ \E path \in Paths : AddPathForUpdate(path)
  PROVE  CurrentInv'
<1>0. QueueTypes /\ OutsideTypes /\ BlockTypes
  BY DEF TypeInv, TypeOK
<1>1. ASSUME UNCHANGED <<status, place, locals, slips>>,
             \A f \in Folders : Pending(f) => Pending(f)',
             \A f \in Folders : disk'[f] # disk[f] => Pending(f)'
      PROVE  CurrentInv'
  BY <1>1, QuietStep DEF place, locals
<1>2. ASSUME NEW f \in Folders, Change(f) PROVE CurrentInv'
  <2>1. PICK kinds \in {{"file"}, Kinds} \cup IF lock THEN {{}} ELSE {} :
          noted' = noted \cup (kinds \X {f})
    BY <1>2 DEF Change
  <2>2. /\ disk' = [disk EXCEPT ![f] = IF @ = "normal" THEN "modified" ELSE "normal"]
        /\ UNCHANGED <<lock, buffer, lockNoted, noWatch, paths, folders, status, place, locals,
                      slips>>
    BY <1>2 DEF Change, queues, blocks
  <2>3. Pending(f)'
    <3>1. CASE lock
      BY <2>2, <3>1 DEF Pending, Suspended
    <3>2. CASE ~lock
      <4>1. <<"file", f>> \in noted'
        BY <2>1, <3>2 DEF Kinds
      <4>2. QED BY <4>1 DEF Pending, Requested, Kinds
    <3>3. QED BY <3>1, <3>2
  <2>4. ASSUME NEW g \in Folders, Pending(g), g # f PROVE Pending(g)'
    <3>1. disk'[g] = disk[g]
      BY <1>0, <2>2, <2>4 DEF OutsideTypes
    <3>2. CASE Suspended
      BY <2>2, <3>2 DEF Pending, Suspended
    <3>3. CASE Requested(g)
      BY <2>1, <2>2, <3>3, RequestsStay DEF Pending
    <3>4. CASE Underway(g)
      BY <2>2, <3>1, <3>4, CrawlerStays DEF Pending, place, locals
    <3>5. QED BY <2>4, <3>2, <3>3, <3>4 DEF Pending
  <2>5. \A g \in Folders : disk'[g] # disk[g] => g = f
    BY <1>0, <2>2 DEF OutsideTypes
  <2>6. QED BY <1>1, <2>2, <2>3, <2>4, <2>5
<1>3. ASSUME UNCHANGED <<disk, status, place, locals, slips>>,
             \A f \in Folders : Suspended \/ Requested(f) => Pending(f)'
      PROVE  CurrentInv'
  <2>1. \A f \in Folders : Underway(f) => Underway(f)'
    BY <1>3, CrawlerStays DEF place, locals
  <2>2. QED BY <1>1, <1>3, <2>1 DEF Pending
<1>4. CASE TakeLock \/ BlockPath
  BY <1>3, <1>4 DEF TakeLock, BlockPath, Pending, Suspended
<1>5. CASE DropLock
  BY <1>3, <1>5 DEF DropLock, Pending, Suspended
<1>6. CASE UnBlockPath
  <2>1. CASE lock
    BY <1>3, <1>6, <2>1, RequestsStay DEF UnBlockPath, Pending, Suspended
  <2>2. CASE ~lock
    <3>1. Range(folders') = Range(folders) \cup {Root}
      <4>1. folders \in Seq(Folders) /\ IsInjective(folders) /\ Root \in Folders
        BY <1>0 DEF QueueTypes, Folders
      <4>2. Range(Push(folders, Root)) = Range(folders) \cup {Root}
        BY ONLY <4>1, PushIs
      <4>3. folders' = Push(folders, Root)
        BY <1>6, <2>2 DEF UnBlockPath
      <4>4. QED BY ONLY <4>2, <4>3
    <3>2. \A f : Requested(f)'
      BY <3>1 DEF Requested
    <3>3. QED BY <1>3, <1>6, <3>2 DEF UnBlockPath, Pending
  <2>3. QED BY <2>1, <2>2
<1>7. CASE ReadNotifications
  <2>1. CASE lockNoted = "none"
    <3>1. \A f \in Folders : Requested(f) => Requested(f)'
      BY <1>7, RequestsStay DEF ReadNotifications
    <3>2. Suspended => Suspended'
      BY <1>7, <2>1 DEF ReadNotifications, Suspended
    <3>3. QED BY <1>3, <1>7, <3>1, <3>2 DEF ReadNotifications, Pending
  <2>2. CASE lockNoted # "none"
    <3>1. Suspended'
      BY <1>7, <2>2 DEF ReadNotifications, Suspended
    <3>2. QED BY <1>3, <1>7, <3>1 DEF ReadNotifications, Pending
  <2>3. QED BY <2>1, <2>2
<1>8. CASE Time
  <2>1. \A f \in Folders : Requested(f) => Requested(f)'
    BY <1>8, RequestsStay DEF Time, outside, queues
  <2>2. Suspended => Suspended'
    BY <1>8 DEF Time, outside, Suspended
  <2>3. QED BY <1>3, <1>8, <2>1, <2>2 DEF Time, outside, Pending
<1>9. ASSUME NEW path \in Paths, AddPathForUpdate(path) PROVE CurrentInv'
  <2>1. CASE lock
    BY <1>3, <1>9, <2>1 DEF AddPathForUpdate, Pending, Suspended
  <2>2. CASE ~lock
    <3>1. Range(paths') = Range(paths) \cup {path}
      <4>1. paths \in Seq(Paths) /\ IsInjective(paths)
        BY <1>0 DEF QueueTypes
      <4>2. Range(Push(paths, path)) = Range(paths) \cup {path}
        BY ONLY <4>1, path \in Paths, PushIs
      <4>3. paths' = Push(paths, path)
        BY <1>9, <2>2 DEF AddPathForUpdate
      <4>4. QED BY ONLY <4>2, <4>3
    <3>2. noted \cup buffer \cup Range(paths) \subseteq noted' \cup buffer' \cup Range(paths')
      BY <1>9, <3>1 DEF AddPathForUpdate
    <3>3. \A f \in Folders : Requested(f) => Requested(f)'
      BY <1>9, <3>2, RequestsStay DEF AddPathForUpdate
    <3>4. Suspended => Suspended'
      BY <1>9 DEF AddPathForUpdate, blocks, Suspended
    <3>5. QED BY <1>3, <1>9, <3>3, <3>4 DEF AddPathForUpdate, Pending
  <2>3. QED BY <2>1, <2>2
<1>10. QED BY <1>2, <1>4, <1>5, <1>6, <1>7, <1>8, <1>9

\* What is suspended stays so as long as the crawler and the shell work.
LEMMA SuspendedStays ==
  ASSUME Suspended, UNCHANGED <<lock, lockNoted, noWatch>>
  PROVE  Suspended'
BY DEF Suspended

\* A question of the shell only adds requests, and lets it compute a status.
LEMMA AsksStayCurrent ==
  ASSUME TypeInv, CurrentInv, NEW f \in Folders, GetStatusForPath(f)
  PROVE  CurrentInv'
<1>0. QueueTypes /\ PlaceTypes
  BY DEF TypeInv, TypeOK
<1>1. /\ UNCHANGED <<outside, paths, blocks, status, locals, slips>>
      /\ pc["shell"] = "idle"
      /\ pc'["crawler"] = pc["crawler"] /\ cur'["crawler"] = cur["crawler"]
  BY <1>0 DEF GetStatusForPath, Goto, PlaceTypes, Threads
<1>2. PICK fs \in SUBSET Folders : AddFolders(fs)
  BY DEF GetStatusForPath, Folders
<1>3. Range(folders) \subseteq Range(folders')
  BY <1>0, <1>2, AddFoldersIs
<1>4. ASSUME NEW g \in Folders, Pending(g) PROVE Pending(g)'
  <2>1. CASE Suspended
    BY <1>1, <2>1, SuspendedStays DEF Pending, outside, blocks
  <2>2. CASE Requested(g)
    BY <1>1, <1>3, <2>2, RequestsStay DEF Pending, outside
  <2>3. CASE Underway(g)
    BY <1>1, <2>3, CrawlerStays DEF Pending, outside, locals
  <2>4. QED BY <1>4, <2>1, <2>2, <2>3 DEF Pending
<1>5. QED BY <1>1, <1>4, QuietStep DEF outside, locals

\* The crawler leaves what is blocked in its queues, and drops a folder only if its
\* root is requested or suspended.
LEMMA PickingStaysCurrent ==
  ASSUME TypeInv, CurrentInv,
         \/ Wake \/ RemoveTimedoutBlocks \/ Nothing \/ DeferPath \/ NoPath \/ DeferFolder
  PROVE  CurrentInv'
<1>0. QueueTypes /\ PlaceTypes /\ PlacesFit /\ BlockTypes
  BY DEF TypeInv, TypeOK
<1>1. /\ pc["crawler"] \notin Busy /\ pc'["crawler"] \notin Busy
      /\ pc'["shell"] = pc["shell"]
      /\ UNCHANGED <<outside, status, cur, locals, slips>>
  <2> USE <1>0 DEF PlaceTypes, Threads, Goto, Picking, Busy, Reading, Updating
  <2>1. CASE Wake \/ Nothing \/ NoPath
    BY <2>1 DEF Wake, Nothing, NoPath
  <2>2. CASE RemoveTimedoutBlocks
    BY <2>2 DEF RemoveTimedoutBlocks
  <2>3. CASE DeferPath \/ DeferFolder
    BY <2>3 DEF DeferPath, DeferFolder
  <2>4. QED BY <2>1, <2>2, <2>3
<1>2. \A f : ~Underway(f)
  BY <1>1 DEF Underway, At, Busy, Reading, Updating
<1>3. ASSUME \A f \in Folders : Suspended \/ Requested(f) => Pending(f)'
      PROVE  CurrentInv'
  BY <1>1, <1>2, <1>3, QuietStep DEF Pending, outside
<1>4. CASE Wake \/ Nothing \/ NoPath
  <2>1. UNCHANGED <<paths, folders, noWatch>>
    BY <1>4 DEF Wake, Nothing, NoPath, queues, blocks
  <2>2. QED BY <1>1, <1>3, <2>1, RequestsStay, SuspendedStays DEF Pending, outside
<1>5. CASE RemoveTimedoutBlocks
  <2>1. paths' = paths /\ noWatch' = IF noWatch = "over" THEN "none" ELSE noWatch
    BY <1>5 DEF RemoveTimedoutBlocks
  <2>2. PICK fs \in SUBSET Folders :
          AddFolders(fs) /\ (noWatch = "over" => Root \in fs)
    BY <1>5 DEF RemoveTimedoutBlocks, Folders
  <2>3. /\ Range(folders) \subseteq Range(folders')
        /\ lock \/ ~IsPathGood \/ fs \subseteq Range(folders')
    BY <1>0, <2>2, AddFoldersIs
  <2>4. Suspended => Suspended' \/ Root \in Range(folders')
    BY <1>1, <2>1, <2>2, <2>3 DEF Suspended, IsPathGood, outside
  <2>5. \A f : Requested(f) => Requested(f)'
    BY <1>1, <2>1, <2>3, RequestsStay DEF outside
  <2>6. QED BY <1>3, <2>4, <2>5 DEF Pending, Requested
<1>6. CASE DeferPath
  <2>1. paths # <<>> /\ UNCHANGED <<folders, noWatch>>
    BY <1>6 DEF DeferPath, blocks
  <2>2. CASE ~IsPathGood
    BY <1>3, <2>1, <2>2 DEF Pending, Suspended, IsPathGood
  <2>3. CASE IsPathGood
    <3>1. Head(paths) \in Paths /\ Head(paths) \in Range(paths)
      BY <1>0, <2>1, TailIs DEF QueueTypes
    <3>2. paths' = Push(Tail(paths), Head(paths))
      BY <1>6, <2>3 DEF DeferPath
    <3>3. Range(paths') = (Range(paths) \ {Head(paths)}) \cup {Head(paths)}
      BY <1>0, <2>1, <3>1, <3>2, DeferIs DEF QueueTypes
    <3>4. Range(paths) \subseteq Range(paths')
      BY <3>3
    <3>5. QED BY <1>1, <1>3, <2>1, <3>4, RequestsStay, SuspendedStays DEF Pending, outside
  <2>4. QED BY <2>2, <2>3
<1>7. CASE DeferFolder
  <2>1. folders # <<>> /\ UNCHANGED <<paths, noWatch>>
    BY <1>0, <1>7 DEF DeferFolder, blocks, PlacesFit
  <2>2. PICK f \in Folders : f = Head(folders)
    BY <1>0, <2>1, TailIs DEF QueueTypes
  <2>3. PICK rest \in Seq(Folders) : rest = Tail(folders) /\ Range(rest) = Range(folders) \ {f}
    BY <1>0, <2>1, <2>2, TailIs DEF QueueTypes, Lost
  <2>4. CASE ~IsPathGood
    BY <1>3, <2>1, <2>4 DEF Pending, Suspended, IsPathGood
  <2>5. CASE folders' = Push(rest, f)
    <3>1. f \in Range(folders)
      BY <1>0, <2>1, <2>2, TailIs DEF QueueTypes
    <3>2. Range(folders') = (Range(folders) \ {f}) \cup {f}
      BY <1>0, <2>1, <2>2, <2>3, <2>5, DeferIs DEF QueueTypes
    <3>3. Range(folders) \subseteq Range(folders')
      BY <3>2
    <3>4. QED BY <1>1, <1>3, <2>1, <3>3, RequestsStay, SuspendedStays DEF Pending, outside
  <2>6. CASE folders' = rest /\ Covered(f, rest)
    <3>1. Root \in Range(rest)
      BY <2>2, <2>3, <2>6 DEF Covered, Covers, Range
    <3>2. \A g : Requested(g)'
      BY <2>6, <3>1 DEF Requested
    <3>3. QED BY <1>3, <3>2 DEF Pending
  <2>7. QED BY <1>7, <2>2, <2>3, <2>4, <2>5, <2>6 DEF DeferFolder
<1>8. QED BY <1>4, <1>5, <1>6, <1>7

\* While a thread computes a status, what is pending stays so.
LEMMA UpdateStays ==
  ASSUME TypeInv, CurrentInv, NEW t \in Threads, UpdateCurrentStatus(t)
  PROVE  /\ \A u \in Threads \ {t} : pc'[u] = pc[u] /\ cur'[u] = cur[u]
         /\ \A f \in Folders : Pending(f) => Pending(f)'
         /\ SamePlace
<1>0. PlaceTypes /\ PlacesFit
  BY DEF TypeInv, TypeOK
<1>1. /\ UNCHANGED <<outside, queues, blocks, locals>>
      /\ pc[t] \in Updating
      /\ \A u \in Threads \ {t} : pc'[u] = pc[u] /\ cur'[u] = cur[u]
      /\ pc'[t] \in {"calc", "write", "tell", Told(t)}
  BY <1>0 DEF UpdateCurrentStatus, Calc, Write, Tell, Goto, PlaceTypes, Updating
<1>2. \/ pc'["crawler"] = pc["crawler"]
      \/ pc["crawler"] \in Updating /\ pc'["crawler"] \in Updating \cup {"after"}
  BY <1>1 DEF Threads, Told, Updating
<1>3. SamePlace
  BY <1>1, <1>2 DEF SamePlace, At, Here, Updating, locals
<1>6. \A f : /\ At(f, {"begin", "enum", "file"})' = At(f, {"begin", "enum", "file"})
             /\ At(f, Updating \cup {"after"})' = At(f, Updating \cup {"after"})
  BY <1>1, <1>2 DEF At, Here, Updating, locals
<1>4. ASSUME NEW f \in Folders, Pending(f) PROVE Pending(f)'
  <2>1. CASE Suspended
    BY <1>1, <2>1, SuspendedStays DEF Pending, outside, blocks
  <2>2. CASE Requested(f)
    BY <1>1, <2>2, RequestsStay DEF Pending, outside, queues
  <2>3. CASE Underway(f)
    <3>1. UNCHANGED <<disk, job, todo, got, retry>>
      BY <1>1 DEF outside, locals
    <3>2. Underway(f)'
      BY <1>3, <1>6, <2>3, <3>1 DEF Underway, SamePlace
    <3>3. QED BY <3>2 DEF Pending
  <2>4. QED BY <1>4, <2>1, <2>2, <2>3 DEF Pending
<1>5. QED BY <1>1, <1>3, <1>4

\* A status that is stored without a slip is what the folder would compute now.
LEMMA UpdatesStayCurrent ==
  ASSUME TypeInv, CurrentInv, NEW t \in Threads, UpdateCurrentStatus(t)
  PROVE  CurrentInv'
<1>0. PlaceTypes /\ PlacesFit /\ StatusTypes /\ OutsideTypes
  BY DEF TypeInv, TypeOK
<1>1. \A u \in Threads \ {t} : pc'[u] = pc[u] /\ cur'[u] = cur[u]
  BY UpdateStays
<1>2. \A f \in Folders : Pending(f) => Pending(f)'
  BY UpdateStays
<1>3. SamePlace
  BY UpdateStays
<1>4. UNCHANGED <<disk, own, valid, files>>
  BY DEF UpdateCurrentStatus, Calc, Write, Tell, outside, status
<1>5. PICK f \in Folders : f = cur[t]
  BY <1>0 DEF PlaceTypes
<1>6. slips' = {} => slips = {}
  BY DEF UpdateCurrentStatus, Calc, Write, Tell, Late
<1>7. ValidIsRead' /\ OwnIsNormal'
  BY <1>3, <1>4 DEF CurrentInv, ValidIsRead, OwnIsNormal, SamePlace
<1>8. ASSUME slips' = {} PROVE FilesFollow' /\ ValidBelow'
  <2>1. FilesFollow /\ ValidBelow /\ Subfolders \subseteq Folders
    BY <1>6, <1>8 DEF CurrentInv, Folders
  <2>2. FilesFollow'
    BY <1>2, <1>3, <1>4, <2>1 DEF FilesFollow, SamePlace
  <2>3. ValidBelow'
    BY <1>2, <1>3, <1>4, <2>1 DEF ValidBelow, SamePlace
  <2>4. QED BY <2>2, <2>3
<1>9. CASE Calc(t)
  <2>1. /\ UNCHANGED <<child, childTmp, full, cur>>
        /\ pc[t] = "calc" /\ pc'[t] = "write"
    BY <1>0, <1>9 DEF Calc, Goto, status, PlaceTypes
  <2>2. \A g : Computes(g) => Computes(g)'
    BY <1>1, <2>1 DEF Computes
  <2>3. TmpFollows'
    BY <1>3, <2>1 DEF CurrentInv, TmpFollows, SamePlace
  <2>4. \A g : Recursive(g)' = Recursive(g)
    BY <1>4, <2>1, RecursiveStays
  <2>5. ASSUME slips' = {} PROVE FullFollows'
    <3>1. FullFollows
      BY <1>6, <2>5 DEF CurrentInv
    <3>2. QED BY <1>3, <1>4, <2>1, <2>2, <2>4, <3>1 DEF FullFollows, SamePlace
  <2>6. ASSUME slips' = {} PROVE ChildFollows'
    <3>1. ChildFollows /\ Subfolders \subseteq Folders
      BY <1>6, <2>6 DEF CurrentInv, Folders
    <3>2. \A c : Tells(c) => Tells(c)'
      BY <1>1, <2>1 DEF Tells
    <3>3. QED BY <1>2, <1>4, <2>1, <2>2, <3>1, <3>2 DEF ChildFollows
  <2>7. QED BY <1>7, <1>8, <2>3, <2>5, <2>6 DEF CurrentInv
<1>10. CASE Write(t)
  <2>1. /\ UNCHANGED <<child, childTmp, cur>> /\ pc[t] = "write"
        /\ full' = [full EXCEPT ![f] = IF valid[f] THEN new[t] ELSE @]
        /\ f # Root => pc'[t] = "tell"
    BY <1>0, <1>5, <1>10 DEF Write, Goto, PlaceTypes
  <2>2. \A g : g # f /\ Computes(g) => Computes(g)'
    BY <1>1, <1>5 DEF Computes
  <2>3. TmpFollows'
    BY <1>3, <2>1 DEF CurrentInv, TmpFollows, SamePlace
  <2>4. \A g : Recursive(g)' = Recursive(g)
    BY <1>4, <2>1, RecursiveStays
  <2>5. \A g \in Folders : g # f => full'[g] = full[g]
    BY <1>0, <2>1 DEF StatusTypes
  <2>6. ASSUME slips' = {} PROVE FullFollows'
    <3>1. FullFollows /\ new[t] = Recursive(f)
      BY <1>5, <1>6, <1>10, <2>6 DEF CurrentInv, Write, Late
    <3>2. valid[f] => full'[f] = Recursive(f)
      BY <1>0, <2>1, <3>1 DEF StatusTypes
    <3>3. QED BY <1>3, <1>4, <2>2, <2>4, <2>5, <3>1, <3>2 DEF FullFollows, SamePlace
  <2>7. ASSUME slips' = {} PROVE ChildFollows'
    <3>1. ChildFollows /\ Subfolders \subseteq Folders /\ Root \notin Subfolders
      BY <1>6, <2>7, CacheAssumption DEF CurrentInv, Folders
    <3>2. \A c : Tells(c) => Tells(c)'
      BY <1>1, <2>1 DEF Tells
    <3>3. f # Root => Tells(f)'
      BY <1>5, <2>1 DEF Tells
    <3>4. QED BY <1>2, <1>4, <2>1, <2>2, <2>5, <3>1, <3>2, <3>3 DEF ChildFollows
  <2>8. QED BY <1>7, <1>8, <2>3, <2>6, <2>7 DEF CurrentInv
<1>11. CASE Tell(t)
  <2>1. /\ pc[t] = "tell" /\ full' = full
        /\ child' = [child EXCEPT ![f] = new[t]]
        /\ childTmp' = [childTmp EXCEPT ![f] = new[t]]
        /\ cur'[t] = Root
        /\ child[f] # new[t] \/ ~valid[Root] => pc'[t] = "calc"
    BY <1>0, <1>5, <1>11 DEF Tell, Goto, PlaceTypes
  <2>2. f \in Subfolders /\ f # Root
    BY <1>0, <1>5, <2>1 DEF PlacesFit, Folders
  <2>3. \A g : Computes(g) => Computes(g)'
    BY <1>1, <2>1 DEF Computes
  <2>4. /\ child'[f] = new[t] /\ childTmp'[f] = new[t]
        /\ \A c \in Subfolders : c # f => child'[c] = child[c] /\ childTmp'[c] = childTmp[c]
    BY <1>0, <2>1, <2>2 DEF StatusTypes
  <2>5. TmpFollows'
    BY <1>3, <2>4 DEF CurrentInv, TmpFollows, SamePlace
  <2>6. \A g \in Folders : g # Root \/ child'[f] = child[f] => Recursive(g)' = Recursive(g)
    BY <1>4, <2>4, RecursiveStays DEF Children
  <2>7. ASSUME slips' = {} PROVE FullFollows'
    <3>1. FullFollows
      BY <1>6, <2>7 DEF CurrentInv
    <3>2. child'[f] # child[f] => Computes(Root)'
      BY <2>1, <2>4 DEF Computes
    <3>3. QED BY <1>3, <1>4, <2>1, <2>3, <2>6, <3>1, <3>2 DEF FullFollows, SamePlace
  <2>8. ASSUME slips' = {} PROVE ChildFollows'
    <3>1. ChildFollows /\ Subfolders \subseteq Folders /\ new[t] = full[f]
      BY <1>5, <1>6, <1>11, <2>8 DEF CurrentInv, Folders, Tell, Late
    <3>2. \A c : c # f /\ Tells(c) => Tells(c)'
      BY <1>1, <1>5, <2>1 DEF Tells
    <3>3. QED BY <1>2, <1>4, <2>1, <2>3, <2>4, <3>1, <3>2 DEF ChildFollows
  <2>9. QED BY <1>7, <1>8, <2>5, <2>7, <2>8 DEF CurrentInv
<1>12. QED BY <1>9, <1>10, <1>11 DEF UpdateCurrentStatus

\* A step of the crawler leaves the shell, and what is outside, where it is.
LEMMA CrawlerSteps ==
  ASSUME TypeInv,
         \/ TakePath \/ TakeFolder \/ Begin \/ Enum \/ Store \/ ReadFile \/ StoreFile
         \/ After \/ Erase \/ Fail \/ FailFile
  PROVE  /\ UNCHANGED <<outside, noWatch>>
         /\ \A f : Computes(f) => Computes(f)'
         /\ \A f : Tells(f) => Tells(f)'
<1>1. /\ UNCHANGED <<outside, noWatch>> /\ pc["crawler"] \notin Updating
      /\ pc'["shell"] = pc["shell"] /\ cur'["shell"] = cur["shell"]
  <2> USE DEF TypeInv, TypeOK, PlaceTypes, Threads, Goto, Update, Updating, Picking
  <2>1. CASE TakePath
    BY <2>1 DEF TakePath, blocks
  <2>2. CASE TakeFolder \/ Erase
    BY <2>2 DEF TakeFolder, Erase, blocks
  <2>3. CASE Begin \/ Enum \/ ReadFile
    BY <2>3 DEF Begin, Enum, ReadFile, blocks
  <2>4. CASE Store \/ StoreFile
    BY <2>4 DEF Store, StoreFile, blocks
  <2>5. CASE After
    BY <2>5 DEF After
  <2>6. CASE Fail \/ FailFile
    BY <2>6 DEF Fail, FailFile, blocks
  <2>7. QED BY <2>1, <2>2, <2>3, <2>4, <2>5, <2>6
<1>2. QED BY <1>1 DEF Computes, Tells, Threads, Updating

\* A step of the crawler that changes no status keeps the invariant, if what is pending
\* stays so and if the step does not read or store a folder as a whole.
LEMMA SimpleStep ==
  ASSUME TypeInv, CurrentInv, UNCHANGED <<disk, status>>, slips' = {} => slips = {},
         pc["crawler"] \notin {"begin", "enum", "store"},
         pc'["crawler"] \notin {"enum", "store"},
         \A f \in Folders : Pending(f) => Pending(f)',
         \A f : Computes(f) => Computes(f)', \A f : Tells(f) => Tells(f)',
         \A f \in Folders : At(f, {"store_file"})' => Pending(f)',
         ValidIsRead'
  PROVE  CurrentInv'
<1>1. /\ own' = own /\ valid' = valid /\ files' = files /\ full' = full
      /\ child' = child /\ childTmp' = childTmp /\ Subfolders \subseteq Folders
  BY DEF status, Folders
<1>2. OwnIsNormal' /\ TmpFollows'
  BY <1>1 DEF CurrentInv, OwnIsNormal, TmpFollows, At
<1>3. ASSUME slips = {} PROVE FilesFollow'
  BY <1>1, <1>3 DEF CurrentInv, FilesFollow, At
<1>4. ASSUME slips = {} PROVE ValidBelow'
  BY <1>1, <1>4 DEF CurrentInv, ValidBelow, At
<1>5. ASSUME slips = {} PROVE FullFollows'
  <2>1. \A f : Recursive(f)' = Recursive(f)
    BY <1>1, RecursiveStays
  <2>2. FullFollows
    BY <1>5 DEF CurrentInv
  <2>3. \A f \in Folders : ~At(f, {"enum", "store"})
    BY DEF At
  <2>4. QED BY <1>1, <2>1, <2>2, <2>3 DEF FullFollows
<1>6. ASSUME slips = {} PROVE ChildFollows'
  BY <1>1, <1>6 DEF CurrentInv, ChildFollows
<1>7. QED BY <1>2, <1>3, <1>4, <1>5, <1>6 DEF CurrentInv

\* A path that is taken is read next, and its folder is not valid before it is read.
LEMMA TakePathStaysCurrent ==
  ASSUME TypeInv, CurrentInv, TakePath
  PROVE  CurrentInv'
<1>0. QueueTypes /\ PlaceTypes /\ StatusTypes
  BY DEF TypeInv, TypeOK
<1>1. /\ UNCHANGED <<outside, noWatch>>
      /\ \A g : Computes(g) => Computes(g)'
      /\ \A g : Tells(g) => Tells(g)'
  BY CrawlerSteps
<1>2. /\ paths # <<>> /\ paths' = Tail(paths)
      /\ UNCHANGED <<folders, own, files, child, childTmp, full, slips>>
      /\ pc["crawler"] \in {"pick", "pick_again"}
  BY DEF TakePath, Picking
<1>3. PICK noticed \in Kinds, f \in Folders : Head(paths) = <<noticed, f>>
  BY <1>0, <1>2, TailIs DEF QueueTypes, Paths
<1>4. Head(paths)[1] = noticed /\ Head(paths)[2] = f
  BY <1>3
<1>4a. PICK kind \in {noticed, "dir"} :
         /\ job' = <<kind, f>>
         /\ valid' = [valid EXCEPT ![f] = @ /\ kind # "dir"]
         /\ pc' = [pc EXCEPT !["crawler"] = IF kind = "file" /\ valid[f] THEN "file" ELSE "begin"]
  BY <1>4 DEF TakePath, Goto
<1>5. /\ valid'[f] = (valid[f] /\ kind # "dir")
      /\ \A g \in Folders : g # f => valid'[g] = valid[g]
      /\ pc'["crawler"] = IF kind = "file" /\ valid[f] THEN "file" ELSE "begin"
  BY <1>0, <1>4a DEF StatusTypes, PlaceTypes, Threads
<1>6. Here' = f /\ (kind # "dir" => kind = "file")
  BY <1>4a DEF Here, Kinds
<1>7. Pending(f)'
  BY <1>5, <1>6 DEF Pending, Underway, At
<1>8. ASSUME NEW g \in Folders, Pending(g) PROVE Pending(g)'
  <2>1. CASE Suspended
    BY <1>1, <2>1, SuspendedStays DEF Pending, outside
  <2>2. CASE Requested(g) /\ g # f
    <3>1. Range(paths') = Range(paths) \ {<<noticed, f>>}
      BY <1>0, <1>2, <1>3, TailIs DEF QueueTypes, Lost
    <3>2. QED BY <1>1, <1>2, <2>2, <3>1 DEF Requested, Pending, outside
  <2>3. ~Underway(g)
    BY <1>2 DEF Underway, At, Updating
  <2>4. QED BY <1>7, <1>8, <2>1, <2>2, <2>3 DEF Pending
<1>9. \A g : ~At(g, {"begin"}) /\ ~At(g, {"begin", "enum"}) /\ ~At(g, {"enum", "store"})
  BY <1>2 DEF At
<1>10. \A g : /\ ~At(g, {"enum"})' /\ ~At(g, {"store"})' /\ ~At(g, {"store", "store_file"})'
              /\ At(g, {"begin"})' = (g = f /\ ~(kind = "file" /\ valid[f]))
              /\ At(g, {"file", "store_file", "after", "erase"} \cup Updating)'
                   = (g = f /\ kind = "file" /\ valid[f])
  BY <1>5, <1>6 DEF At, Updating
<1>11. ValidIsRead'
  <2>1. \A g \in Folders : valid[g] \/ files[g] = "none"
    BY <1>9 DEF CurrentInv, ValidIsRead
  <2>2. QED BY <1>2, <1>5, <1>6, <1>10, <2>1 DEF ValidIsRead
<1>12. OwnIsNormal' /\ TmpFollows'
  BY <1>2, <1>10 DEF CurrentInv, OwnIsNormal, TmpFollows
<1>13. \A g \in Folders : valid'[g] => valid[g]
  BY <1>5
<1>14. ASSUME slips = {} PROVE FilesFollow'
  BY <1>1, <1>2, <1>8, <1>10, <1>13, <1>14 DEF CurrentInv, FilesFollow, outside
<1>15. ASSUME slips = {} PROVE ValidBelow'
  BY <1>5, <1>7, <1>8, <1>9, <1>10, <1>13, <1>15 DEF CurrentInv, ValidBelow, Folders
<1>16. ASSUME slips = {} PROVE FullFollows'
  <2>1. \A g : Recursive(g)' = Recursive(g)
    BY <1>2, RecursiveStays
  <2>2. FullFollows
    BY <1>16 DEF CurrentInv
  <2>3. QED BY <1>1, <1>2, <1>9, <1>13, <2>1, <2>2 DEF FullFollows
<1>17. ASSUME slips = {} PROVE ChildFollows'
  BY <1>1, <1>2, <1>8, <1>13, <1>17 DEF CurrentInv, ChildFollows, Folders
<1>18. QED BY <1>2, <1>11, <1>12, <1>14, <1>15, <1>16, <1>17 DEF CurrentInv

\* A folder that is taken is read next.
LEMMA TakeFolderStaysCurrent ==
  ASSUME TypeInv, CurrentInv, TakeFolder
  PROVE  CurrentInv'
<1>0. QueueTypes /\ PlaceTypes /\ PlacesFit
  BY DEF TypeInv, TypeOK
<1>1. /\ UNCHANGED <<outside, noWatch>>
      /\ \A g : Computes(g) => Computes(g)'
      /\ \A g : Tells(g) => Tells(g)'
  BY CrawlerSteps
<1>2. /\ pc["crawler"] = "folder" /\ folders # <<>> /\ folders' = Tail(folders)
      /\ UNCHANGED <<paths, status, slips>>
      /\ pc'["crawler"] = "begin"
  BY <1>0 DEF TakeFolder, Goto, PlaceTypes, PlacesFit, Threads
<1>3. PICK f \in Folders : f = Head(folders) /\ job' = <<"folder", f>> /\ Here' = f
  BY <1>0, <1>2, TailIs DEF TakeFolder, QueueTypes, Here
<1>4. Range(folders') = Range(folders) \ {f}
  BY <1>0, <1>2, <1>3, TailIs DEF QueueTypes, Lost
<1>5. ASSUME NEW g \in Folders, Pending(g) PROVE Pending(g)'
  <2>1. CASE Suspended
    BY <1>1, <2>1, SuspendedStays DEF Pending, outside
  <2>2. CASE f = g \/ f = Root
    BY <1>2, <1>3, <2>2 DEF Pending, Underway, At
  <2>3. CASE Requested(g) /\ f # g /\ f # Root
    BY <1>1, <1>2, <1>4, <2>3 DEF Requested, Pending, outside
  <2>4. ~Underway(g)
    BY <1>2 DEF Underway, At, Updating
  <2>5. QED BY <1>5, <2>1, <2>2, <2>3, <2>4 DEF Pending
<1>6. ValidIsRead'
  BY <1>2 DEF CurrentInv, ValidIsRead, At, Updating, status
<1>7. \A g : ~At(g, {"store_file"})'
  BY <1>2 DEF At
<1>8. QED BY <1>1, <1>2, <1>5, <1>6, <1>7, SimpleStep DEF outside

\* A folder that the crawler begins to read is pending.
LEMMA BeginStaysCurrent ==
  ASSUME TypeInv, CurrentInv, Begin
  PROVE  CurrentInv'
<1>0. PlaceTypes /\ StatusTypes
  BY DEF TypeInv, TypeOK
<1>1. /\ UNCHANGED <<outside, noWatch>>
      /\ \A g : Computes(g) => Computes(g)'
      /\ \A g : Tells(g) => Tells(g)'
  BY CrawlerSteps
<1>2. /\ UNCHANGED <<queues, own, valid, child, full, locals, slips>>
      /\ pc["crawler"] = "begin" /\ pc'["crawler"] = "enum"
  BY <1>0 DEF Begin, Goto, PlaceTypes, Threads
<1>3. PICK f \in Folders : f = Here /\ f = Here'
  BY <1>2, HereIs DEF Busy, Reading, Here, locals
<1>4. /\ files'[f] = "none" /\ \A g \in Folders : g # f => files'[g] = files[g]
      /\ f = Root => \A c \in Subfolders : childTmp'[c] = "none"
  BY <1>0, <1>3 DEF Begin, Children, StatusTypes
<1>5. ASSUME NEW g \in Folders, Pending(g) PROVE Pending(g)'
  <2>1. CASE Suspended
    BY <1>1, <2>1, SuspendedStays DEF Pending, outside
  <2>2. CASE Requested(g)
    BY <1>1, <1>2, <2>2, RequestsStay DEF Pending, outside, queues
  <2>3. CASE Underway(g)
    BY <1>2, <1>3, <2>3 DEF Pending, Underway, At, Updating, locals
  <2>4. QED BY <1>5, <2>1, <2>2, <2>3 DEF Pending
<1>6. Pending(f)'
  BY <1>2, <1>3 DEF Pending, Underway, At
<1>7. \A g : At(g, {"begin"}) = (g = f) /\ ~At(g, {"begin"})' /\ ~At(g, {"enum", "store"})
  BY <1>2, <1>3 DEF At
<1>8. \A g : /\ At(g, {"begin", "enum"})' = (g = f) /\ At(g, {"begin", "enum"}) = (g = f)
             /\ At(g, {"enum", "store"})' = (g = f)
             /\ At(g, {"enum"})' = (g = f)
             /\ ~At(g, {"store"})' /\ ~At(g, {"store", "store_file"})'
             /\ ~At(g, {"file", "store_file", "after", "erase"} \cup Updating)'
  BY <1>2, <1>3 DEF At, Updating
<1>9. ValidIsRead'
  BY <1>2, <1>4, <1>7, <1>8 DEF CurrentInv, ValidIsRead
<1>10. OwnIsNormal' /\ TmpFollows'
  BY <1>2, <1>4, <1>8 DEF CurrentInv, OwnIsNormal, TmpFollows
<1>11. ASSUME slips = {} PROVE FilesFollow'
  BY <1>1, <1>2, <1>4, <1>5, <1>6, <1>8, <1>11 DEF CurrentInv, FilesFollow, outside
<1>12. ASSUME slips = {} PROVE ValidBelow'
  BY <1>2, <1>5, <1>8, <1>12 DEF CurrentInv, ValidBelow, Folders
<1>13. ASSUME slips = {} PROVE FullFollows'
  <2>1. \A g \in Folders : g # f => Recursive(g)' = Recursive(g)
    BY <1>2, <1>4, RecursiveStays
  <2>2. FullFollows
    BY <1>13 DEF CurrentInv
  <2>3. QED BY <1>1, <1>2, <1>7, <1>8, <2>1, <2>2 DEF FullFollows
<1>14. ASSUME slips = {} PROVE ChildFollows'
  BY <1>1, <1>2, <1>5, <1>14 DEF CurrentInv, ChildFollows, Folders
<1>15. QED BY <1>2, <1>9, <1>10, <1>11, <1>12, <1>13, <1>14 DEF CurrentInv

\* The status that git gives is that of now, and the subfolders that are crawled with
\* the root, or must be, are requested, or the root will be.
LEMMA EnumStaysCurrent ==
  ASSUME TypeInv, CurrentInv, Enum
  PROVE  CurrentInv'
<1>0. PlaceTypes /\ StatusTypes /\ QueueTypes
  BY DEF TypeInv, TypeOK
<1>1. /\ UNCHANGED <<outside, noWatch>>
      /\ \A g : Computes(g) => Computes(g)'
      /\ \A g : Tells(g) => Tells(g)'
  BY CrawlerSteps
<1>2. /\ UNCHANGED <<paths, own, valid, files, child, full, job, slips>>
      /\ pc["crawler"] = "enum" /\ pc'["crawler"] = "store"
  BY <1>0 DEF Enum, Goto, PlaceTypes, Threads
<1>3. PICK f \in Folders : f = Here /\ f = Here' /\ got' = disk[f]
  BY <1>2, HereIs DEF Enum, Busy, Reading, Here
<1>4. f = Root => \A c \in Subfolders :
        childTmp'[c] = IF child[c] # "none" THEN child[c] ELSE childTmp[c]
  BY <1>0, <1>3 DEF Enum, Children
<1>5. /\ Range(folders) \subseteq Range(folders')
      /\ f = Root => \A c \in Subfolders :
           job[1] = "folder" \/ ~valid[c] => Suspended' \/ c \in Range(folders')
  <2>1. PICK fs : AddFolders(fs) /\ fs = {c \in Children(f) : job[1] = "folder" \/ ~valid[c]}
    BY <1>3 DEF Enum
  <2>2. fs \in SUBSET Folders
    BY <2>1 DEF Children, Folders
  <2>3. /\ Range(folders) \subseteq Range(folders')
        /\ lock \/ ~IsPathGood \/ fs \subseteq Range(folders')
    BY <1>0, <2>1, <2>2, AddFoldersIs
  <2>4. lock \/ ~IsPathGood => Suspended'
    BY <1>1 DEF Suspended, IsPathGood, outside
  <2>5. QED BY <2>1, <2>3, <2>4 DEF Children
<1>6. Pending(f)'
  BY <1>1, <1>2, <1>3 DEF Pending, Underway, At, outside
<1>7. ASSUME NEW g \in Folders, Pending(g) PROVE Pending(g)'
  <2>1. CASE Suspended
    BY <1>1, <2>1, SuspendedStays DEF Pending, outside
  <2>2. CASE Requested(g)
    BY <1>1, <1>2, <1>5, <2>2, RequestsStay DEF Pending, outside
  <2>3. CASE Underway(g) /\ g # f
    <3>1. f = Root /\ job[1] = "folder"
      BY <1>2, <1>3, <2>3 DEF Underway, At, Updating
    <3>2. g \in Subfolders
      BY <2>3, <3>1 DEF Folders
    <3>3. QED BY <1>5, <3>1, <3>2 DEF Pending, Requested
  <2>4. QED BY <1>6, <1>7, <2>1, <2>2, <2>3 DEF Pending
<1>8. \A g : /\ ~At(g, {"begin"}) /\ ~At(g, {"begin"})'
             /\ At(g, {"enum", "store"}) = (g = f) /\ At(g, {"enum", "store"})' = (g = f)
             /\ At(g, {"begin", "enum"}) = (g = f)
             /\ At(g, {"enum"}) = (g = f) /\ ~At(g, {"enum"})'
             /\ At(g, {"store"})' = (g = f) /\ At(g, {"store", "store_file"})' = (g = f)
             /\ ~At(g, {"file", "store_file", "after", "erase"} \cup Updating)'
  BY <1>2, <1>3 DEF At, Updating
<1>9. ValidIsRead' /\ OwnIsNormal'
  BY <1>2, <1>8 DEF CurrentInv, ValidIsRead, OwnIsNormal
<1>10. TmpFollows'
  BY <1>2, <1>4, <1>8 DEF CurrentInv, TmpFollows
<1>11. ASSUME slips = {} PROVE FilesFollow'
  BY <1>1, <1>2, <1>6, <1>7, <1>8, <1>11 DEF CurrentInv, FilesFollow, outside
<1>12. ASSUME slips = {} PROVE ValidBelow'
  <2>1. CASE f = Root
    BY <1>2, <1>5, <2>1 DEF ValidBelow, Pending, Requested
  <2>2. CASE f # Root
    BY <1>2, <1>7, <1>8, <1>12, <2>2 DEF CurrentInv, ValidBelow, Folders
  <2>3. QED BY <2>1, <2>2
<1>13. ASSUME slips = {} PROVE FullFollows'
  <2>1. \A g : Recursive(g)' = Recursive(g)
    BY <1>2, RecursiveStays
  <2>2. FullFollows
    BY <1>13 DEF CurrentInv
  <2>3. QED BY <1>1, <1>2, <1>8, <2>1, <2>2 DEF FullFollows
<1>14. ASSUME slips = {} PROVE ChildFollows'
  BY <1>1, <1>2, <1>7, <1>14 DEF CurrentInv, ChildFollows, Folders
<1>15. QED BY <1>2, <1>9, <1>10, <1>11, <1>12, <1>13, <1>14 DEF CurrentInv

\* A file that is read is what it is, or has changed since and is pending.
LEMMA ReadFileStaysCurrent ==
  ASSUME TypeInv, CurrentInv, ReadFile
  PROVE  CurrentInv'
<1>0. PlaceTypes
  BY DEF TypeInv, TypeOK
<1>1. /\ UNCHANGED <<outside, noWatch>>
      /\ \A g : Computes(g) => Computes(g)'
      /\ \A g : Tells(g) => Tells(g)'
  BY CrawlerSteps
<1>2. /\ UNCHANGED <<queues, status, job, slips>>
      /\ pc["crawler"] = "file" /\ pc'["crawler"] = "store_file"
  BY <1>0 DEF ReadFile, Goto, PlaceTypes, Threads
<1>3. PICK f \in Folders : f = Here /\ f = Here' /\ got' = disk[f]
  BY <1>2, HereIs DEF ReadFile, Busy, Reading, Here
<1>4. Pending(f)'
  BY <1>1, <1>2, <1>3 DEF Pending, Underway, At, outside
<1>5. ASSUME NEW g \in Folders, Pending(g) PROVE Pending(g)'
  <2>1. CASE Suspended
    BY <1>1, <2>1, SuspendedStays DEF Pending, outside
  <2>2. CASE Requested(g)
    BY <1>1, <1>2, <2>2, RequestsStay DEF Pending, outside, queues
  <2>3. CASE Underway(g)
    BY <1>2, <1>3, <1>4, <2>3 DEF Underway, At, Updating
  <2>4. QED BY <1>5, <2>1, <2>2, <2>3 DEF Pending
<1>6. \A g : At(g, {"store_file"})' => g = f
  BY <1>3 DEF At
<1>7. ValidIsRead'
  BY <1>2, <1>3 DEF CurrentInv, ValidIsRead, At, Updating, status
<1>8. QED BY <1>1, <1>2, <1>4, <1>5, <1>6, <1>7, SimpleStep DEF outside

\* What is stored is what the file is, or the file is pending; and the root keeps what
\* it knows of its subfolders.
LEMMA StoreStaysCurrent ==
  ASSUME TypeInv, CurrentInv, Store
  PROVE  CurrentInv'
<1>0. PlaceTypes /\ StatusTypes
  BY DEF TypeInv, TypeOK
<1>1. /\ UNCHANGED <<outside, noWatch>>
      /\ \A g : Computes(g) => Computes(g)'
      /\ \A g : Tells(g) => Tells(g)'
  BY CrawlerSteps
<1>2. /\ UNCHANGED <<queues, full, job, slips>>
      /\ pc["crawler"] = "store" /\ pc'["crawler"] = "calc"
  BY <1>0 DEF Store, Update, PlaceTypes, Threads
<1>3. PICK f \in Folders : f = Here /\ f = Here'
  BY <1>2, HereIs DEF Busy, Reading, Here
<1>4. /\ files'[f] = got /\ own'[f] = "normal" /\ valid'[f] = TRUE
      /\ \A g \in Folders : g # f =>
           files'[g] = files[g] /\ own'[g] = own[g] /\ valid'[g] = valid[g]
      /\ cur'["crawler"] = f
  BY <1>0, <1>3 DEF Store, Update, StatusTypes, PlaceTypes, Threads
<1>5. \A c \in Subfolders : child'[c] = child[c]
  <2>1. \A c \in Subfolders : child'[c] = IF f = Root THEN childTmp[c] ELSE child[c]
    BY <1>3 DEF Store, Children
  <2>2. f = Root => \A c \in Subfolders : childTmp[c] = child[c]
    BY <1>2, <1>3 DEF CurrentInv, TmpFollows, At
  <2>3. QED BY <2>1, <2>2
<1>6. Computes(f)'
  BY <1>2, <1>4 DEF Computes, Threads
<1>7. ASSUME NEW g \in Folders, Pending(g) PROVE Pending(g)' \/ (g = f /\ got = disk[f])
  <2>1. CASE Suspended
    BY <1>1, <2>1, SuspendedStays DEF Pending, outside
  <2>2. CASE Requested(g)
    BY <1>1, <1>2, <2>2, RequestsStay DEF Pending, outside, queues
  <2>3. CASE Underway(g)
    BY <1>2, <1>3, <2>3 DEF Underway, At, Updating
  <2>4. QED BY <1>7, <2>1, <2>2, <2>3 DEF Pending
<1>8. \A g : /\ ~At(g, {"begin"}) /\ ~At(g, {"begin", "enum"})
             /\ At(g, {"store", "store_file"}) = (g = f)
             /\ At(g, {"store"}) = (g = f) /\ At(g, {"enum", "store"}) = (g = f)
             /\ ~At(g, {"enum"})' /\ ~At(g, {"store"})' /\ ~At(g, {"store", "store_file"})'
             /\ At(g, {"file", "store_file", "after", "erase"} \cup Updating)' = (g = f)
  BY <1>2, <1>3 DEF At, Updating
<1>9. ValidIsRead' /\ OwnIsNormal'
  BY <1>4, <1>8 DEF CurrentInv, ValidIsRead, OwnIsNormal
<1>10. TmpFollows'
  BY <1>8 DEF TmpFollows
<1>11. ASSUME slips = {} PROVE FilesFollow'
  <2>1. FilesFollow
    BY <1>11 DEF CurrentInv
  <2>2. QED BY <1>1, <1>4, <1>7, <1>8, <2>1 DEF FilesFollow, outside
<1>12. ASSUME slips = {} PROVE ValidBelow'
  <2>1. ValidBelow /\ Subfolders \subseteq Folders /\ Root \in Folders
    BY <1>12 DEF CurrentInv, Folders
  <2>2. \A c \in Subfolders : valid'[Root] => valid[c] \/ Pending(c)
    BY <1>4, <1>8, <2>1 DEF ValidBelow
  <2>3. QED BY <1>4, <1>7, <1>8, <2>1, <2>2 DEF ValidBelow
<1>13. ASSUME slips = {} PROVE FullFollows'
  <2>1. \A g \in Folders : g # f => Recursive(g)' = Recursive(g)
    BY <1>4, <1>5, RecursiveStays DEF Children
  <2>2. FullFollows
    BY <1>13 DEF CurrentInv
  <2>3. ASSUME NEW g \in Folders, valid'[g], full'[g] # Recursive(g)', g # f PROVE Computes(g)'
    <3>1. valid[g] /\ full[g] # Recursive(g) /\ ~At(g, {"enum", "store"})
      BY <1>2, <1>4, <1>8, <2>1, <2>3
    <3>2. QED BY <1>1, <2>2, <3>1 DEF FullFollows
  <2>4. QED BY <1>6, <2>3 DEF FullFollows
<1>14. ASSUME slips = {} PROVE ChildFollows'
  <2>1. ChildFollows /\ Subfolders \subseteq Folders
    BY <1>14 DEF CurrentInv, Folders
  <2>2. QED BY <1>1, <1>2, <1>4, <1>5, <1>6, <1>7, <2>1 DEF ChildFollows
<1>15. QED BY <1>2, <1>9, <1>10, <1>11, <1>12, <1>13, <1>14 DEF CurrentInv

\* So it is when a file alone was read.
LEMMA StoreFileStaysCurrent ==
  ASSUME TypeInv, CurrentInv, StoreFile
  PROVE  CurrentInv'
<1>0. PlaceTypes /\ StatusTypes
  BY DEF TypeInv, TypeOK
<1>1. /\ UNCHANGED <<outside, noWatch>>
      /\ \A g : Computes(g) => Computes(g)'
      /\ \A g : Tells(g) => Tells(g)'
  BY CrawlerSteps
<1>2. /\ UNCHANGED <<queues, own, valid, child, childTmp, full, job, slips>>
      /\ pc["crawler"] = "store_file" /\ pc'["crawler"] = "calc"
  BY <1>0 DEF StoreFile, Update, PlaceTypes, Threads
<1>3. PICK f \in Folders : f = Here /\ f = Here'
  BY <1>2, HereIs DEF Busy, Reading, Here
<1>4. /\ files'[f] = got /\ \A g \in Folders : g # f => files'[g] = files[g]
      /\ cur'["crawler"] = f
  BY <1>0, <1>3 DEF StoreFile, Update, StatusTypes, PlaceTypes, Threads
<1>5. Computes(f)'
  BY <1>2, <1>4 DEF Computes, Threads
<1>6. ASSUME NEW g \in Folders, Pending(g) PROVE Pending(g)' \/ (g = f /\ got = disk[f])
  <2>1. CASE Suspended
    BY <1>1, <2>1, SuspendedStays DEF Pending, outside
  <2>2. CASE Requested(g)
    BY <1>1, <1>2, <2>2, RequestsStay DEF Pending, outside, queues
  <2>3. CASE Underway(g)
    BY <1>2, <1>3, <2>3 DEF Underway, At, Updating
  <2>4. QED BY <1>6, <2>1, <2>2, <2>3 DEF Pending
<1>7. \A g : /\ ~At(g, {"begin"}) /\ ~At(g, {"begin", "enum"})
             /\ At(g, {"store", "store_file"}) = (g = f)
             /\ ~At(g, {"store"}) /\ ~At(g, {"enum", "store"})
             /\ At(g, {"file", "store_file", "after", "erase"} \cup Updating) = (g = f)
             /\ ~At(g, {"enum"})' /\ ~At(g, {"store"})' /\ ~At(g, {"store", "store_file"})'
             /\ At(g, {"file", "store_file", "after", "erase"} \cup Updating)' = (g = f)
  BY <1>2, <1>3 DEF At, Updating
<1>8. valid[f]
  BY <1>7 DEF CurrentInv, ValidIsRead
<1>9. ValidIsRead' /\ OwnIsNormal'
  BY <1>2, <1>4, <1>7, <1>8 DEF CurrentInv, ValidIsRead, OwnIsNormal
<1>10. TmpFollows'
  BY <1>7 DEF TmpFollows
<1>11. ASSUME slips = {} PROVE FilesFollow'
  <2>1. FilesFollow
    BY <1>11 DEF CurrentInv
  <2>2. QED BY <1>1, <1>2, <1>4, <1>6, <1>7, <2>1 DEF FilesFollow, outside
<1>12. ASSUME slips = {} PROVE ValidBelow'
  <2>1. ValidBelow /\ Subfolders \subseteq Folders
    BY <1>12 DEF CurrentInv, Folders
  <2>2. QED BY <1>2, <1>6, <1>7, <1>8, <2>1 DEF ValidBelow
<1>13. ASSUME slips = {} PROVE FullFollows'
  <2>1. \A g \in Folders : g # f => Recursive(g)' = Recursive(g)
    BY <1>2, <1>4, RecursiveStays
  <2>2. FullFollows
    BY <1>13 DEF CurrentInv
  <2>3. QED BY <1>1, <1>2, <1>5, <1>7, <2>1, <2>2 DEF FullFollows
<1>14. ASSUME slips = {} PROVE ChildFollows'
  <2>1. ChildFollows /\ Subfolders \subseteq Folders
    BY <1>14 DEF CurrentInv, Folders
  <2>2. QED BY <1>1, <1>2, <1>5, <1>6, <2>1 DEF ChildFollows
<1>15. QED BY <1>2, <1>9, <1>10, <1>11, <1>12, <1>13, <1>14 DEF CurrentInv

\* A folder that could not be read will be requested again when its status is computed,
\* and so will be what is below it.
LEMMA FailStaysCurrent ==
  ASSUME TypeInv, CurrentInv, Fail
  PROVE  CurrentInv'
<1>0. PlaceTypes /\ StatusTypes /\ QueueTypes
  BY DEF TypeInv, TypeOK
<1>1. /\ UNCHANGED <<outside, noWatch>>
      /\ \A g : Computes(g) => Computes(g)'
      /\ \A g : Tells(g) => Tells(g)'
  BY CrawlerSteps
<1>2. /\ UNCHANGED <<paths, job, slips>> /\ retry' = TRUE
      /\ pc["crawler"] \in {"enum", "file"} /\ pc'["crawler"] = "calc"
  BY <1>0 DEF Fail, Update, PlaceTypes, Threads
<1>3. PICK f \in Folders : f = Here /\ f = Here'
  BY <1>2, HereIs DEF Busy, Reading, Here
<1>4. /\ files'[f] = "none" /\ own'[f] = "none" /\ valid'[f] = TRUE
      /\ \A g \in Folders : g # f =>
           /\ files'[g] = files[g] /\ own'[g] = own[g] /\ valid'[g] = valid[g]
           /\ full'[g] = full[g]
      /\ f # Root => \A c \in Subfolders : child'[c] = child[c]
      /\ cur'["crawler"] = f
  BY <1>0, <1>3 DEF Fail, Update, Children, StatusTypes, PlaceTypes, Threads
<1>5. Computes(f)'
  BY <1>2, <1>4 DEF Computes, Threads
<1>6. Pending(f)' /\ (f = Root => \A g : Pending(g)')
  BY <1>2, <1>3 DEF Pending, Underway, At, Updating
<1>7. Range(folders) \subseteq Range(folders')
  <2>1. PICK fs : AddFolders(fs) /\ fs = {c \in Children(f) : child[c] # "none"}
    BY <1>3 DEF Fail
  <2>2. fs \in SUBSET Folders
    BY <2>1 DEF Children, Folders
  <2>3. QED BY <1>0, <2>1, <2>2, AddFoldersIs
<1>8. ASSUME NEW g \in Folders, Pending(g) PROVE Pending(g)'
  <2>1. CASE Suspended
    BY <1>1, <2>1, SuspendedStays DEF Pending, outside
  <2>2. CASE Requested(g)
    BY <1>1, <1>2, <1>7, <2>2, RequestsStay DEF Pending, outside
  <2>3. CASE Underway(g)
    BY <1>2, <1>3, <1>6, <2>3 DEF Underway, At, Updating
  <2>4. QED BY <1>8, <2>1, <2>2, <2>3 DEF Pending
<1>9. \A g : /\ ~At(g, {"begin"}) /\ (At(g, {"begin", "enum"}) => g = f)
             /\ ~At(g, {"store"}) /\ (At(g, {"enum", "store"}) => g = f)
             /\ ~At(g, {"enum"})' /\ ~At(g, {"store"})' /\ ~At(g, {"store", "store_file"})'
             /\ At(g, {"file", "store_file", "after", "erase"} \cup Updating)' = (g = f)
  BY <1>2, <1>3 DEF At, Updating
<1>10. ValidIsRead' /\ OwnIsNormal'
  BY <1>4, <1>9 DEF CurrentInv, ValidIsRead, OwnIsNormal
<1>11. TmpFollows'
  BY <1>9 DEF TmpFollows
<1>12. ASSUME slips = {} PROVE FilesFollow'
  <2>1. FilesFollow
    BY <1>12 DEF CurrentInv
  <2>2. QED BY <1>1, <1>4, <1>6, <1>8, <1>9, <2>1 DEF FilesFollow, outside
<1>13. ASSUME slips = {} PROVE ValidBelow'
  <2>1. ValidBelow /\ Subfolders \subseteq Folders /\ Root \in Folders
    BY <1>13 DEF CurrentInv, Folders
  <2>2. CASE f = Root
    BY <1>6, <2>2 DEF ValidBelow
  <2>3. CASE f # Root
    BY <1>4, <1>8, <1>9, <2>1, <2>3 DEF ValidBelow
  <2>4. QED BY <2>2, <2>3
<1>14. ASSUME slips = {} PROVE FullFollows'
  <2>1. \A g \in Folders : g # f => Recursive(g)' = Recursive(g)
    BY <1>4, RecursiveStays DEF Children
  <2>2. FullFollows
    BY <1>14 DEF CurrentInv
  <2>3. QED BY <1>1, <1>4, <1>5, <1>9, <2>1, <2>2 DEF FullFollows
<1>15. ASSUME slips = {} PROVE ChildFollows'
  <2>1. ChildFollows /\ Subfolders \subseteq Folders
    BY <1>15 DEF CurrentInv, Folders
  <2>2. CASE f = Root
    BY <1>6, <2>2 DEF ChildFollows
  <2>3. CASE f # Root
    BY <1>1, <1>4, <1>5, <1>8, <2>1, <2>3 DEF ChildFollows
  <2>4. QED BY <2>2, <2>3
<1>16. QED BY <1>2, <1>10, <1>11, <1>12, <1>13, <1>14, <1>15 DEF CurrentInv

\* A file that could not be read is requested with its folder, or will be with the root.
LEMMA FailFileStaysCurrent ==
  ASSUME TypeInv, CurrentInv, FailFile
  PROVE  CurrentInv'
<1>0. PlaceTypes /\ QueueTypes
  BY DEF TypeInv, TypeOK
<1>1. /\ UNCHANGED <<outside, noWatch>>
      /\ \A g : Computes(g) => Computes(g)'
      /\ \A g : Tells(g) => Tells(g)'
  BY CrawlerSteps
<1>2. /\ UNCHANGED <<paths, status, job, slips>>
      /\ pc["crawler"] = "file" /\ pc'["crawler"] = "calc"
  BY <1>0 DEF FailFile, Update, PlaceTypes, Threads, locals
<1>3. PICK f \in Folders : f = Here /\ f = Here'
  BY <1>2, HereIs DEF Busy, Reading, Here
<1>4. /\ Range(folders) \subseteq Range(folders')
      /\ lock \/ ~IsPathGood \/ {f} \subseteq Range(folders')
  <2>1. AddFolders({f})
    BY <1>3 DEF FailFile, Retry
  <2>2. {f} \in SUBSET Folders
    OBVIOUS
  <2>3. QED BY <1>0, <2>1, <2>2, AddFoldersIs
<1>5. Pending(f)'
  BY <1>1, <1>4 DEF Pending, Suspended, Requested, IsPathGood, outside
<1>6. ASSUME NEW g \in Folders, Pending(g) PROVE Pending(g)'
  <2>1. CASE Suspended
    BY <1>1, <2>1, SuspendedStays DEF Pending, outside
  <2>2. CASE Requested(g)
    BY <1>1, <1>2, <1>4, <2>2, RequestsStay DEF Pending, outside
  <2>3. CASE Underway(g)
    BY <1>2, <1>3, <1>5, <2>3 DEF Underway, At, Updating
  <2>4. QED BY <1>6, <2>1, <2>2, <2>3 DEF Pending
<1>7. \A g : ~At(g, {"store_file"})'
  BY <1>2 DEF At
<1>8. ValidIsRead'
  BY <1>2, <1>3 DEF CurrentInv, ValidIsRead, At, Updating, status
<1>9. QED BY <1>1, <1>2, <1>6, <1>7, <1>8, SimpleStep DEF outside

\* After a crawl a folder that could not be read is requested, and a file that was
\* notified is read.
LEMMA AfterStaysCurrent ==
  ASSUME TypeInv, CurrentInv, After
  PROVE  CurrentInv'
<1>0. PlaceTypes /\ QueueTypes
  BY DEF TypeInv, TypeOK
<1>1. /\ UNCHANGED <<outside, noWatch>>
      /\ \A g : Computes(g) => Computes(g)'
      /\ \A g : Tells(g) => Tells(g)'
  BY CrawlerSteps
<1>2. /\ UNCHANGED <<paths, status, job, slips>>
      /\ pc["crawler"] = "after"
      /\ pc'["crawler"] = IF todo = <<>> THEN "erase" ELSE "file"
  BY <1>0 DEF After, Goto, PlaceTypes, Threads
<1>3. PICK f \in Folders : f = Here /\ f = Here'
  BY <1>2, HereIs DEF Busy, Here
<1>4. /\ Range(folders) \subseteq Range(folders')
      /\ retry => Suspended' \/ f \in Range(folders')
  <2>1. CASE retry
    <3>1. AddFolders({f})
      BY <1>3, <2>1 DEF After, Retry
    <3>2. {f} \in SUBSET Folders
      OBVIOUS
    <3>3. /\ Range(folders) \subseteq Range(folders')
          /\ lock \/ ~IsPathGood \/ {f} \subseteq Range(folders')
      BY <1>0, <3>1, <3>2, AddFoldersIs
    <3>4. QED BY <1>1, <3>3 DEF Suspended, IsPathGood, outside
  <2>2. CASE ~retry
    BY <2>2 DEF After
  <2>3. QED BY <2>1, <2>2
<1>5. ASSUME NEW g \in Folders, Pending(g) PROVE Pending(g)'
  <2>1. CASE Suspended
    BY <1>1, <2>1, SuspendedStays DEF Pending, outside
  <2>2. CASE Requested(g)
    BY <1>1, <1>2, <1>4, <2>2, RequestsStay DEF Pending, outside
  <2>3. CASE Underway(g)
    <3>1. \/ retry /\ (f = g \/ f = Root)
          \/ todo # <<>> /\ f = g
      BY <1>0, <1>2, <1>3, <2>3 DEF Underway, At, Updating, PlaceTypes
    <3>2. CASE retry /\ (f = g \/ f = Root)
      BY <1>4, <3>2 DEF Pending, Requested
    <3>3. CASE todo # <<>> /\ f = g
      BY <1>2, <1>3, <3>3 DEF Pending, Underway, At
    <3>4. QED BY <3>1, <3>2, <3>3
  <2>4. QED BY <1>5, <2>1, <2>2, <2>3 DEF Pending
<1>6. \A g : ~At(g, {"store_file"})'
  BY <1>2 DEF At
<1>7. ValidIsRead'
  BY <1>2, <1>3 DEF CurrentInv, ValidIsRead, At, Updating, status
<1>8. QED BY <1>1, <1>2, <1>5, <1>6, <1>7, SimpleStep DEF outside

\* A request that is erased without a slip would not change what is known.
LEMMA EraseStaysCurrent ==
  ASSUME TypeInv, CurrentInv, Erase
  PROVE  CurrentInv'
<1>0. PlaceTypes /\ QueueTypes /\ OutsideTypes
  BY DEF TypeInv, TypeOK
<1>1. /\ UNCHANGED <<outside, noWatch>>
      /\ \A g : Computes(g) => Computes(g)'
      /\ \A g : Tells(g) => Tells(g)'
  BY CrawlerSteps
<1>2. /\ UNCHANGED status
      /\ pc["crawler"] = "erase" /\ pc'["crawler"] \in {"folder", "loop"}
      /\ slips' = {} => slips = {}
  BY <1>0 DEF Erase, Goto, PlaceTypes, Threads
<1>3. PICK f \in Folders : f = Here
  BY <1>2, HereIs DEF Busy
<1>4. /\ \A g : /\ ~At(g, {"begin"}) /\ ~At(g, {"begin", "enum"}) /\ ~At(g, {"store"})
                /\ ~At(g, {"enum", "store"})
                /\ ~At(g, {"begin"})' /\ ~At(g, {"enum"})' /\ ~At(g, {"store"})'
                /\ ~At(g, {"store", "store_file"})' /\ ~At(g, {"store_file"})'
                /\ ~At(g, {"file", "store_file", "after", "erase"} \cup Updating)'
      /\ \A g : ~Underway(g)
  BY <1>2 DEF Underway, At, Updating
<1>5. ValidIsRead'
  BY <1>2, <1>4 DEF CurrentInv, ValidIsRead, status
<1>6. ASSUME NEW g \in Folders, Pending(g), ~Covers(f, g) PROVE Pending(g)'
  <2>1. CASE Suspended
    BY <1>1, <2>1, SuspendedStays DEF Pending, outside
  <2>2. CASE Requested(g)
    <3>1. f # g /\ f # Root
      BY <1>6 DEF Covers
    <3>2. CASE job[1] = "folder"
      <4>1. paths' = paths /\ Range(folders') = Range(folders) \ {f}
        BY <1>0, <1>3, <3>2, ErasedIs DEF Erase, QueueTypes, Lost
      <4>2. QED BY <1>1, <2>2, <3>1, <4>1 DEF Requested, Pending, outside
    <3>3. CASE job[1] # "folder"
      <4>1. folders' = folders /\ Range(paths') = Range(paths) \ {job}
        BY <1>0, <3>3, ErasedIs DEF Erase, QueueTypes, Lost
      <4>2. \A kind : <<kind, g>> # job
        BY <1>3, <3>1 DEF Here
      <4>3. QED BY <1>1, <2>2, <4>1, <4>2 DEF Requested, Pending, outside
    <3>4. QED BY <3>2, <3>3
  <2>3. QED BY <1>4, <1>6, <2>1, <2>2 DEF Pending
<1>7. CASE UNCHANGED <<paths, folders>>
  <2>1. \A g \in Folders : Suspended => Suspended'
    BY <1>1, SuspendedStays DEF outside
  <2>2. \A g \in Folders : Requested(g) => Requested(g)'
    BY <1>1, <1>7, RequestsStay DEF outside
  <2>3. \A g \in Folders : Pending(g) => Pending(g)'
    BY <1>4, <2>1, <2>2 DEF Pending
  <2>4. QED BY <1>1, <1>2, <1>4, <1>5, <2>3, SimpleStep DEF outside
<1>8. CASE ~UNCHANGED <<paths, folders>>
  <2>1. ASSUME slips' = {}, NEW g \in Folders, Covers(f, g)
        PROVE  files[g] = disk[g] /\ (g # Root => child[g] = full[g])
    <3>1. CASE job[1] = "folder"
      <4>1. Contains(folders, f)
        BY <1>3, <1>8, <3>1 DEF Erase, Erased
      <4>2. QED BY <1>3, <2>1, <3>1, <4>1 DEF Erase
    <3>2. CASE job[1] # "folder"
      <4>1. Contains(paths, job)
        BY <1>8, <3>2 DEF Erase, Erased
      <4>2. QED BY <1>3, <2>1, <3>2, <4>1 DEF Erase
    <3>3. QED BY <3>1, <3>2
  <2>2. /\ own' = own /\ valid' = valid /\ files' = files /\ full' = full
        /\ child' = child /\ childTmp' = childTmp /\ disk' = disk
        /\ Subfolders \subseteq Folders /\ Root \notin Subfolders
    BY <1>1, <1>2, CacheAssumption DEF status, outside, Folders
  <2>3. OwnIsNormal' /\ TmpFollows'
    BY <1>4, <2>2 DEF CurrentInv, OwnIsNormal, TmpFollows
  <2>4. ASSUME slips' = {} PROVE FilesFollow'
    <3>1. FilesFollow
      BY <1>2, <2>4 DEF CurrentInv
    <3>2. QED BY <1>4, <1>6, <2>1, <2>2, <2>4, <3>1 DEF FilesFollow
  <2>5. ASSUME slips' = {} PROVE ValidBelow'
    <3>1. ValidBelow /\ ValidIsRead
      BY <1>2, <2>5 DEF CurrentInv
    <3>2. ASSUME NEW c \in Subfolders, Covers(f, c) PROVE valid[c]
      <4>1. files[c] = disk[c]
        BY <2>1, <2>2, <2>5, <3>2
      <4>2. files[c] # "none"
        BY <1>0, <2>2, <4>1 DEF OutsideTypes
      <4>3. QED BY <1>4, <2>2, <3>1, <4>2 DEF ValidIsRead
    <3>3. QED BY <1>4, <1>6, <2>2, <3>1, <3>2 DEF ValidBelow
  <2>6. ASSUME slips' = {} PROVE FullFollows'
    <3>1. FullFollows
      BY <1>2, <2>6 DEF CurrentInv
    <3>2. \A g : Recursive(g)' = Recursive(g)
      BY <2>2, RecursiveStays
    <3>3. QED BY <1>1, <1>4, <2>2, <3>1, <3>2 DEF FullFollows
  <2>7. ASSUME slips' = {} PROVE ChildFollows'
    <3>1. ChildFollows
      BY <1>2, <2>7 DEF CurrentInv
    <3>2. QED BY <1>1, <1>6, <2>1, <2>2, <2>7, <3>1 DEF ChildFollows
  <2>8. QED BY <1>5, <2>3, <2>4, <2>5, <2>6, <2>7 DEF CurrentInv
<1>9. QED BY <1>7, <1>8

-----------------------------------------------------------------------------
(* What is shown when it is quiet is current                                 *)

\* Every step keeps the invariant.
LEMMA StepStaysCurrent == TypeInv /\ CurrentInv /\ [Next]_vars => CurrentInv'
<1> SUFFICES ASSUME TypeInv, CurrentInv, [Next]_vars PROVE CurrentInv'
  OBVIOUS
<1>1. CASE UNCHANGED vars
  <2>1. /\ UNCHANGED <<status, place, locals, slips, disk, lock, lockNoted, noWatch>>
        /\ UNCHANGED <<folders, paths, noted, buffer>>
    BY <1>1 DEF vars, outside, queues, blocks
  <2>2. \A f \in Folders : Pending(f) => Pending(f)'
    BY <2>1 DEF Pending, Suspended, Requested, Underway, At, Here, place, locals
  <2>3. QED BY <2>1, <2>2, QuietStep DEF place, locals
<1>2. CASE Next
  <2>1. ASSUME NEW t \in Threads, UpdateCurrentStatus(t) PROVE CurrentInv'
    BY <2>1, UpdatesStayCurrent
  <2>2. CASE \/ \E f \in Folders : Change(f)
             \/ TakeLock \/ DropLock \/ BlockPath \/ UnBlockPath \/ ReadNotifications \/ Time
             \/ \E path \in Paths : AddPathForUpdate(path)
    BY <2>2, OutsideStaysCurrent
  <2>3. CASE \E f \in Folders : GetStatusForPath(f)
    BY <2>3, AsksStayCurrent
  <2>4. CASE \/ Wake \/ RemoveTimedoutBlocks \/ Nothing \/ DeferPath \/ NoPath \/ DeferFolder
    BY <2>4, PickingStaysCurrent
  <2>5. CASE TakePath \/ TakeFolder
    BY <2>5, TakePathStaysCurrent, TakeFolderStaysCurrent
  <2>6. CASE Begin \/ Enum \/ Store \/ ReadFile \/ StoreFile
    BY <2>6, BeginStaysCurrent, EnumStaysCurrent, StoreStaysCurrent, ReadFileStaysCurrent,
       StoreFileStaysCurrent
  <2>7. CASE Fail \/ FailFile \/ After \/ Erase
    BY <2>7, FailStaysCurrent, FailFileStaysCurrent, AfterStaysCurrent, EraseStaysCurrent
  <2>8. QED BY <1>2, <2>1, <2>2, <2>3, <2>4, <2>5, <2>6, <2>7 DEF Next, Crawl, Threads
<1>3. QED BY <1>1, <1>2

\* The worst of what is normal or modified, with or without something unknown.
LEMMA WorstOf ==
  ASSUME NEW S, NEW T, T \subseteq S \cup {"none", "normal"}, S \subseteq T,
         S \cap {"normal", "modified"} # {}
  PROVE  Worst(T) = Worst(S)
BY DEF Worst

\* When it is quiet, nothing is pending and no thread has work.
LEMMA QuietIsDone ==
  ASSUME TypeInv, AwakeInv, Quiet
  PROVE  /\ \A f : ~Pending(f) /\ ~Computes(f) /\ ~Tells(f)
         /\ \A f, places : At(f, places) => "wait" \in places
<1>1. folders = <<>> /\ paths = <<>> /\ noted = {} /\ buffer = {} /\ ~Suspended
  BY DEF AwakeInv, WakeIsNotLost, Quiet, Suspended
<1>2. Range(folders) = {} /\ Range(paths) = {}
  BY <1>1 DEF Range
<1>3. \A f : ~Requested(f)
  BY <1>1, <1>2 DEF Requested
<1>4. \A f : ~Underway(f) /\ ~Computes(f) /\ ~Tells(f)
  BY DEF Quiet, Underway, At, Computes, Tells, Threads, Updating
<1>5. QED BY <1>1, <1>3, <1>4 DEF Pending, At, Quiet

\* So whatever is valid is current.
LEMMA QuietIsCurrent == TypeInv /\ AwakeInv /\ CurrentInv => SettledIsCurrent
<1> SUFFICES ASSUME TypeInv, AwakeInv, CurrentInv, Quiet, slips = {},
                    NEW f \in Folders, valid[f],
                    NEW g \in Folders, Covers(f, g)
             PROVE  valid[g] /\ files[g] = disk[g] /\ full[g] = Truth(g)
  BY DEF SettledIsCurrent
<1>1. /\ \A h : ~Pending(h) /\ ~Computes(h) /\ ~Tells(h)
      /\ \A h, places : At(h, places) => "wait" \in places
  BY QuietIsDone
<1>2. Subfolders \subseteq Folders /\ Root \notin Subfolders /\ Folders = {Root} \cup Subfolders
  BY CacheAssumption DEF Folders
<1>3. \A h \in Folders : Covers(f, h) => valid[h]
  <2>1. ValidBelow /\ ~At(Root, {"begin", "enum"})
    BY <1>1 DEF CurrentInv
  <2>2. valid[Root] => \A c \in Subfolders : valid[c]
    BY <1>1, <2>1 DEF ValidBelow
  <2>3. QED BY <1>2, <2>2 DEF Covers
<1>4. \A h \in Folders : valid[h] => files[h] = disk[h]
  BY <1>1 DEF CurrentInv, FilesFollow
<1>5. \A h \in Folders : valid[h] => full[h] = Recursive(h)
  <2>1. \A h : ~At(h, {"enum", "store"})
    BY <1>1
  <2>2. QED BY <1>1, <2>1 DEF CurrentInv, FullFollows
<1>6. \A h \in Folders : disk[h] \in {"normal", "modified"} /\ own[h] \in {"none", "normal"}
  BY DEF TypeInv, TypeOK, OutsideTypes, CurrentInv, OwnIsNormal
<1>7. \A c \in Subfolders : Truth(c) = Worst({disk[c]})
  <2> SUFFICES ASSUME NEW c \in Subfolders PROVE Truth(c) = Worst({disk[c]})
    OBVIOUS
  <2>1. {h \in Folders : Covers(c, h)} = {c}
    BY <1>2 DEF Covers
  <2>2. {disk[h] : h \in {c}} = {disk[c]}
    OBVIOUS
  <2>3. QED BY <2>1, <2>2 DEF Truth
<1>8. \A c \in Subfolders : valid[c] => full[c] = Worst({disk[c]}) /\ full[c] = disk[c]
  <2> SUFFICES ASSUME NEW c \in Subfolders, valid[c]
               PROVE  full[c] = Worst({disk[c]}) /\ full[c] = disk[c]
    OBVIOUS
  <2>1. full[c] = Worst({disk[c], own[c]} \cup {child[d] : d \in {}})
    BY <1>2, <1>4, <1>5 DEF Recursive, Children
  <2>2. {disk[c], own[c]} \cup {child[d] : d \in {}} = {disk[c], own[c]}
    OBVIOUS
  <2>3. Worst({disk[c], own[c]}) = Worst({disk[c]}) /\ Worst({disk[c]}) = disk[c]
    BY <1>2, <1>6 DEF Worst
  <2>4. QED BY <2>1, <2>2, <2>3
<1>9. CASE g \in Subfolders
  BY <1>3, <1>4, <1>7, <1>8, <1>9
<1>10. CASE g = Root
  <2>1. \A h \in Folders : valid[h] /\ Covers(Root, h) /\ Covers(f, h)
    BY <1>3, <1>10 DEF Covers
  <2>2. \A c \in Subfolders : child[c] = disk[c]
    BY <1>1, <1>2, <1>8, <2>1 DEF CurrentInv, ChildFollows
  <2>3. PICK D : D = {disk[h] : h \in Folders}
    OBVIOUS
  <2>4. PICK K : K = {files[Root], own[Root]} \cup {child[c] : c \in Subfolders}
    OBVIOUS
  <2>5. K \subseteq D \cup {"none", "normal"} /\ D \subseteq K
    BY <1>2, <1>4, <1>6, <2>1, <2>2, <2>3, <2>4
  <2>6. D \cap {"normal", "modified"} # {}
    BY <1>2, <1>6, <2>3
  <2>7. Worst(K) = Worst(D)
    BY <2>5, <2>6, WorstOf
  <2>8. {h \in Folders : Covers(Root, h)} = Folders
    BY <2>1
  <2>9. Truth(Root) = Worst(D)
    BY <2>3, <2>8 DEF Truth
  <2>10. full[Root] = Worst(K)
    BY <1>2, <1>5, <2>1, <2>4 DEF Recursive, Children
  <2>11. QED BY <1>4, <1>10, <2>1, <2>7, <2>9, <2>10
<1>11. QED BY <1>2, <1>9, <1>10

\* When nothing is on its way any more and no slip was recorded, a folder that says it
\* knows its status does, and so does everything below it: no order of changes,
\* locks, blocks, failures and questions of the shell leaves the overlays outdated.
THEOREM SettledTheorem == Spec => []SettledIsCurrent
<1>1. Init => TypeInv /\ AwakeInv /\ CurrentInv
  BY InitTypes, InitAwake, InitCurrent
<1>2. TypeInv /\ AwakeInv /\ CurrentInv /\ [Next]_vars => (TypeInv /\ AwakeInv /\ CurrentInv)'
  BY StepKeepsTypes, StepStaysAwake, StepStaysCurrent
<1>3. Spec => [](TypeInv /\ AwakeInv /\ CurrentInv)
  BY <1>1, <1>2, PTL DEF Spec
<1>4. QED BY <1>3, QuietIsCurrent, PTL

-----------------------------------------------------------------------------
(* Late statuses                                                             *)

\* A late status is the work of two threads.
LateNeedsTheShell == "late_status" \in slips => asked > 0

\* As long as the shell has asked nothing, what the crawler has computed stays right
\* until it is stored and told.
OnTimeInv ==
  /\ asked \in Nat
  /\ asked = 0 =>
       /\ pc["shell"] = "idle"
       /\ "late_status" \notin slips
       /\ pc["crawler"] = "write" => new["crawler"] = Recursive(cur["crawler"])
       /\ pc["crawler"] = "tell" => new["crawler"] = full[cur["crawler"]]

\* A step in which no thread stores or tells a status keeps it.
LEMMA IdleStaysOnTime ==
  ASSUME OnTimeInv, asked' = asked, pc'["shell"] = pc["shell"],
         "late_status" \in slips' => "late_status" \in slips,
         \/ pc'["crawler"] \notin {"write", "tell"}
         \/ UNCHANGED <<status, place>>
  PROVE  OnTimeInv'
<1>1. CASE pc'["crawler"] \notin {"write", "tell"}
  BY <1>1 DEF OnTimeInv
<1>2. CASE UNCHANGED <<status, place>>
  BY <1>2 DEF OnTimeInv, status, place, Recursive
<1>3. QED BY <1>1, <1>2

\* Every step keeps it.
LEMMA StepStaysOnTime ==
  ASSUME TypeInv, OnTimeInv, [Next]_vars
  PROVE  OnTimeInv'
<1>0. PlaceTypes /\ StatusTypes /\ PlacesFit
  BY DEF TypeInv, TypeOK
<1>1. ASSUME NEW f \in Folders, Change(f) \/ GetStatusForPath(f) PROVE OnTimeInv'
  <2>1. CASE Change(f)
    BY <2>1, IdleStaysOnTime DEF Change, place
  <2>2. CASE GetStatusForPath(f)
    <3>1. asked' \in Nat /\ asked' # 0
      BY <2>2 DEF GetStatusForPath, OnTimeInv
    <3>2. QED BY <3>1 DEF OnTimeInv
  <2>3. QED BY <1>1, <2>1, <2>2
<1>2. CASE TakeLock \/ DropLock \/ BlockPath \/ UnBlockPath \/ ReadNotifications \/ Time
  <2>1. UNCHANGED <<status, place, asked, slips>>
    BY <1>2 DEF TakeLock, DropLock, BlockPath, UnBlockPath, ReadNotifications, Time, history
  <2>2. QED BY <2>1, IdleStaysOnTime DEF place
<1>3. ASSUME NEW path \in Paths, AddPathForUpdate(path) PROVE OnTimeInv'
  <2>1. UNCHANGED <<status, place, asked, slips>>
    BY <1>3 DEF AddPathForUpdate, history
  <2>2. QED BY <2>1, IdleStaysOnTime DEF place
<1>4. ASSUME asked' = asked, "late_status" \in slips' => "late_status" \in slips,
             NEW next \in Places \ {"write", "tell"}, pc' = [pc EXCEPT !["crawler"] = next]
      PROVE  OnTimeInv'
  <2>1. pc'["crawler"] = next /\ pc'["shell"] = pc["shell"]
    BY <1>0, <1>4 DEF PlaceTypes, Threads
  <2>2. QED BY <1>4, <2>1, IdleStaysOnTime
<1>5. CASE Wake \/ RemoveTimedoutBlocks \/ Nothing \/ NoPath
  BY <1>4, <1>5 DEF Wake, RemoveTimedoutBlocks, Nothing, NoPath, Goto, Places, history
<1>6. CASE DeferPath \/ TakePath \/ DeferFolder \/ TakeFolder
  BY <1>4, <1>6 DEF DeferPath, TakePath, DeferFolder, TakeFolder, Goto, Places, history
<1>7. CASE Begin \/ Enum \/ Store \/ ReadFile \/ StoreFile
  BY <1>4, <1>7 DEF Begin, Enum, Store, ReadFile, StoreFile, Update, Goto, Places, history
<1>8. CASE After \/ Fail \/ FailFile
  BY <1>4, <1>8 DEF After, Fail, FailFile, Update, Goto, Places, history
<1>9. CASE Erase
  <2>1. "late_status" \in slips' => "late_status" \in slips
    BY <1>9 DEF Erase
  <2>2. QED BY <1>4, <1>9, <2>1 DEF Erase, Goto, Places, history
<1>10. CASE UpdateCurrentStatus("shell")
  <2>1. pc["shell"] # "idle" /\ asked' = asked
    BY <1>10 DEF UpdateCurrentStatus, Calc, Write, Tell, history
  <2>2. QED BY <2>1 DEF OnTimeInv
<1>11. CASE Calc("crawler")
  <2>1. /\ new'["crawler"] = Recursive(cur["crawler"])
        /\ pc'["crawler"] = "write" /\ pc'["shell"] = pc["shell"]
    BY <1>0, <1>11 DEF Calc, Goto, PlaceTypes, Threads
  <2>2. UNCHANGED <<status, cur, asked, slips>>
    BY <1>11 DEF Calc, history
  <2>3. Recursive(cur["crawler"])' = Recursive(cur["crawler"])
    BY <2>2 DEF Recursive, status
  <2>4. QED BY <2>1, <2>2, <2>3 DEF OnTimeInv
<1>12. CASE Write("crawler")
  <2>1. PICK f \in Folders : f = cur["crawler"]
    BY <1>0 DEF PlaceTypes, Threads
  <2>2. /\ UNCHANGED <<cur, asked>> /\ pc["crawler"] = "write" /\ pc'["shell"] = pc["shell"]
        /\ pc'["crawler"] = IF f = Root THEN "after" ELSE "tell"
        /\ new'["crawler"] = IF f = Root THEN "none" ELSE full'[f]
    BY <1>0, <1>12, <2>1 DEF Write, Goto, Told, PlaceTypes, Threads, history
  <2>3. asked = 0 => slips' = slips
    BY <1>12, <2>2 DEF Write, Late, OnTimeInv
  <2>4. QED BY <2>1, <2>2, <2>3 DEF OnTimeInv
<1>13. CASE Tell("crawler")
  <2>1. /\ asked' = asked /\ pc["crawler"] = "tell" /\ pc'["shell"] = pc["shell"]
        /\ pc'["crawler"] \in {"calc", "after"}
    BY <1>0, <1>13 DEF Tell, Goto, Told, PlaceTypes, Threads, history
  <2>2. asked = 0 => slips' = slips
    BY <1>13, <2>1 DEF Tell, Late, OnTimeInv
  <2>3. QED BY <2>1, <2>2 DEF OnTimeInv
<1>14. CASE UNCHANGED vars
  <2>1. UNCHANGED <<status, place, asked, slips>>
    BY <1>14 DEF vars, history
  <2>2. QED BY <2>1, IdleStaysOnTime DEF place
<1>15. QED
  BY <1>1, <1>2, <1>3, <1>5, <1>6, <1>7, <1>8, <1>9, <1>10, <1>11, <1>12, <1>13, <1>14
     DEF Next, Crawl, UpdateCurrentStatus

\* Until the shell asks, no status is stored late: the race that SettledTheorem excepts
\* is that of the crawler with a thread that answers the shell, and of nobody else.
THEOREM LateTheorem == Spec => []LateNeedsTheShell
<1>1. Init => TypeInv /\ OnTimeInv
  BY InitTypes DEF Init, OnTimeInv, Threads
<1>2. TypeInv /\ OnTimeInv /\ [Next]_vars => (TypeInv /\ OnTimeInv)'
  BY StepKeepsTypes, StepStaysOnTime
<1>3. TypeInv /\ OnTimeInv => LateNeedsTheShell
  BY DEF OnTimeInv, LateNeedsTheShell
<1>4. QED BY <1>1, <1>2, <1>3, PTL DEF Spec
=============================================================================
