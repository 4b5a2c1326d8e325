----------------------- MODULE CommitMessageStoreProofs -----------------------
(***************************************************************************)
(* Proofs that the calls of CommitMessageStore are atomic, for any set of  *)
(* processes, messages, names and texts and any limits.                    *)
(***************************************************************************)
EXTENDS CommitMessageStore, FiniteSetTheorems, SequenceTheorems, TLAPS

\* The variables are functions on the processes; what a library holds does not
\* matter to the proof.
Shape ==
  /\ owner \in Procs \cup {Nobody}
  /\ pc \in [Procs -> Places]
  /\ op \in [Procs -> Library!Operations]
  /\ copy = [p \in Procs |-> copy[p]]

\* While a call is about to replace the library, its copy is what its operation
\* makes of the library as it still is.
CopyIsCurrent ==
  \A p \in Procs : At(p, "writing") =>
    /\ file # Damaged
    /\ ~Library!Refuses(op[p], file)
    /\ copy[p] = Library!After(op[p], file)

StoreInv == Shape /\ MutexIsInUse /\ CopyIsCurrent

\* Load takes no operand.
LEMMA LoadIsOperation == Load \in Library!Operations
BY DEF Load, Library!Operations

\* Nobody holds the mutex at first, and nobody is at work.
LEMMA InitInv == StoreInit => StoreInv
<1> SUFFICES ASSUME StoreInit PROVE StoreInv
  OBVIOUS
<1>2. Shape
  BY LoadIsOperation DEF StoreInit, Shape, Places
<1>3. \A p \in Procs : pc[p] = "idle"
  BY DEF StoreInit
<1>4. MutexIsInUse
  BY <1>3 DEF StoreInit, MutexIsInUse, Holding
<1>5. CopyIsCurrent
  BY <1>3 DEF CopyIsCurrent, At
<1> QED
  BY <1>2, <1>4, <1>5 DEF StoreInv

\* A step of p that leaves the file and the other processes alone, and after
\* which p is not about to write, keeps every copy current.
LEMMA CopiesStayCurrent ==
  ASSUME StoreInv, NEW p \in Procs, file' = file, pc'[p] # "writing",
         \A q \in Procs \ {p} : pc'[q] = pc[q] /\ op'[q] = op[q] /\ copy'[q] = copy[q]
  PROVE  CopyIsCurrent'
<1> SUFFICES ASSUME NEW q \in Procs, At(q, "writing")'
             PROVE  /\ file' # Damaged
                    /\ ~Library!Refuses(op'[q], file')
                    /\ copy'[q] = Library!After(op'[q], file')
  BY DEF CopyIsCurrent, At, Library!Refuses, Library!After
<1>1. q # p
  BY DEF At
<1>2. pc'[q] = pc[q] /\ op'[q] = op[q] /\ copy'[q] = copy[q]
  BY <1>1
<1>3. At(q, "writing")
  BY <1>2 DEF At
<1> QED
  BY <1>2, <1>3 DEF StoreInv, CopyIsCurrent

\* A call that begins only waits.
LEMMA CallInv ==
  ASSUME StoreInv, NEW p \in Procs, NEW o \in Library!Operations, Call(p, o)
  PROVE  StoreInv'
<1>1. Shape'
  BY DEF StoreInv, Shape, Call, Move, Places
<1>2. MutexIsInUse'
  BY StoreAssumption DEF StoreInv, Shape, MutexIsInUse, Holding, Call, Move, At
<1>3. CopyIsCurrent'
  BY CopiesStayCurrent DEF StoreInv, Shape, Call, Move, At
<1> QED
  BY <1>1, <1>2, <1>3 DEF StoreInv

\* The mutex was free, so no other call was at work.
LEMMA AcquireInv ==
  ASSUME StoreInv, NEW p \in Procs, Acquire(p)
  PROVE  StoreInv'
<1>1. Shape'
  BY DEF StoreInv, Shape, Acquire, Move, locals, Places
<1>2. MutexIsInUse'
  BY StoreAssumption DEF StoreInv, Shape, MutexIsInUse, Holding, Acquire, Move, locals, At
<1>3. CopyIsCurrent'
  BY CopiesStayCurrent DEF StoreInv, Shape, Acquire, Move, locals, At
<1> QED
  BY <1>1, <1>2, <1>3 DEF StoreInv

\* A call that gives up never held the mutex.
LEMMA TimeOutInv ==
  ASSUME StoreInv, NEW p \in Procs, TimeOut(p)
  PROVE  StoreInv'
<1>1. Shape'
  BY LoadIsOperation DEF StoreInv, Shape, TimeOut, Return, Move, Places
<1>2. MutexIsInUse'
  BY StoreAssumption DEF StoreInv, Shape, MutexIsInUse, Holding, TimeOut, Return, Move, At
<1>3. CopyIsCurrent'
  BY CopiesStayCurrent DEF StoreInv, Shape, TimeOut, Return, Move, At
<1> QED
  BY <1>1, <1>2, <1>3 DEF StoreInv

\* A failed write leaves the library as it was.
LEMMA WriteFailsInv ==
  ASSUME StoreInv, NEW p \in Procs, WriteFails(p)
  PROVE  StoreInv'
<1>1. Shape'
  BY DEF StoreInv, Shape, WriteFails, Finish, Move, Places
<1>2. MutexIsInUse'
  BY StoreAssumption DEF StoreInv, Shape, MutexIsInUse, Holding, WriteFails, Finish, Move, At
<1>3. CopyIsCurrent'
  BY CopiesStayCurrent DEF StoreInv, Shape, WriteFails, Finish, Move, At
<1> QED
  BY <1>1, <1>2, <1>3 DEF StoreInv

\* The caller held the mutex, and is idle when it is free.
LEMMA ReleaseInv ==
  ASSUME StoreInv, NEW p \in Procs, Release(p)
  PROVE  StoreInv'
<1>1. Shape'
  BY LoadIsOperation DEF StoreInv, Shape, Release, Return, Move, Places
<1>2. MutexIsInUse'
  BY StoreAssumption DEF StoreInv, Shape, MutexIsInUse, Holding, Release, Return, Move, At
<1>3. CopyIsCurrent'
  BY CopiesStayCurrent DEF StoreInv, Shape, Release, Return, Move, At
<1> QED
  BY <1>1, <1>2, <1>3 DEF StoreInv

\* A process that dies is not at work, and holds nothing.
LEMMA CrashInv ==
  ASSUME StoreInv, NEW p \in Procs, Crash(p)
  PROVE  StoreInv'
<1>1. Shape'
  BY LoadIsOperation DEF StoreInv, Shape, Crash, Return, Move, Places
<1>2. MutexIsInUse'
  BY StoreAssumption DEF StoreInv, Shape, MutexIsInUse, Holding, Crash, Return, Move, At
<1>3. CopyIsCurrent'
  BY CopiesStayCurrent DEF StoreInv, Shape, Crash, Return, Move, At
<1> QED
  BY <1>1, <1>2, <1>3 DEF StoreInv

\* What Read leaves to be written is made of the file as it is.
LEMMA ReadInv ==
  ASSUME StoreInv, NEW p \in Procs, Read(p)
  PROVE  StoreInv'
<1>1. Shape'
  BY DEF StoreInv, Shape, Read, Finish, Move, Places
<1>2. MutexIsInUse'
  BY StoreAssumption DEF StoreInv, Shape, MutexIsInUse, Holding, Read, Finish, Move, At
<1>3. CopyIsCurrent'
  <2>1. CASE pc'[p] # "writing"
    BY <2>1, CopiesStayCurrent DEF StoreInv, Shape, Read, Finish, Move
  <2>2. CASE pc'[p] = "writing"
    <3>1. /\ file # Damaged
          /\ ~Library!Refuses(op[p], file)
          /\ copy' = [copy EXCEPT ![p] = Library!After(op[p], file)]
          /\ op' = op /\ file' = file
      BY <2>2 DEF StoreInv, Shape, Read, Finish, Move
    <3>2. copy'[p] = Library!After(op[p], file)
      BY <3>1 DEF StoreInv, Shape
    <3>3. \A q \in Procs : At(q, "writing")' => q = p
      BY <1>2, <2>2 DEF MutexIsInUse, Holding, At
    <3>4. ~Library!Refuses(op[p], file)'
      BY <3>1 DEF Library!Refuses
    <3> QED
      BY <3>1, <3>2, <3>3, <3>4 DEF CopyIsCurrent
  <2> QED
    BY <2>1, <2>2
<1> QED
  BY <1>1, <1>2, <1>3 DEF StoreInv

\* Only the writer was about to write, and after it nobody is.
LEMMA ReplaceInv ==
  ASSUME StoreInv, NEW p \in Procs, Replace(p)
  PROVE  StoreInv'
<1>1. Shape'
  BY DEF StoreInv, Shape, Replace, Finish, Move, Places
<1>2. MutexIsInUse'
  BY StoreAssumption DEF StoreInv, Shape, MutexIsInUse, Holding, Replace, Finish, Move, At
<1>3. \A q \in Procs : pc'[q] # "writing"
  BY <1>2 DEF StoreInv, Shape, MutexIsInUse, Holding, Replace, Finish, Move, At
<1>4. CopyIsCurrent'
  BY <1>3 DEF CopyIsCurrent, At
<1> QED
  BY <1>1, <1>2, <1>4 DEF StoreInv

\* Other programs change the file only while nobody is about to write.
LEMMA InterfereInv ==
  ASSUME StoreInv, Interfere
  PROVE  StoreInv'
<1>1. Shape' /\ MutexIsInUse'
  BY DEF StoreInv, Shape, MutexIsInUse, Interfere, locals
<1>2. \A q \in Procs : pc'[q] # "writing"
  BY StoreAssumption DEF StoreInv, MutexIsInUse, Holding, Interfere
<1>3. CopyIsCurrent'
  BY <1>2 DEF CopyIsCurrent, At
<1> QED
  BY <1>1, <1>3 DEF StoreInv

\* StoreInv is inductive.
LEMMA StepInv == StoreInv /\ [StoreNext]_storeVars => StoreInv'
<1> SUFFICES ASSUME StoreInv, [StoreNext]_storeVars PROVE StoreInv'
  OBVIOUS
<1>1. CASE UNCHANGED storeVars
  <2>1. Shape' /\ MutexIsInUse'
    BY <1>1 DEF storeVars, StoreInv, Shape, MutexIsInUse
  <2>2. CopyIsCurrent'
    BY <1>1 DEF storeVars, StoreInv, CopyIsCurrent, At, Library!Refuses, Library!After
  <2> QED
    BY <2>1, <2>2 DEF StoreInv
<1>2. ASSUME NEW p \in Procs, NEW o \in Library!Operations, Call(p, o) PROVE StoreInv'
  BY <1>2, CallInv
<1>3. ASSUME NEW p \in Procs, Work(p) PROVE StoreInv'
  BY <1>3, AcquireInv, ReadInv, ReplaceInv, WriteFailsInv, ReleaseInv DEF Work
<1>4. ASSUME NEW p \in Procs, TimeOut(p) \/ Crash(p) PROVE StoreInv'
  BY <1>4, TimeOutInv, CrashInv
<1> QED
  BY <1>1, <1>2, <1>3, <1>4, InterfereInv DEF StoreNext

\* WithLock: somebody holds the mutex only while its call is at work, and a call
\* is at work only while it holds it, for any number of processes.
THEOREM MutexTheorem == StoreSpec => []MutexIsInUse
<1>1. StoreInv => MutexIsInUse
  BY DEF StoreInv
<1> QED
  BY InitInv, StepInv, <1>1, PTL DEF StoreSpec

\* A step of the store is an operation of the library as a whole, an
\* interference of another program, or leaves the library alone.
LEMMA StepIsAtomic == StoreInv /\ [StoreNext]_storeVars => [Library!Next]_file
<1> SUFFICES ASSUME StoreInv, [StoreNext]_storeVars, file' # file PROVE Library!Next
  OBVIOUS
<1>1. CASE Interfere
  BY <1>1 DEF Interfere, Library!Next, Library!Interfere
<1>2. CASE \E p \in Procs : Replace(p)
  <2>1. PICK p \in Procs : Replace(p)
    BY <1>2
  <2>2. file' = copy[p] /\ At(p, "writing")
    BY <2>1 DEF Replace
  <2>3. Library!Operate(op[p])
    BY <2>2 DEF StoreInv, CopyIsCurrent, Library!Operate
  <2>4. op[p] \in Library!Operations
    BY DEF StoreInv, Shape
  <2> QED
    BY <2>3, <2>4 DEF Library!Next
<1>3. Interfere \/ \E p \in Procs : Replace(p)
  BY DEF StoreNext, storeVars, Call, Work, Acquire, Read, WriteFails, Release, TimeOut, Crash
<1> QED
  BY <1>1, <1>2, <1>3

\* Every call is atomic: the store implements a library that changes by one
\* whole operation at a time.
THEOREM AtomicTheorem == StoreSpec => CallsAreAtomic
<1>1. StoreInit => file = Library!Empty
  BY DEF StoreInit
<1> QED
  BY InitInv, StepInv, StepIsAtomic, <1>1, PTL DEF StoreSpec, CallsAreAtomic, Library!LibrarySpec
-----------------------------------------------------------------------------
(* What a library holds *)

\* Templates that Read accepts: typed, and no more of them than it takes.
TemplatesOK(templates) ==
  /\ templates \in [DOMAIN templates -> Texts]
  /\ DOMAIN templates \subseteq Names
  /\ IsFiniteSet(DOMAIN templates)
  /\ Cardinality(DOMAIN templates) <= MaxTemplates

\* Libraries that Read accepts: typed, no more messages or templates than it takes.
LibraryOK(lib) ==
  /\ lib = [recent |-> lib.recent, templates |-> lib.templates]
  /\ lib.recent \in Seq(Messages)
  /\ Len(lib.recent) <= MaxRecent
  /\ TemplatesOK(lib.templates)

\* What the cut of a sequence holds.
LEMMA CutIs ==
  ASSUME NEW S, NEW s \in Seq(S), NEW a \in Nat \ {0}, NEW b \in 0..Len(s),
         NEW r, r = SubSeq(s, a, b)
  PROVE  /\ r \in Seq(S)
         /\ Len(r) = IF a <= b THEN b - a + 1 ELSE 0
         /\ \A i \in 1..Len(r) : r[i] = s[a + i - 1]
<1>1. /\ a \in Int /\ b \in Int
      /\ \A i \in a..b : s[i] \in S
  OBVIOUS
<1>2. /\ r \in Seq(S)
      /\ Len(r) = IF a <= b THEN b - a + 1 ELSE 0
      /\ \A i \in 1..(b - a + 1) : r[i] = s[a + i - 1]
  BY <1>1, SubSeqProperties
<1>. QED BY <1>1, <1>2

\* What a sequence holds that lost one element.
LEMMA WithoutIs ==
  ASSUME NEW S, NEW s \in Seq(S), NEW k \in 1..Len(s)
  PROVE  LET r == SubSeq(s, 1, k - 1) \o SubSeq(s, k + 1, Len(s))
         IN  /\ r \in Seq(S)
             /\ Len(r) = Len(s) - 1
             /\ \A i \in 1..Len(r) : r[i] = IF i < k THEN s[i] ELSE s[i + 1]
<1>1. PICK t : t = SubSeq(s, 1, k - 1)
  OBVIOUS
<1>2. PICK u : u = SubSeq(s, k + 1, Len(s))
  OBVIOUS
<1>3. t \in Seq(S) /\ Len(t) = k - 1 /\ \A i \in 1..Len(t) : t[i] = s[i]
  BY <1>1, CutIs
<1>4. u \in Seq(S) /\ Len(u) = Len(s) - k /\ \A i \in 1..Len(u) : u[i] = s[k + i]
  BY <1>2, CutIs
<1>5. PICK r : r = t \o u
  OBVIOUS
<1>6. /\ r \in Seq(S)
      /\ Len(r) = Len(t) + Len(u)
      /\ \A i \in 1..(Len(t) + Len(u)) : r[i] = IF i <= Len(t) THEN t[i] ELSE u[i - Len(t)]
  BY <1>3, <1>4, <1>5, ConcatProperties
<1>7. Len(r) = Len(s) - 1 /\ Len(s) \in Nat
  BY <1>3, <1>4, <1>6
<1>8. ASSUME NEW i \in 1..Len(r) PROVE r[i] = IF i < k THEN s[i] ELSE s[i + 1]
  <2>1. CASE i < k
    BY <1>3, <1>6, <1>7, <2>1
  <2>2. CASE ~(i < k)
    <3>1. r[i] = u[i - (k - 1)] /\ i - (k - 1) \in 1..Len(u)
      BY <1>3, <1>4, <1>6, <1>7, <2>2
    <3>2. u[i - (k - 1)] = s[k + (i - (k - 1))] /\ k + (i - (k - 1)) = i + 1
      BY <1>4, <3>1
    <3>. QED BY <2>2, <3>1, <3>2
  <2>. QED BY <2>1, <2>2
<1>9. r = SubSeq(s, 1, k - 1) \o SubSeq(s, k + 1, Len(s))
  BY <1>1, <1>2, <1>5
<1>. QED BY <1>6, <1>7, <1>8, <1>9, Zenon

\* What a sequence holds with an element before it.
LEMMA BeforeIs ==
  ASSUME NEW S, NEW s \in Seq(S), NEW m \in S, NEW r, r = <<m>> \o s
  PROVE  /\ r \in Seq(S)
         /\ Len(r) = Len(s) + 1
         /\ \A i \in 1..Len(r) : r[i] = IF i = 1 THEN m ELSE s[i - 1]
<1>1. PICK t : t = <<m>>
  OBVIOUS
<1>2. t \in Seq(S) /\ Len(t) = 1 /\ t[1] = m
  BY <1>1
<1>3. /\ r \in Seq(S)
      /\ Len(r) = Len(t) + Len(s)
      /\ \A i \in 1..(Len(t) + Len(s)) : r[i] = IF i <= Len(t) THEN t[i] ELSE s[i - Len(t)]
  BY <1>1, <1>2, ConcatProperties
<1>. QED BY <1>2, <1>3

\* The sequence r is s with m in front, and without its place k in s, or without
\* the last one of a full list.
MovedToFront(r, s, m, k) ==
  /\ k <= Len(s) => s[k] = m
  /\ k = Len(s) + 1 => \A i \in 1..Len(s) : s[i] # m
  /\ Len(r) = IF k <= Len(s) \/ Len(s) = MaxRecent THEN Len(s) ELSE Len(s) + 1
  /\ \A i \in 1..Len(r) : r[i] = IF i = 1 THEN m ELSE IF i <= k THEN s[i - 1] ELSE s[i]

\* A recorded message comes first; the others move back, up to the place k it
\* had, and the last one falls off the end of a full list.
LEMMA RecordedIs ==
  ASSUME StoreAssumption, NEW lib, NEW m \in Messages, LibraryOK(lib)
  PROVE  \E k \in 1..(Len(lib.recent) + 1), r \in Seq(Messages) :
           /\ Library!RecordSuccess(lib, m) = [recent |-> r, templates |-> lib.templates]
           /\ MovedToFront(r, lib.recent, m, k)
<1>0. MaxRecent \in Nat /\ MaxRecent >= 1 /\ Len(lib.recent) <= MaxRecent
  BY DEF StoreAssumption, LibraryOK
<1>1. lib.recent \in Seq(Messages) /\ DOMAIN lib.recent = 1..Len(lib.recent)
  BY DEF LibraryOK
<1>2. PICK others : others =
         IF \E i \in DOMAIN lib.recent : lib.recent[i] = m
         THEN LET at == CHOOSE i \in DOMAIN lib.recent : lib.recent[i] = m
              IN  SubSeq(lib.recent, 1, at - 1) \o SubSeq(lib.recent, at + 1, Len(lib.recent))
         ELSE lib.recent
  OBVIOUS
<1>3. \E k \in 1..(Len(lib.recent) + 1) :
        /\ k <= Len(lib.recent) => lib.recent[k] = m
        /\ k = Len(lib.recent) + 1 => \A i \in 1..Len(lib.recent) : lib.recent[i] # m
        /\ others \in Seq(Messages)
        /\ Len(others) = IF k <= Len(lib.recent) THEN Len(lib.recent) - 1 ELSE Len(lib.recent)
        /\ \A i \in 1..Len(others) :
             others[i] = IF i < k THEN lib.recent[i] ELSE lib.recent[i + 1]
  <2>1. CASE \E i \in DOMAIN lib.recent : lib.recent[i] = m
    <3>1. PICK k : k = CHOOSE i \in DOMAIN lib.recent : lib.recent[i] = m
      OBVIOUS
    <3>2. k \in DOMAIN lib.recent /\ lib.recent[k] = m
      BY <2>1, <3>1
    <3>3. others = SubSeq(lib.recent, 1, k - 1) \o SubSeq(lib.recent, k + 1, Len(lib.recent))
      BY <1>2, <2>1, <3>1, Zenon
    <3>4. k \in 1..Len(lib.recent)
      BY <1>1, <3>2
    <3>5. /\ others \in Seq(Messages)
          /\ Len(others) = Len(lib.recent) - 1
          /\ \A i \in 1..Len(others) :
               others[i] = IF i < k THEN lib.recent[i] ELSE lib.recent[i + 1]
      BY <1>1, <3>3, <3>4, WithoutIs, Zenon
    <3>6. Len(lib.recent) \in Nat /\ k \in 1..(Len(lib.recent) + 1) /\ k # Len(lib.recent) + 1
          /\ k <= Len(lib.recent)
      BY <1>1, <3>4
    <3>. QED BY <3>2, <3>5, <3>6
  <2>2. CASE ~\E i \in DOMAIN lib.recent : lib.recent[i] = m
    <3>1. others = lib.recent
      BY <1>2, <2>2
    <3>. QED BY <1>1, <2>2, <3>1
  <2>. QED BY <2>1, <2>2
<1>4. PICK k \in 1..(Len(lib.recent) + 1) :
        /\ k <= Len(lib.recent) => lib.recent[k] = m
        /\ k = Len(lib.recent) + 1 => \A i \in 1..Len(lib.recent) : lib.recent[i] # m
        /\ others \in Seq(Messages)
        /\ Len(others) = IF k <= Len(lib.recent) THEN Len(lib.recent) - 1 ELSE Len(lib.recent)
        /\ \A i \in 1..Len(others) :
             others[i] = IF i < k THEN lib.recent[i] ELSE lib.recent[i + 1]
  BY <1>3
<1>5. PICK all : all = <<m>> \o others
  OBVIOUS
<1>6. /\ all \in Seq(Messages) /\ Len(all) = Len(others) + 1
      /\ \A i \in 1..Len(all) : all[i] = IF i = 1 THEN m ELSE others[i - 1]
  BY <1>4, <1>5, BeforeIs
<1>7. PICK r : r = IF Len(all) > MaxRecent THEN SubSeq(all, 1, MaxRecent) ELSE all
  OBVIOUS
<1>8. Library!RecordSuccess(lib, m) = [recent |-> r, templates |-> lib.templates]
  <2>1. [lib EXCEPT !.recent = r] = [recent |-> r, templates |-> lib.templates]
    <3>1. lib = [recent |-> lib.recent, templates |-> lib.templates]
      BY Zenon DEF LibraryOK
    <3>2. \A x, y : [[recent |-> x, templates |-> y] EXCEPT !.recent = r]
                      = [recent |-> r, templates |-> y]
      OBVIOUS
    <3>. QED BY <3>1, <3>2, Zenon
  <2>2. Library!RecordSuccess(lib, m) = [lib EXCEPT !.recent = r]
    BY <1>2, <1>5, <1>7, Zenon DEF Library!RecordSuccess
  <2>. QED BY <2>1, <2>2, Zenon
<1>9. /\ r \in Seq(Messages)
      /\ Len(r) = IF Len(all) > MaxRecent THEN MaxRecent ELSE Len(all)
      /\ \A i \in 1..Len(r) : r[i] = all[i]
  <2>1. CASE Len(all) > MaxRecent
    <3>1. r = SubSeq(all, 1, MaxRecent) /\ MaxRecent \in 0..Len(all) /\ 1 \in Nat \ {0}
      BY <1>0, <1>6, <1>7, <2>1
    <3>2. /\ r \in Seq(Messages) /\ Len(r) = MaxRecent
          /\ \A i \in 1..Len(r) : r[i] = all[1 + i - 1]
      BY <1>0, <1>6, <3>1, CutIs
    <3>. QED BY <1>0, <2>1, <3>2
  <2>2. CASE ~(Len(all) > MaxRecent)
    BY <1>6, <1>7, <2>2
  <2>. QED BY <2>1, <2>2
<1>10. Len(r) = IF k <= Len(lib.recent) \/ Len(lib.recent) = MaxRecent THEN Len(lib.recent) ELSE Len(lib.recent) + 1
  BY <1>0, <1>1, <1>4, <1>6, <1>9
<1>11. ASSUME NEW i \in 1..Len(r)
       PROVE  r[i] = IF i = 1 THEN m ELSE IF i <= k THEN lib.recent[i - 1] ELSE lib.recent[i]
  <2>1. r[i] = IF i = 1 THEN m ELSE others[i - 1]
    BY <1>6, <1>9
  <2>2. i # 1 => i - 1 \in 1..Len(others)
    BY <1>0, <1>4, <1>6, <1>9
  <2>3. i # 1 => others[i - 1] = IF i - 1 < k THEN lib.recent[i - 1] ELSE lib.recent[(i - 1) + 1]
    BY <1>4, <2>2
  <2>. QED BY <1>9, <2>1, <2>2, <2>3
<1>12. MovedToFront(r, lib.recent, m, k)
  BY <1>4, <1>10, <1>11 DEF MovedToFront
<1>. QED BY <1>4, <1>8, <1>9, <1>12, Zenon

\* The last place of x in rec.
LastIn(rec, x) ==
  LET uses == {i \in DOMAIN rec : rec[i] = x}
  IN  CHOOSE i \in uses : \A j \in uses : j <= i

\* The messages s are the last different ones of rec, newest first, and are all
\* of them unless s is full.
Newest(s, rec) ==
  /\ \A j \in 1..Len(rec) : LastIn(rec, rec[j]) \in 1..Len(rec)
  /\ \A i \in 1..Len(s) : \E j \in 1..Len(rec) : rec[j] = s[i]
  /\ Len(s) < MaxRecent => \A j \in 1..Len(rec) : \E i \in 1..Len(s) : s[i] = rec[j]
  /\ \A i, j \in 1..Len(s) : i < j => LastIn(rec, s[i]) > LastIn(rec, s[j])
  /\ \A j \in 1..Len(rec) : (\A i \in 1..Len(s) : s[i] # rec[j]) =>
       \A i \in 1..Len(s) : LastIn(rec, rec[j]) < LastIn(rec, s[i])

\* The sequence more is rec with m after it: m was last used just now, every
\* other message when it was.
OneMore(more, rec, m) ==
  /\ more \in Seq(Messages)
  /\ Len(more) = Len(rec) + 1
  /\ \A j \in 1..Len(more) : more[j] = IF j = Len(more) THEN m ELSE rec[j]
  /\ LastIn(more, m) = Len(more)
  /\ \A x : x # m => LastIn(more, x) = LastIn(rec, x)

\* The last use of a message that is recorded again is now, and that of every
\* other message stays.
LEMMA LastUseMoves ==
  ASSUME NEW rec \in Seq(Messages), NEW m \in Messages
  PROVE  OneMore(Append(rec, m), rec, m)
<1>0. PICK more : more = Append(rec, m)
  OBVIOUS
<1>1. /\ more \in Seq(Messages) /\ Len(more) = Len(rec) + 1
      /\ \A j \in 1..Len(more) : more[j] = IF j = Len(more) THEN m ELSE rec[j]
  BY <1>0, AppendProperties
<1>2. Len(more) \in Nat /\ DOMAIN more = 1..Len(more) /\ DOMAIN rec = 1..Len(rec) /\ Len(rec) \in Nat
  BY <1>1
<1>3. LastIn(more, m) = Len(more)
  <2>1. PICK uses : uses = {i \in DOMAIN more : more[i] = m}
    OBVIOUS
  <2>2. Len(more) \in uses /\ \A j \in uses : j <= Len(more) /\ j \in Nat
    BY <1>1, <1>2, <2>1
  <2>3. LastIn(more, m) = CHOOSE i \in uses : \A j \in uses : j <= i
    BY <2>1 DEF LastIn
  <2>. QED BY <1>2, <2>2, <2>3
<1>4. ASSUME NEW x, x # m PROVE LastIn(more, x) = LastIn(rec, x)
  <2>1. {i \in DOMAIN more : more[i] = x} = {i \in DOMAIN rec : rec[i] = x}
    BY <1>1, <1>2, <1>4
  <2>. QED BY <2>1, Zenon DEF LastIn
<1>5. OneMore(more, rec, m)
  BY <1>1, <1>3, <1>4 DEF OneMore
<1>. QED BY <1>0, <1>5

\* Recording a message keeps the list the newest.
LEMMA RecordKeepsNewest ==
  ASSUME StoreAssumption, NEW m \in Messages, NEW rec \in Seq(Messages), NEW more,
         OneMore(more, rec, m),
         NEW s \in Seq(Messages), Len(s) <= MaxRecent, Newest(s, rec),
         NEW r \in Seq(Messages), NEW k \in 1..(Len(s) + 1), MovedToFront(r, s, m, k)
  PROVE  Newest(r, more)
<1> USE DEF MovedToFront
<1> DEFINE n == Len(s)
           N == Len(rec)
<1>0. n \in Nat /\ N \in Nat /\ MaxRecent \in Nat \ {0} /\ Len(r) \in Nat
  BY DEF StoreAssumption
<1>1. /\ more \in Seq(Messages) /\ Len(more) = N + 1
      /\ \A j \in 1..(N + 1) : more[j] = IF j = N + 1 THEN m ELSE rec[j]
      /\ LastIn(more, m) = N + 1
      /\ \A x : x # m => LastIn(more, x) = LastIn(rec, x)
  BY DEF OneMore
<1>2. /\ \A j \in 1..N : LastIn(rec, rec[j]) \in 1..N
      /\ \A i \in 1..n : \E j \in 1..N : rec[j] = s[i]
      /\ n < MaxRecent => \A j \in 1..N : \E i \in 1..n : s[i] = rec[j]
      /\ \A i, j \in 1..n : i < j => LastIn(rec, s[i]) > LastIn(rec, s[j])
      /\ \A j \in 1..N : (\A i \in 1..n : s[i] # rec[j]) =>
           \A i \in 1..n : LastIn(rec, rec[j]) < LastIn(rec, s[i])
  BY DEF Newest
<1>3. \A i \in 1..n : LastIn(rec, s[i]) \in 1..N
  BY <1>2
<1>4. \A i \in 1..n : i # k => s[i] # m
  <2>1. \A i, j \in 1..n : i # j => s[i] # s[j]
    BY <1>0, <1>2, <1>3
  <2>2. CASE k <= n
    BY <1>0, <2>1, <2>2
  <2>3. CASE k = n + 1
    BY <1>0, <2>3
  <2>4. k <= n \/ k = n + 1
    BY <1>0
  <2>. QED BY <2>2, <2>3, <2>4, Zenon
<1>5. 1 \in 1..Len(r) /\ r[1] = m
  BY <1>0
<1>6. ASSUME NEW i \in 2..Len(r)
      PROVE  \E h \in 1..n : /\ h # k /\ r[i] = s[h]
                              /\ h = IF i <= k THEN i - 1 ELSE i
  BY <1>0
<1>7. \A i \in 2..Len(r) : LastIn(more, r[i]) = LastIn(rec, r[i]) /\ LastIn(rec, r[i]) \in 1..N
  <2> SUFFICES ASSUME NEW i \in 2..Len(r)
               PROVE  LastIn(more, r[i]) = LastIn(rec, r[i]) /\ LastIn(rec, r[i]) \in 1..N
    OBVIOUS
  <2>1. PICK h \in 1..n : h # k /\ r[i] = s[h]
    BY <1>6
  <2>2. r[i] # m /\ LastIn(rec, r[i]) \in 1..N
    BY <1>3, <1>4, <2>1
  <2>. QED BY <1>1, <2>2
<1>8. ASSUME NEW h \in 1..n, h # k, h < n \/ n < MaxRecent \/ k <= n
      PROVE  \E i \in 1..Len(r) : r[i] = s[h]
  <2>1. CASE h < k
    <3>1. h + 1 \in 1..Len(r) /\ h + 1 # 1 /\ h + 1 <= k
      BY <1>0, <1>8, <2>1
    <3>2. r[h + 1] = s[(h + 1) - 1]
      BY <3>1
    <3>. QED BY <3>1, <3>2
  <2>2. CASE ~(h < k)
    <3>1. h \in 1..Len(r) /\ h # 1 /\ ~(h <= k)
      BY <1>0, <1>8, <2>2
    <3>. QED BY <3>1
  <2>. QED BY <2>1, <2>2
<1> HIDE DEF n, N
<1>10. \A j \in 1..Len(more) : LastIn(more, more[j]) \in 1..Len(more)
  <2> SUFFICES ASSUME NEW j \in 1..Len(more)
               PROVE  LastIn(more, more[j]) \in 1..Len(more)
    OBVIOUS
  <2>1. CASE more[j] = m
    BY <1>0, <1>1, <2>1
  <2>2. CASE more[j] # m
    <3>1. j \in 1..N /\ more[j] = rec[j]
      BY <1>0, <1>1, <2>2
    <3>2. LastIn(more, more[j]) = LastIn(rec, rec[j]) /\ LastIn(rec, rec[j]) \in 1..N
      BY <1>1, <1>2, <2>2, <3>1
    <3>. QED BY <1>0, <1>1, <3>2
  <2>. QED BY <2>1, <2>2
<1>11. \A i \in 1..Len(r) : \E j \in 1..Len(more) : more[j] = r[i]
  <2>1. more[N + 1] = m /\ N + 1 \in 1..Len(more)
    BY <1>0, <1>1
  <2>2. ASSUME NEW i \in 2..Len(r) PROVE \E j \in 1..Len(more) : more[j] = r[i]
    <3>1. PICK h \in 1..n : r[i] = s[h]
      BY <1>6
    <3>2. PICK j \in 1..N : rec[j] = s[h]
      BY <1>2
    <3>. QED BY <1>0, <1>1, <3>1, <3>2
  <2>3. \A i \in 1..Len(r) : i = 1 \/ i \in 2..Len(r)
    BY <1>0
  <2>. QED BY <1>5, <2>1, <2>2, <2>3
<1>12. ASSUME Len(r) < MaxRecent, NEW j \in 1..Len(more)
       PROVE  \E i \in 1..Len(r) : r[i] = more[j]
  <2>1. CASE more[j] = m
    BY <1>5, <2>1
  <2>2. CASE more[j] # m
    <3>1. j \in 1..N /\ more[j] = rec[j]
      BY <1>0, <1>1, <2>2
    <3>2. n < MaxRecent
      BY <1>0, <1>12 DEF n
    <3>3. PICK h \in 1..n : s[h] = rec[j]
      BY <1>2, <3>1, <3>2
    <3>4. h # k
      BY <1>0, <2>2, <3>1, <3>3 DEF n
    <3>. QED BY <1>8, <3>1, <3>2, <3>3, <3>4
  <2>. QED BY <2>1, <2>2
<1>13. ASSUME NEW i \in 1..Len(r), NEW j \in 1..Len(r), i < j
       PROVE  LastIn(more, r[i]) > LastIn(more, r[j])
  <2>1. j \in 2..Len(r)
    BY <1>0, <1>13
  <2>2. PICK h \in 1..n : r[j] = s[h] /\ h = IF j <= k THEN j - 1 ELSE j
    BY <1>6, <2>1
  <2>3. CASE i = 1
    BY <1>0, <1>1, <1>5, <1>7, <2>1, <2>3
  <2>4. CASE i # 1
    <3>1. i \in 2..Len(r)
      BY <1>0, <2>4
    <3>2. PICK g \in 1..n : r[i] = s[g] /\ g = IF i <= k THEN i - 1 ELSE i
      BY <1>6, <3>1
    <3>3. g < h
      BY <1>0, <1>13, <2>2, <3>2
    <3>4. LastIn(rec, s[g]) > LastIn(rec, s[h])
      BY <1>2, <3>3
    <3>5. LastIn(more, r[i]) = LastIn(rec, s[g])
      BY <1>7, <3>1, <3>2
    <3>6. LastIn(more, r[j]) = LastIn(rec, s[h])
      BY <1>7, <2>1, <2>2
    <3>. QED BY <3>4, <3>5, <3>6
  <2>. QED BY <2>3, <2>4
<1>14. ASSUME NEW j \in 1..Len(more), \A i \in 1..Len(r) : r[i] # more[j], NEW i \in 1..Len(r)
       PROVE  LastIn(more, more[j]) < LastIn(more, r[i])
  <2>1. more[j] # m /\ j \in 1..N /\ more[j] = rec[j]
    BY <1>0, <1>1, <1>5, <1>14
  <2>2. LastIn(more, more[j]) = LastIn(rec, rec[j]) /\ LastIn(rec, rec[j]) \in 1..N
    BY <1>1, <1>2, <2>1
  <2>3. CASE i = 1
    BY <1>0, <1>1, <1>5, <2>2, <2>3
  <2>4. CASE i # 1
    <3>1. i \in 2..Len(r)
      BY <1>0, <2>4
    <3>2. PICK g \in 1..n : r[i] = s[g] /\ g = IF i <= k THEN i - 1 ELSE i
      BY <1>6, <3>1
    <3>3. LastIn(more, r[i]) = LastIn(rec, s[g])
      BY <1>7, <3>1, <3>2
    <3>4. CASE \A h \in 1..n : s[h] # rec[j]
      BY <1>2, <2>1, <2>2, <3>3, <3>4
    <3>5. CASE \E h \in 1..n : s[h] = rec[j]
      <4>1. PICK h \in 1..n : s[h] = rec[j]
        BY <3>5
      <4>2. h # k
        BY <1>0, <2>1, <4>1 DEF n
      <4>3. h = n /\ n = MaxRecent /\ k = n + 1
        <5>1. ~(h < n \/ n < MaxRecent \/ k <= n)
          BY <1>8, <1>14, <2>1, <4>1, <4>2
        <5>. QED BY <1>0, <5>1 DEF n
      <4>4. g < h
        BY <1>0, <3>1, <3>2, <4>3 DEF n
      <4>. QED BY <1>2, <2>2, <3>3, <4>1, <4>4
    <3>. QED BY <3>4, <3>5
  <2>. QED BY <2>3, <2>4
<1>. QED BY <1>10, <1>11, <1>12, <1>13, <1>14 DEF Newest

\* The elements of a sequence are finitely many.
LEMMA ElementsAreFinite ==
  ASSUME NEW s \in Seq(Messages)
  PROVE  IsFiniteSet({s[i] : i \in DOMAIN s})
<1>1. PICK T : T = {s[i] : i \in DOMAIN s}
  OBVIOUS
<1>2. s \in Surjection(1..Len(s), T)
  BY <1>1 DEF Surjection
<1>3. IsFiniteSet(1..Len(s))
  BY FS_Interval
<1>4. IsFiniteSet(T)
  BY <1>2, <1>3, FS_Surjection
<1>. QED BY <1>1, <1>4

\* A sequence without repetition holds as many elements as it is long.
LEMMA ElementsAreCounted ==
  ASSUME NEW s \in Seq(Messages), \A i, j \in DOMAIN s : i # j => s[i] # s[j]
  PROVE  Cardinality({s[i] : i \in DOMAIN s}) = Len(s)
<1>1. PICK T : T = {s[i] : i \in DOMAIN s}
  OBVIOUS
<1>2. s \in Bijection(1..Len(s), T)
  BY <1>1 DEF Bijection, Injection, Surjection, IsInjective
<1>3. ExistsBijection(1..Len(s), T)
  BY <1>2 DEF ExistsBijection
<1>4. Len(s) \in Nat
  OBVIOUS
<1>5. Cardinality(T) = Len(s)
  BY <1>3, <1>4, FS_CountingElements
<1>. QED BY <1>1, <1>5

\* What the newest messages have to do with all that were recorded.
LEMMA NewestIs ==
  ASSUME StoreAssumption, NEW rec \in Seq(Messages), NEW s \in Seq(Messages),
         Len(s) <= MaxRecent, Newest(s, rec)
  PROVE  LET used == {rec[i] : i \in DOMAIN rec}
             kept == {s[i] : i \in DOMAIN s}
         IN  /\ kept \subseteq used
             /\ Len(s) = Cardinality(kept)
             /\ Cardinality(kept) = IF Cardinality(used) > MaxRecent THEN MaxRecent
                                                                    ELSE Cardinality(used)
             /\ \A i, j \in DOMAIN s : i < j => LastIn(rec, s[i]) > LastIn(rec, s[j])
             /\ \A old \in used \ kept, new \in kept : LastIn(rec, old) < LastIn(rec, new)
<1>0. /\ MaxRecent \in Nat /\ Len(s) \in Nat /\ Len(rec) \in Nat
      /\ DOMAIN s = 1..Len(s) /\ DOMAIN rec = 1..Len(rec)
  BY DEF StoreAssumption
<1>1. PICK used : used = {rec[i] : i \in DOMAIN rec}
  OBVIOUS
<1>2. PICK kept : kept = {s[i] : i \in DOMAIN s}
  OBVIOUS
<1>3. kept \subseteq used
  BY <1>0, <1>1, <1>2 DEF Newest
<1>4. \A i, j \in DOMAIN s : i < j => LastIn(rec, s[i]) > LastIn(rec, s[j])
  BY <1>0 DEF Newest
<1>5. \A i \in DOMAIN s : LastIn(rec, s[i]) \in 1..Len(rec)
  BY <1>0 DEF Newest
<1>6. \A i, j \in DOMAIN s : i # j => s[i] # s[j]
  BY <1>0, <1>4, <1>5
<1>7. Cardinality(kept) = Len(s)
  BY <1>2, <1>6, ElementsAreCounted
<1>8. IsFiniteSet(used)
  BY <1>1, ElementsAreFinite
<1>9. Cardinality(used) \in Nat
  BY <1>8, FS_CardinalityType
<1>10. Cardinality(kept) <= Cardinality(used)
  BY <1>3, <1>8, FS_Subset
<1>11. Len(s) < MaxRecent => used \subseteq kept
  BY <1>0, <1>1, <1>2 DEF Newest
<1>12. Cardinality(kept) = IF Cardinality(used) > MaxRecent THEN MaxRecent
                                                           ELSE Cardinality(used)
  <2>0. PICK n, c, d : n = Len(s) /\ c = Cardinality(used) /\ d = Cardinality(kept)
    OBVIOUS
  <2>1. n \in Nat /\ n <= MaxRecent /\ MaxRecent \in Nat
    BY <1>0, <2>0, Zenon
  <2>2. c \in Nat /\ d = n /\ d <= c
    BY <1>7, <1>9, <1>10, <2>0, Zenon
  <2>3. n < MaxRecent => c = d
    BY <1>3, <1>11, <2>0, Zenon
  <2>4. d = IF c > MaxRecent THEN MaxRecent ELSE c
    BY ONLY <2>1, <2>2, <2>3
  <2>. QED BY <2>0, <2>4, Zenon
<1>13. ASSUME NEW old \in used \ kept, NEW new \in kept
       PROVE  LastIn(rec, old) < LastIn(rec, new)
  <2>1. PICK j \in 1..Len(rec) : old = rec[j]
    BY <1>0, <1>1
  <2>2. PICK i \in 1..Len(s) : new = s[i]
    BY <1>0, <1>2
  <2>3. \A h \in 1..Len(s) : s[h] # rec[j]
    BY <1>0, <1>2, <1>13, <2>1
  <2>. QED BY <2>1, <2>2, <2>3 DEF Newest
<1>. QED BY <1>1, <1>2, <1>3, <1>4, <1>7, <1>12, <1>13, Zenon

\* A library made of acceptable messages and templates is acceptable.
LEMMA LibraryOfParts ==
  ASSUME NEW r \in Seq(Messages), Len(r) <= MaxRecent, NEW t, TemplatesOK(t)
  PROVE  LibraryOK([recent |-> r, templates |-> t])
<1>1. PICK lib : lib = [recent |-> r, templates |-> t]
  OBVIOUS
<1>2. lib.recent = r /\ lib.templates = t
  BY <1>1
<1>3. LibraryOK(lib)
  BY <1>1, <1>2, Zenon DEF LibraryOK
<1>. QED BY <1>1, <1>3

\* A new library is acceptable.
LEMMA EmptyIsLibrary ==
  ASSUME StoreAssumption
  PROVE  LibraryOK(Library!Empty)
<1>1. PICK t : t = <<>>
  OBVIOUS
<1>2. t \in Seq(Messages) /\ Len(t) <= MaxRecent
  BY <1>1 DEF StoreAssumption
<1>3. TemplatesOK(t)
  <2>1. DOMAIN t = {} /\ t \in [{} -> Texts]
    BY <1>1
  <2>2. IsFiniteSet(DOMAIN t) /\ Cardinality(DOMAIN t) = 0
    BY <2>1, FS_EmptySet
  <2>3. MaxTemplates \in Nat
    BY DEF StoreAssumption
  <2>. QED BY <2>1, <2>2, <2>3 DEF TemplatesOK
<1>4. Library!Empty = [recent |-> t, templates |-> t]
  BY <1>1 DEF Library!Empty
<1>. QED BY <1>2, <1>3, <1>4, LibraryOfParts, Zenon

\* A saved template is one more only if there was room for it.
LEMMA SavedIs ==
  ASSUME StoreAssumption, NEW lib, LibraryOK(lib), NEW n \in Names, NEW text \in Texts,
         n \in DOMAIN lib.templates \/ ~(Cardinality(DOMAIN lib.templates) >= MaxTemplates)
  PROVE  /\ LibraryOK(Library!SaveTemplate(lib, n, text))
         /\ Library!SaveTemplate(lib, n, text).recent = lib.recent
<1>1. PICK D : D = DOMAIN lib.templates
  OBVIOUS
<1>2. PICK t : t = [m \in D \cup {n} |-> IF m = n THEN text ELSE lib.templates[m]]
  OBVIOUS
<1>3. /\ IsFiniteSet(D) /\ D \subseteq Names /\ lib.templates \in [D -> Texts]
      /\ Cardinality(D) \in Nat /\ Cardinality(D) <= MaxTemplates /\ MaxTemplates \in Nat
      /\ n \in D \/ Cardinality(D) < MaxTemplates
  <2>1. IsFiniteSet(D) /\ D \subseteq Names /\ lib.templates \in [D -> Texts]
        /\ Cardinality(D) <= MaxTemplates
    BY <1>1, Zenon DEF LibraryOK, TemplatesOK
  <2>2. Cardinality(D) \in Nat
    BY <2>1, FS_CardinalityType
  <2>3. MaxTemplates \in Nat
    BY DEF StoreAssumption
  <2>4. n \in D \/ ~(Cardinality(D) >= MaxTemplates)
    BY <1>1, Zenon
  <2>. QED BY <2>1, <2>2, <2>3, <2>4
<1>4. DOMAIN t = D \cup {n} /\ t \in [D \cup {n} -> Texts]
  BY <1>2, <1>3
<1>5. IsFiniteSet(D \cup {n}) /\ Cardinality(D \cup {n}) <= MaxTemplates
  <2>1. /\ IsFiniteSet(D \cup {n})
        /\ Cardinality(D \cup {n}) = IF n \in D THEN Cardinality(D) ELSE Cardinality(D) + 1
    BY <1>3, FS_AddElement
  <2>2. PICK c, d : c = Cardinality(D) /\ d = Cardinality(D \cup {n})
    OBVIOUS
  <2>3. /\ c \in Nat /\ MaxTemplates \in Nat /\ c <= MaxTemplates
        /\ n \in D \/ c < MaxTemplates
        /\ d = IF n \in D THEN c ELSE c + 1
    BY <1>3, <2>1, <2>2, Zenon
  <2>4. d <= MaxTemplates
    BY ONLY <2>3
  <2>. QED BY <2>1, <2>2, <2>4, Zenon
<1>6. TemplatesOK(t)
  BY <1>3, <1>4, <1>5 DEF TemplatesOK
<1>7. Library!SaveTemplate(lib, n, text) = [recent |-> lib.recent, templates |-> t]
  <2>1. lib = [recent |-> lib.recent, templates |-> lib.templates]
    BY Zenon DEF LibraryOK
  <2>2. \A x, y : [[recent |-> x, templates |-> y] EXCEPT !.templates = t]
                    = [recent |-> x, templates |-> t]
    OBVIOUS
  <2>3. Library!SaveTemplate(lib, n, text) = [lib EXCEPT !.templates = t]
    BY <1>1, <1>2, Zenon DEF Library!SaveTemplate
  <2>. QED BY <2>1, <2>2, <2>3, Zenon
<1>8. lib.recent \in Seq(Messages) /\ Len(lib.recent) <= MaxRecent
  BY Zenon DEF LibraryOK
<1>9. LibraryOK([recent |-> lib.recent, templates |-> t])
  BY <1>6, <1>8, LibraryOfParts
<1>. QED BY <1>7, <1>9

\* A deleted template leaves the others.
LEMMA DeletedIs ==
  ASSUME StoreAssumption, NEW lib, LibraryOK(lib), NEW n \in Names
  PROVE  /\ LibraryOK(Library!DeleteTemplate(lib, n))
         /\ Library!DeleteTemplate(lib, n).recent = lib.recent
<1>1. PICK D : D = DOMAIN lib.templates
  OBVIOUS
<1>2. PICK t : t = [m \in D \ {n} |-> lib.templates[m]]
  OBVIOUS
<1>3. /\ IsFiniteSet(D) /\ D \subseteq Names /\ lib.templates \in [D -> Texts]
      /\ Cardinality(D) <= MaxTemplates
  BY <1>1, Zenon DEF LibraryOK, TemplatesOK
<1>4. Cardinality(D) \in Nat /\ MaxTemplates \in Nat
  BY <1>3, FS_CardinalityType DEF StoreAssumption
<1>5. DOMAIN t = D \ {n} /\ t \in [D \ {n} -> Texts]
  BY <1>2, <1>3
<1>6. IsFiniteSet(D \ {n}) /\ Cardinality(D \ {n}) <= MaxTemplates
  BY <1>3, <1>4, FS_RemoveElement
<1>7. TemplatesOK(t)
  BY <1>3, <1>5, <1>6 DEF TemplatesOK
<1>8. Library!DeleteTemplate(lib, n) = [recent |-> lib.recent, templates |-> t]
  <2>1. lib = [recent |-> lib.recent, templates |-> lib.templates]
    BY Zenon DEF LibraryOK
  <2>2. \A x, y : [[recent |-> x, templates |-> y] EXCEPT !.templates = t]
                    = [recent |-> x, templates |-> t]
    OBVIOUS
  <2>3. Library!DeleteTemplate(lib, n) = [lib EXCEPT !.templates = t]
    BY <1>1, <1>2, Zenon DEF Library!DeleteTemplate
  <2>. QED BY <2>1, <2>2, <2>3, Zenon
<1>9. lib.recent \in Seq(Messages) /\ Len(lib.recent) <= MaxRecent
  BY Zenon DEF LibraryOK
<1>10. LibraryOK([recent |-> lib.recent, templates |-> t])
  BY <1>7, <1>9, LibraryOfParts
<1>. QED BY <1>8, <1>10

\* A cleared history is empty, and the templates stay.
LEMMA ClearedIs ==
  ASSUME StoreAssumption, NEW lib, LibraryOK(lib)
  PROVE  /\ LibraryOK(Library!ClearRecent(lib))
         /\ Library!ClearRecent(lib).recent = <<>>
<1>1. PICK r : r = <<>>
  OBVIOUS
<1>2. r \in Seq(Messages) /\ Len(r) <= MaxRecent
  BY <1>1 DEF StoreAssumption
<1>3. Library!ClearRecent(lib) = [recent |-> r, templates |-> lib.templates]
  <2>1. lib = [recent |-> lib.recent, templates |-> lib.templates]
    BY Zenon DEF LibraryOK
  <2>2. \A x, y : [[recent |-> x, templates |-> y] EXCEPT !.recent = r]
                    = [recent |-> r, templates |-> y]
    OBVIOUS
  <2>3. Library!ClearRecent(lib) = [lib EXCEPT !.recent = r]
    BY <1>1, Zenon DEF Library!ClearRecent
  <2>. QED BY <2>1, <2>2, <2>3, Zenon
<1>4. LibraryOK([recent |-> r, templates |-> lib.templates])
  BY <1>2, LibraryOfParts, Zenon DEF LibraryOK
<1>. QED BY <1>1, <1>3, <1>4

\* The library counts as the store does.
LEMMA SameCardinality ==
  ASSUME NEW S
  PROVE  Library!Cardinality(S) = Cardinality(S)
BY Zenon DEF Library!Cardinality, Cardinality

\* An operation that is not refused makes an acceptable library.
LEMMA AfterIsLibrary ==
  ASSUME StoreAssumption, NEW lib, LibraryOK(lib),
         NEW o \in Library!Operations, ~Library!Refuses(o, lib)
  PROVE  LibraryOK(Library!After(o, lib))
<1>1. CASE o.kind = "load"
  <2>1. Library!After(o, lib) = lib
    BY <1>1 DEF Library!After
  <2>. QED BY <2>1
<1>2. CASE o.kind = "clear"
  <2>1. Library!After(o, lib) = Library!ClearRecent(lib)
    BY <1>2 DEF Library!After
  <2>. QED BY <2>1, ClearedIs
<1>3. CASE o.kind = "record"
  <2>1. Library!After(o, lib) = Library!RecordSuccess(lib, o.message)
    BY <1>3 DEF Library!After
  <2>2. o.message \in Messages
    BY <1>3 DEF Library!Operations
  <2>3. PICK k \in 1..(Len(lib.recent) + 1), r \in Seq(Messages) :
          /\ Library!RecordSuccess(lib, o.message) = [recent |-> r, templates |-> lib.templates]
          /\ MovedToFront(r, lib.recent, o.message, k)
    BY <2>2, RecordedIs, Zenon
  <2>4. Len(r) <= MaxRecent
    <3>1. lib.recent \in Seq(Messages) /\ Len(lib.recent) <= MaxRecent /\ MaxRecent \in Nat
      BY DEF LibraryOK, StoreAssumption
    <3>. QED BY <2>3, <3>1 DEF MovedToFront
  <2>5. LibraryOK([recent |-> r, templates |-> lib.templates])
    BY <2>4, LibraryOfParts, Zenon DEF LibraryOK
  <2>. QED BY <2>1, <2>3, <2>5
<1>4. CASE o.kind = "save"
  <2>1. Library!After(o, lib) = Library!SaveTemplate(lib, o.name, o.text)
    BY <1>4 DEF Library!After
  <2>2. o.name \in Names /\ o.text \in Texts
    BY <1>4 DEF Library!Operations
  <2>3. \/ o.name \in DOMAIN lib.templates
        \/ ~(Cardinality(DOMAIN lib.templates) >= MaxTemplates)
    <3>1. \/ o.name \in DOMAIN lib.templates
          \/ ~(Library!Cardinality(DOMAIN lib.templates) >= MaxTemplates)
      BY <1>4 DEF Library!Refuses
    <3>2. Library!Cardinality(DOMAIN lib.templates) = Cardinality(DOMAIN lib.templates)
      BY SameCardinality
    <3>. QED BY <3>1, <3>2
  <2>. QED BY <2>1, <2>2, <2>3, SavedIs
<1>5. CASE o.kind = "delete"
  <2>1. Library!After(o, lib) = Library!DeleteTemplate(lib, o.name)
    BY <1>5 DEF Library!After
  <2>2. o.name \in Names
    BY <1>5 DEF Library!Operations
  <2>. QED BY <2>1, <2>2, DeletedIs
<1>6. o.kind \in {"load", "clear", "record", "save", "delete"}
  BY DEF Library!Operations
<1>. QED BY <1>1, <1>2, <1>3, <1>4, <1>5, <1>6
-----------------------------------------------------------------------------
(* The invariant of the libraries *)

\* Types of the variables that the libraries do not depend on.
Fields ==
  /\ abandoned \in BOOLEAN
  /\ outcome \in [Procs -> Outcomes]
  /\ recorded \in Seq(Messages)

\* The file, if it is not damaged, and every copy is a library that Read accepts.
LibrariesOK ==
  /\ file # Damaged => LibraryOK(file)
  /\ \A p \in Procs : LibraryOK(copy[p])

\* The history in the file is the newest of what was recorded.
HistoryIsKept == file # Damaged => Newest(file.recent, recorded)

\* What the processes do, and what the libraries they leave hold.
HistoryInv == StoreInv /\ Fields /\ LibrariesOK /\ HistoryIsKept

\* A history without messages is the newest of nothing.
LEMMA NothingIsNewest == Newest(<<>>, <<>>)
BY DEF Newest

\* The invariant holds at first.
LEMMA InitHistory == StoreInit => HistoryInv
<1> SUFFICES ASSUME StoreInit PROVE HistoryInv
  OBVIOUS
<1>1. Fields
  <2>1. abandoned \in BOOLEAN
    BY Zenon DEF StoreInit
  <2>2. outcome = [p \in Procs |-> "none"] /\ recorded = <<>>
    BY Zenon DEF StoreInit
  <2>. QED BY <2>1, <2>2 DEF Fields, Outcomes
<1>2. file = Library!Empty /\ copy = [p \in Procs |-> Library!Empty]
  BY Zenon DEF StoreInit
<1>3. LibrariesOK
  BY <1>2, EmptyIsLibrary, StoreAssumption DEF LibrariesOK
<1>4. file.recent = <<>> /\ recorded = <<>>
  BY <1>2 DEF StoreInit, Library!Empty
<1>5. HistoryIsKept
  BY <1>4, NothingIsNewest, Zenon DEF HistoryIsKept
<1>. QED BY InitInv, <1>1, <1>3, <1>5 DEF HistoryInv

\* Every step keeps the types.
LEMMA FieldsStay ==
  ASSUME HistoryInv, StoreNext
  PROVE  Fields'
<1> USE DEF HistoryInv, Fields, Outcomes
<1>1. ASSUME NEW p \in Procs, NEW o \in Library!Operations, Call(p, o) PROVE Fields'
  BY <1>1 DEF Call
<1>2. ASSUME NEW p \in Procs, Acquire(p) PROVE Fields'
  BY <1>2 DEF Acquire, locals
<1>3. ASSUME NEW p \in Procs, Read(p) PROVE Fields'
  BY <1>3 DEF Read, Finish
<1>4. ASSUME NEW p \in Procs, Replace(p) PROVE Fields'
  <2>1. /\ abandoned' = abandoned /\ outcome' = [outcome EXCEPT ![p] = "done"]
        /\ recorded' = CASE Recording(op[p]) -> Append(recorded, op[p].message)
                         [] op[p].kind = "clear" -> <<>>
                         [] OTHER -> recorded
    BY <1>4, Zenon DEF Replace, Finish
  <2>2. Recording(op[p]) => op[p].message \in Messages
    BY DEF StoreInv, Shape, Recording, Library!Operations
  <2>. QED BY <2>1, <2>2
<1>5. ASSUME NEW p \in Procs, WriteFails(p) PROVE Fields'
  BY <1>5 DEF WriteFails, Finish
<1>6. ASSUME NEW p \in Procs, Release(p) PROVE Fields'
  BY <1>6 DEF Release, Return
<1>7. ASSUME NEW p \in Procs, TimeOut(p) PROVE Fields'
  BY <1>7 DEF TimeOut, Return
<1>8. ASSUME NEW p \in Procs, Crash(p) PROVE Fields'
  BY <1>8 DEF Crash, Return
<1>9. ASSUME Interfere PROVE Fields'
  BY <1>9 DEF Interfere, locals
<1>. QED BY <1>1, <1>2, <1>3, <1>4, <1>5, <1>6, <1>7, <1>8, <1>9 DEF StoreNext, Work

\* A step that gives p an acceptable library to hold, and nobody else another
\* one, and leaves the file alone, leaves acceptable libraries.
LEMMA CopiesStayLibraries ==
  ASSUME HistoryInv, NEW p \in Procs, file' = file,
         NEW lib, LibraryOK(lib), copy' = [copy EXCEPT ![p] = lib]
  PROVE  LibrariesOK'
<1>1. \A q \in Procs : copy'[q] = IF q = p THEN lib ELSE copy[q]
  BY DEF HistoryInv, StoreInv, Shape
<1>2. \A q \in Procs : LibraryOK(copy'[q])
  BY <1>1, Zenon DEF HistoryInv, LibrariesOK
<1>. QED BY <1>2, Zenon DEF HistoryInv, LibrariesOK

\* Every step leaves acceptable libraries.
LEMMA LibrariesStay ==
  ASSUME HistoryInv, StoreNext
  PROVE  LibrariesOK'
<1>0. LibraryOK(Library!Empty) /\ \A p \in Procs : LibraryOK(copy[p])
  BY EmptyIsLibrary, StoreAssumption DEF HistoryInv, LibrariesOK
<1>1. ASSUME file' = file, copy' = copy PROVE LibrariesOK'
  BY <1>1, Zenon DEF HistoryInv, LibrariesOK
<1>2. ASSUME NEW p \in Procs, NEW o \in Library!Operations, Call(p, o) PROVE LibrariesOK'
  BY <1>0, <1>2, CopiesStayLibraries, Zenon DEF Call
<1>3. ASSUME NEW p \in Procs, Acquire(p) PROVE LibrariesOK'
  BY <1>1, <1>3 DEF Acquire, locals
<1>4. ASSUME NEW p \in Procs, Read(p) PROVE LibrariesOK'
  <2>1. CASE copy' = copy
    BY <1>1, <1>4, <2>1 DEF Read
  <2>2. CASE copy' # copy
    <3>1. /\ file # Damaged /\ ~Library!Refuses(op[p], file) /\ file' = file
          /\ copy' = [copy EXCEPT ![p] = Library!After(op[p], file)]
      BY <1>4, <2>2, Zenon DEF Read
    <3>2. LibraryOK(file) /\ op[p] \in Library!Operations
      BY <3>1 DEF HistoryInv, StoreInv, Shape, LibrariesOK
    <3>3. LibraryOK(Library!After(op[p], file))
      BY <3>1, <3>2, AfterIsLibrary, StoreAssumption
    <3>. QED BY <3>1, <3>3, CopiesStayLibraries, Zenon
  <2>. QED BY <2>1, <2>2
<1>5. ASSUME NEW p \in Procs, Replace(p) PROVE LibrariesOK'
  BY <1>0, <1>5, Zenon DEF Replace, LibrariesOK
<1>6. ASSUME NEW p \in Procs, WriteFails(p) PROVE LibrariesOK'
  BY <1>1, <1>6 DEF WriteFails
<1>7. ASSUME NEW p \in Procs, Release(p) PROVE LibrariesOK'
  <2>1. PICK lib : lib = IF op[p] = Load THEN copy[p] ELSE Library!Empty
    OBVIOUS
  <2>2. LibraryOK(lib)
    BY <1>0, <2>1, Zenon
  <2>3. file' = file /\ copy' = [copy EXCEPT ![p] = lib]
    BY <1>7, <2>1, Zenon DEF Release, Return
  <2>. QED BY <2>2, <2>3, CopiesStayLibraries, Zenon
<1>8. ASSUME NEW p \in Procs, TimeOut(p) PROVE LibrariesOK'
  BY <1>0, <1>8, CopiesStayLibraries, Zenon DEF TimeOut, Return
<1>9. ASSUME NEW p \in Procs, Crash(p) PROVE LibrariesOK'
  BY <1>0, <1>9, CopiesStayLibraries, Zenon DEF Crash, Return
<1>10. ASSUME Interfere PROVE LibrariesOK'
  <2>1. copy' = copy /\ file' \in {Damaged, Library!Empty}
    BY <1>10 DEF Interfere, locals
  <2>. QED BY <1>0, <2>1, Zenon DEF LibrariesOK
<1>. QED BY <1>2, <1>3, <1>4, <1>5, <1>6, <1>7, <1>8, <1>9, <1>10, Zenon DEF StoreNext, Work

\* A library that is put in place holds the newest messages: it was made of the
\* file as it still is.
LEMMA ReplaceKeepsHistory ==
  ASSUME HistoryInv, NEW p \in Procs, Replace(p)
  PROVE  HistoryIsKept'
<1>1. PICK o, lib, rec, lib2, rec2 :
        o = op[p] /\ lib = file /\ rec = recorded /\ lib2 = file' /\ rec2 = recorded'
  OBVIOUS
<1>2. /\ lib # Damaged /\ ~Library!Refuses(o, lib) /\ o \in Library!Operations
      /\ lib2 = Library!After(o, lib)
  BY <1>1 DEF Replace, HistoryInv, StoreInv, CopyIsCurrent, Shape
<1>3. LibraryOK(lib) /\ rec \in Seq(Messages) /\ Newest(lib.recent, rec)
  BY <1>1, <1>2, Zenon DEF HistoryInv, LibrariesOK, HistoryIsKept, Fields
<1>4. rec2 = CASE o.kind = "record" -> Append(rec, o.message)
               [] o.kind = "clear" -> <<>>
               [] OTHER -> rec
  BY <1>1, Zenon DEF Replace, Recording
<1>5. Newest(lib2.recent, rec2)
  <2>1. CASE o.kind = "load"
    <3>1. lib2 = lib /\ rec2 = rec
      BY <1>2, <1>4, <2>1 DEF Library!After
    <3>. QED BY <1>3, <3>1, Zenon
  <2>2. CASE o.kind = "clear"
    <3>1. lib2 = Library!ClearRecent(lib) /\ rec2 = <<>>
      BY <1>2, <1>4, <2>2 DEF Library!After
    <3>2. lib2.recent = <<>>
      BY <1>3, <3>1, ClearedIs, StoreAssumption, Zenon
    <3>. QED BY <3>1, <3>2, NothingIsNewest, Zenon
  <2>3. CASE o.kind = "record"
    <3>1. lib2 = Library!RecordSuccess(lib, o.message) /\ rec2 = Append(rec, o.message)
      BY <1>2, <1>4, <2>3 DEF Library!After
    <3>2. o.message \in Messages
      BY <1>2, <2>3 DEF Library!Operations
    <3>3. PICK k \in 1..(Len(lib.recent) + 1), r \in Seq(Messages) :
            /\ lib2 = [recent |-> r, templates |-> lib.templates]
            /\ MovedToFront(r, lib.recent, o.message, k)
      BY <1>3, <3>1, <3>2, RecordedIs, StoreAssumption, Zenon
    <3>4. OneMore(rec2, rec, o.message)
      BY <1>3, <3>1, <3>2, LastUseMoves, Zenon
    <3>5. lib.recent \in Seq(Messages) /\ Len(lib.recent) <= MaxRecent
      BY <1>3, Zenon DEF LibraryOK
    <3>6. Newest(r, rec2)
      BY <1>3, <3>2, <3>3, <3>4, <3>5, RecordKeepsNewest, StoreAssumption, Zenon
    <3>7. lib2.recent = r
      BY <3>3
    <3>. QED BY <3>6, <3>7, Zenon
  <2>4. CASE o.kind = "save"
    <3>1. lib2 = Library!SaveTemplate(lib, o.name, o.text) /\ rec2 = rec
      BY <1>2, <1>4, <2>4 DEF Library!After
    <3>2. o.name \in Names /\ o.text \in Texts
      BY <1>2, <2>4 DEF Library!Operations
    <3>3. \/ o.name \in DOMAIN lib.templates
          \/ ~(Cardinality(DOMAIN lib.templates) >= MaxTemplates)
      <4>1. \/ o.name \in DOMAIN lib.templates
            \/ ~(Library!Cardinality(DOMAIN lib.templates) >= MaxTemplates)
        BY <1>2, <2>4 DEF Library!Refuses
      <4>2. Library!Cardinality(DOMAIN lib.templates) = Cardinality(DOMAIN lib.templates)
        BY SameCardinality
      <4>. QED BY <4>1, <4>2
    <3>4. lib2.recent = lib.recent
      BY <1>3, <3>1, <3>2, <3>3, SavedIs, StoreAssumption, Zenon
    <3>. QED BY <1>3, <3>1, <3>4, Zenon
  <2>5. CASE o.kind = "delete"
    <3>1. lib2 = Library!DeleteTemplate(lib, o.name) /\ rec2 = rec
      BY <1>2, <1>4, <2>5 DEF Library!After
    <3>2. o.name \in Names
      BY <1>2, <2>5 DEF Library!Operations
    <3>3. lib2.recent = lib.recent
      BY <1>3, <3>1, <3>2, DeletedIs, StoreAssumption, Zenon
    <3>. QED BY <1>3, <3>1, <3>3, Zenon
  <2>6. o.kind \in {"load", "clear", "record", "save", "delete"}
    BY <1>2 DEF Library!Operations
  <2>. QED BY <2>1, <2>2, <2>3, <2>4, <2>5, <2>6
<1>. QED BY <1>1, <1>5, Zenon DEF HistoryIsKept

\* The messages in the file stay the newest ones: only a replacement and other
\* programs change either.
LEMMA HistoryStays ==
  ASSUME HistoryInv, StoreNext
  PROVE  HistoryIsKept'
<1>1. ASSUME file' = file, recorded' = recorded PROVE HistoryIsKept'
  BY <1>1, Zenon DEF HistoryInv, HistoryIsKept
<1>2. CASE \E p \in Procs : Replace(p)
  BY <1>2, ReplaceKeepsHistory
<1>3. CASE Interfere
  <2>1. file' = Damaged \/ file' = Library!Empty
    BY <1>3 DEF Interfere
  <2>2. recorded' = <<>>
    BY <1>3 DEF Interfere
  <2>3. Library!Empty.recent = <<>>
    BY DEF Library!Empty
  <2>. QED BY <2>1, <2>2, <2>3, NothingIsNewest, Zenon DEF HistoryIsKept
<1>4. \/ Interfere
      \/ \E p \in Procs : Replace(p)
      \/ file' = file /\ recorded' = recorded
  BY DEF StoreNext, Call, Work, Acquire, Read, WriteFails, Release, TimeOut, Crash
<1>. QED BY <1>1, <1>2, <1>3, <1>4

\* HistoryInv is inductive.
LEMMA StepHistory == HistoryInv /\ [StoreNext]_storeVars => HistoryInv'
<1> SUFFICES ASSUME HistoryInv, [StoreNext]_storeVars PROVE HistoryInv'
  OBVIOUS
<1>1. StoreInv'
  BY StepInv DEF HistoryInv
<1>2. CASE StoreNext
  BY <1>1, <1>2, FieldsStay, LibrariesStay, HistoryStays DEF HistoryInv
<1>3. CASE UNCHANGED storeVars
  <2>1. /\ file' = file /\ copy' = copy /\ recorded' = recorded
        /\ outcome' = outcome /\ abandoned' = abandoned
    BY <1>3 DEF storeVars
  <2>2. Fields' /\ LibrariesOK' /\ HistoryIsKept'
    BY <2>1, Zenon DEF HistoryInv, Fields, LibrariesOK, HistoryIsKept
  <2>. QED BY <1>1, <2>2 DEF HistoryInv
<1>. QED BY <1>2, <1>3

\* What the processes and the libraries are, at any time.
THEOREM History == StoreSpec => []HistoryInv
BY InitHistory, StepHistory, PTL DEF StoreSpec

\* The variables, the file and the copies are what their types say.
THEOREM StoreTyping == StoreSpec => []StoreTypeOK
<1>1. HistoryInv => StoreTypeOK
  <2> SUFFICES ASSUME HistoryInv PROVE StoreTypeOK
    OBVIOUS
  <2>1. ASSUME NEW lib \in ({file} \cup {copy[p] : p \in Procs}) \ {Damaged}
        PROVE  /\ \A i \in DOMAIN lib.recent : lib.recent[i] \in Messages
               /\ DOMAIN lib.templates \subseteq Names
               /\ \A n \in DOMAIN lib.templates : lib.templates[n] \in Texts
    <3>1. LibraryOK(lib)
      BY <2>1 DEF HistoryInv, LibrariesOK
    <3>2. lib.recent \in Seq(Messages) /\ TemplatesOK(lib.templates)
      BY <3>1, Zenon DEF LibraryOK
    <3>. QED BY <3>2 DEF TemplatesOK
  <2>. QED BY <2>1 DEF HistoryInv, StoreInv, Shape, Fields, StoreTypeOK
<1>. QED BY <1>1, History, PTL

\* RecordSuccess: however the calls of the processes interleave, the recent
\* messages in the file are the last different ones that were recorded since the
\* history was empty, newest first, as many as the file may hold.
THEOREM HistoryTheorem == StoreSpec => []RecentIsNewest
<1>1. HistoryInv => RecentIsNewest
  <2> SUFFICES ASSUME HistoryInv, file # Damaged PROVE RecentIsNewest
    BY DEF RecentIsNewest
  <2>1. LibraryOK(file) /\ recorded \in Seq(Messages) /\ Newest(file.recent, recorded)
    BY Zenon DEF HistoryInv, LibrariesOK, HistoryIsKept, Fields
  <2>2. file.recent \in Seq(Messages) /\ Len(file.recent) <= MaxRecent
    BY <2>1, Zenon DEF LibraryOK
  <2>3. LET used == {recorded[i] : i \in DOMAIN recorded}
            kept == {file.recent[i] : i \in DOMAIN file.recent}
        IN  /\ kept \subseteq used
            /\ Len(file.recent) = Cardinality(kept)
            /\ Cardinality(kept) = IF Cardinality(used) > MaxRecent THEN MaxRecent
                                                                   ELSE Cardinality(used)
            /\ \A i, j \in DOMAIN file.recent :
                 i < j => LastIn(recorded, file.recent[i]) > LastIn(recorded, file.recent[j])
            /\ \A old \in used \ kept, new \in kept : LastIn(recorded, old) < LastIn(recorded, new)
    BY <2>1, <2>2, NewestIs, StoreAssumption, Zenon
  <2>4. \A x : LastUse(x) = LastIn(recorded, x)
    BY Zenon DEF LastUse, LastIn
  <2>. QED BY <2>3, <2>4, Zenon DEF RecentIsNewest
<1>. QED BY <1>1, History, PTL

\* SaveTemplate against Read: no interleaving of calls makes a file with more
\* templates than Read takes.
THEOREM ReadableTheorem == StoreSpec => []OwnFilesAreReadable
<1>1. HistoryInv => OwnFilesAreReadable
  BY Zenon DEF HistoryInv, LibrariesOK, LibraryOK, TemplatesOK, OwnFilesAreReadable
<1>. QED BY <1>1, History, PTL
=============================================================================
