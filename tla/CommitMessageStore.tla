-------------------------- MODULE CommitMessageStore --------------------------
(***************************************************************************)
(* The commit message library on disk and the processes that use it        *)
(* (Core/CommitMessageStore.cs).  Every call takes a named mutex, reads    *)
(* the file, changes the copy, writes a temporary file beside the library  *)
(* and replaces it; a process can die at any of these points.  A temporary *)
(* file that a dead process leaves has a name of its own and is never      *)
(* read, so only the replacement is an effect.                             *)
(***************************************************************************)
EXTENDS Naturals, Sequences, FiniteSets

CONSTANTS
  Procs,         \* TortoiseSCM processes
  Messages, Names, Texts, Absent, Unchecked, Damaged, MaxRecent, MaxTemplates,
  Nobody,        \* the mutex is free
  MaxRecords,    \* bound: messages recorded since the history was cleared
  Interference   \* do other programs damage or delete the file?

ASSUME StoreAssumption ==
  /\ Nobody \notin Procs
  /\ Absent \notin Texts \cup Names
  /\ Unchecked \notin Texts \cup {Absent}
  /\ MaxRecent \in Nat \ {0} /\ MaxTemplates \in Nat \ {0}
  /\ MaxRecords \in Nat
  /\ Interference \in BOOLEAN

VARIABLES
  file,       \* the library file of the repository; no file is an empty library
  owner,      \* who holds the mutex
  abandoned,  \* did its last owner die?
  pc,         \* where each process is
  op,         \* the operation it was called for
  copy,       \* the library in its memory, and what the last call returned
  outcome,    \* how the last call ended
  recorded    \* history: messages recorded since the history was last empty

storeVars == <<file, owner, abandoned, pc, op, copy, outcome, recorded>>
locals == <<op, copy, outcome>>

Library == INSTANCE MessageLibrary WITH library <- file

Places == {"idle", "waiting", "reading", "writing", "releasing"}
Outcomes == {"none", "done", "refused", "failed"}

Load == [kind |-> "load"]

StoreInit ==
  /\ file = Library!Empty
  /\ owner = Nobody
  /\ abandoned = FALSE
  /\ pc = [p \in Procs |-> "idle"]
  /\ op = [p \in Procs |-> Load]
  /\ copy = [p \in Procs |-> Library!Empty]
  /\ outcome = [p \in Procs |-> "none"]
  /\ recorded = <<>>

At(p, place) == pc[p] = place
Move(p, place) == pc' = [pc EXCEPT ![p] = place]

\* The outcome is known; the mutex is still held.
Finish(p, result) ==
  /\ Move(p, "releasing")
  /\ outcome' = [outcome EXCEPT ![p] = result]

\* The call is over.
Return(p, lib, result) ==
  /\ Move(p, "idle")
  /\ op' = [op EXCEPT ![p] = Load]
  /\ copy' = [copy EXCEPT ![p] = lib]
  /\ outcome' = [outcome EXCEPT ![p] = result]

Recording(o) == o.kind = "record"
InFlight == {p \in Procs : ~At(p, "idle") /\ Recording(op[p])}

Call(p, o) ==
  /\ At(p, "idle")
  /\ Recording(o) => Len(recorded) + Cardinality(InFlight) < MaxRecords
  /\ Move(p, "waiting")
  /\ op' = [op EXCEPT ![p] = o]
  /\ copy' = [copy EXCEPT ![p] = Library!Empty]
  /\ outcome' = [outcome EXCEPT ![p] = "none"]
  /\ UNCHANGED <<file, owner, abandoned, recorded>>

\* Variant: the exception of an abandoned mutex is not caught.
AcquireOrFail(p) ==
  /\ At(p, "waiting")
  /\ owner = Nobody
  /\ owner' = p
  /\ abandoned' = FALSE
  /\ IF abandoned THEN Return(p, Library!Empty, "failed")
                  ELSE Move(p, "reading") /\ UNCHANGED locals
  /\ UNCHANGED <<file, recorded>>

\* An abandoned mutex is taken like a free one.
Acquire(p) ==
  /\ At(p, "waiting")
  /\ owner = Nobody
  /\ owner' = p
  /\ abandoned' = FALSE
  /\ Move(p, "reading")
  /\ UNCHANGED <<file, locals, recorded>>

\* Five seconds pass while another process holds the mutex.
TimeOut(p) ==
  /\ At(p, "waiting")
  /\ owner # Nobody
  /\ Return(p, Library!Empty, "failed")
  /\ UNCHANGED <<file, owner, abandoned, recorded>>

\* Variant: Read takes a file it cannot read for a new library.
ReadNothing(p) ==
  /\ At(p, "reading")
  /\ LET lib == IF file = Damaged THEN Library!Empty ELSE file
     IN  IF Library!Refuses(op[p], lib)
         THEN Finish(p, "refused") /\ UNCHANGED copy
         ELSE /\ copy' = [copy EXCEPT ![p] = Library!After(op[p], lib)]
              /\ IF op[p] = Load THEN Finish(p, "done")
                                 ELSE Move(p, "writing") /\ UNCHANGED outcome
  /\ UNCHANGED <<file, owner, abandoned, op, recorded>>

\* Read, and the change of the copy.  A damaged file, and one that another
\* program has open, cannot be read.
Read(p) ==
  /\ At(p, "reading")
  /\ \/ Finish(p, "failed") /\ UNCHANGED copy
     \/ /\ file # Damaged
        /\ Library!Refuses(op[p], file)
        /\ Finish(p, "refused")
        /\ UNCHANGED copy
     \/ /\ file # Damaged
        /\ ~Library!Refuses(op[p], file)
        /\ copy' = [copy EXCEPT ![p] = Library!After(op[p], file)]
        /\ IF op[p] = Load THEN Finish(p, "done")
                           ELSE Move(p, "writing") /\ UNCHANGED outcome
  /\ UNCHANGED <<file, owner, abandoned, op, recorded>>

\* The temporary file is complete and takes the place of the library.
Replace(p) ==
  /\ At(p, "writing")
  /\ file' = copy[p]
  /\ recorded' = CASE Recording(op[p]) -> Append(recorded, op[p].message)
                   [] op[p].kind = "clear" -> <<>>
                   [] OTHER -> recorded
  /\ Finish(p, "done")
  /\ UNCHANGED <<owner, abandoned, op, copy>>

\* The temporary file cannot be written, or cannot replace the library.
WriteFails(p) ==
  /\ At(p, "writing")
  /\ Finish(p, "failed")
  /\ UNCHANGED <<file, owner, abandoned, op, copy, recorded>>

\* Load returns the library, every other call nothing.
Release(p) ==
  /\ At(p, "releasing")
  /\ owner' = Nobody
  /\ Return(p, IF op[p] = Load THEN copy[p] ELSE Library!Empty, outcome[p])
  /\ UNCHANGED <<file, abandoned, recorded>>

\* The process dies; the system frees a mutex it held and marks it abandoned.
Crash(p) ==
  /\ Return(p, Library!Empty, "none")
  /\ owner' = IF owner = p THEN Nobody ELSE owner
  /\ abandoned' = (abandoned \/ owner = p)
  /\ UNCHANGED <<file, recorded>>

\* Other programs, while no call is at work on the file.
Interfere ==
  /\ Interference
  /\ owner = Nobody
  /\ file' \in {Damaged, Library!Empty}
  /\ recorded' = <<>>
  /\ UNCHANGED <<owner, abandoned, pc, locals>>

Work(p) == Acquire(p) \/ Read(p) \/ Replace(p) \/ WriteFails(p) \/ Release(p)

StoreNext ==
  \/ \E p \in Procs : (\E o \in Library!Operations : Call(p, o))
                        \/ Work(p) \/ TimeOut(p) \/ Crash(p)
  \/ Interfere

StoreSpec == StoreInit /\ [][StoreNext]_storeVars

-----------------------------------------------------------------------------
(* Properties.                                                             *)

\* Types of the variables.
StoreTypeOK ==
  /\ owner \in Procs \cup {Nobody}
  /\ abandoned \in BOOLEAN
  /\ pc \in [Procs -> Places]
  /\ op \in [Procs -> Library!Operations]
  /\ outcome \in [Procs -> Outcomes]
  /\ \A lib \in ({file} \cup {copy[p] : p \in Procs}) \ {Damaged} :
        /\ \A i \in DOMAIN lib.recent : lib.recent[i] \in Messages
        /\ DOMAIN lib.templates \subseteq Names
        /\ \A n \in DOMAIN lib.templates : lib.templates[n] \in Texts

\* Whatever the processes do, and wherever one of them dies, the library
\* changes by one whole operation at a time on the library as it is, and a file
\* that cannot be read is left as it was: WithLock around Read and Write makes
\* every call atomic (CommitMessageStore.cs:105-123).
CallsAreAtomic == Library!LibrarySpec

LastUse(message) ==
  LET uses == {i \in DOMAIN recorded : recorded[i] = message}
  IN  CHOOSE i \in uses : \A j \in uses : j <= i

\* The recent messages of the library are the last MaxRecent different ones
\* that check-ins recorded since the history was cleared, newest first, however
\* calls of several processes interleave (RecordSuccess, lines 51-61).
RecentIsNewest ==
  file # Damaged =>
    LET used == {recorded[i] : i \in DOMAIN recorded}
        kept == {file.recent[i] : i \in DOMAIN file.recent}
    IN  /\ kept \subseteq used
        /\ Len(file.recent) = Cardinality(kept)
        /\ Cardinality(kept) = IF Cardinality(used) > MaxRecent THEN MaxRecent
                                                               ELSE Cardinality(used)
        /\ \A i, j \in DOMAIN file.recent :
             i < j => LastUse(file.recent[i]) > LastUse(file.recent[j])
        /\ \A old \in used \ kept, new \in kept : LastUse(old) < LastUse(new)

\* No interleaving of calls makes a library with more templates than Read
\* accepts: the program never writes a file it then refuses to read
\* (SaveTemplate, line 78, against Read, lines 165-167).
OwnFilesAreReadable ==
  file # Damaged => Cardinality(DOMAIN file.templates) <= MaxTemplates

Holding == {"reading", "writing", "releasing"}

\* The mutex is never left behind: somebody holds it only while its call is at
\* work, also when the owner before it died and left it abandoned, and a call
\* is at work only while it holds it (WithLock, lines 111-121).
MutexIsInUse ==
  /\ owner # Nobody => pc[owner] \in Holding
  /\ \A p \in Procs : pc[p] \in Holding => owner = p
=============================================================================
