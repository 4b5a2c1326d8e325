------------------------- MODULE PartialConflictProofs -------------------------
(***************************************************************************)
(* Proofs about PartialConflict, for every set of clients, files, bytes    *)
(* and revisions.  A handler past its first step holds both gates, so at   *)
(* most one is; the inductive invariant says what that one has loaded and  *)
(* how the session on disk relates to the workspace and to the backups.    *)
(***************************************************************************)
EXTENDS PartialConflict, TLAPS

Resolving == {"resolve_mark", "resolve_check", "resolve_undo", "resolve_update",
              "resolve_write", "resolve_verify"}

\* What a session promises about the workspace it was prepared for.
Consistent(s) ==
  /\ s.resolved \subseteq s.conflicts
  /\ s.applying # None => s.applying \in s.conflicts \ s.resolved
  /\ \A f \in Files : s.hash[f] # Torn /\ s.incoming[f] <= head[f]
  /\ \A f \in s.resolved : s.incoming[f] <= loaded[f]

\* The bytes that the undecided conflicts of s had, except those of open, are copied.
BackedUp(s, open) ==
  \A f \in (s.conflicts \ s.resolved) \ open : s.hash[f] \in backups[f]

\* A preparation has in memory what the index will name.
CopyingOK(c) ==
  /\ mem[c] \in Session
  /\ HasSession => ~Interrupted(session)
  /\ ~Interrupted(mem[c])
  /\ Consistent(mem[c])
  /\ \E f \in Files :
       /\ scope[c] = {f}
       /\ f \in mem[c].conflicts \ mem[c].resolved
       /\ BackedUp(mem[c], IF pc[c] = "prepare_copy" THEN {f} ELSE {})

\* A resolution works on one undecided conflict of the session it has marked.
ResolvingOK(c) ==
  /\ mem[c] \in Session
  /\ result[c] \in Content \ {Torn}
  /\ \E f \in Files :
       /\ scope[c] = {f}
       /\ f \in mem[c].conflicts \ mem[c].resolved
       /\ mem[c].applying = IF pc[c] = "resolve_mark" THEN None ELSE f
       /\ (pc[c] = "resolve_undo" /\ f \notin late /\ bytes[f] \in Edits)
            => bytes[f] \in backups[f]

\* What holds while c is past the first step of a handler.
HandlerOK(c) ==
  /\ gate = c /\ sgate = c
  /\ session # Torn
  /\ pc[c] \notin Copying => session = mem[c]
  /\ pc[c] \in Copying => CopyingOK(c)
  /\ pc[c] \in Resolving => ResolvingOK(c)
  /\ pc[c] = "resolve_detach" => mem[c] \in Session /\ ~Interrupted(mem[c])
  /\ pc[c] = "retire" => mem[c] \in Session
  /\ pc[c] = "checkin_native" /\ mem[c] # None =>
       ~Interrupted(mem[c]) /\ mem[c].conflicts \subseteq mem[c].resolved

Handlers == \A c \in Clients : pc[c] # "idle" => HandlerOK(c)

SessionOK == HasSession => Consistent(session) /\ BackedUp(session, {})

\* A half written file is the one an interrupted session is about.
TornIsNamed == \A f \in Files : bytes[f] = Torn => HasSession /\ session.applying = f

LoadedIsPublished == \A f \in Files : loaded[f] <= head[f]

IInv ==
  /\ TypeOK
  /\ Handlers
  /\ SessionOK
  /\ TornIsNamed
  /\ LoadedIsPublished
  /\ GuardedCheckinReviewed
  /\ EditsSurvive
-----------------------------------------------------------------------------
(* Types *)

WorkTypeOK ==
  /\ head \in [Files -> Revisions] /\ loaded \in [Files -> Revisions]
  /\ bytes \in [Files -> Content]
  /\ config \in Configurations

StoreTypeOK ==
  /\ session \in Session \cup {None, Torn}
  /\ backups \in [Files -> SUBSET Content]

GateTypeOK ==
  /\ gate \in Clients \cup {None} /\ sgate \in Clients \cup {None}
  /\ pc \in [Clients -> PCs]

LocalsTypeOK ==
  /\ mem \in [Clients -> Session \cup {None}]
  /\ scope \in [Clients -> SUBSET Files]
  /\ result \in [Clients -> Content \cup {None}]

HistoryTypeOK ==
  /\ late \subseteq Files /\ lost \subseteq {"seen", "late"}
  /\ last \in [path : {"none", "guarded", "fast"}, whole : BOOLEAN]
  /\ faults \in 0..MaxFaults

\* The five parts are the type invariant.
LEMMA Typed ==
  /\ TypeOK => WorkTypeOK /\ StoreTypeOK /\ GateTypeOK /\ LocalsTypeOK /\ HistoryTypeOK
  /\ WorkTypeOK' /\ StoreTypeOK' /\ GateTypeOK' /\ LocalsTypeOK' /\ HistoryTypeOK' => TypeOK'
BY DEF TypeOK, WorkTypeOK, StoreTypeOK, GateTypeOK, LocalsTypeOK, HistoryTypeOK

\* Closing the gates and going to another step keep the control state typed.
LEMMA ControlTyped ==
  ASSUME NEW c \in Clients, GateTypeOK, LocalsTypeOK
  PROVE  /\ Release(c) => GateTypeOK' /\ LocalsTypeOK'
         /\ \A to \in PCs : Goto(c, to) /\ UNCHANGED <<gate, sgate>> => GateTypeOK'
         /\ \A to \in PCs : Goto(c, to) /\ Acquire(c) => GateTypeOK'
<1>1. "idle" \in PCs
  BY DEF PCs
<1>. QED BY <1>1 DEF GateTypeOK, LocalsTypeOK, Release, Goto, Acquire

\* Files that are reverted hold revisions.
LEMMA RevertedTyped ==
  ASSUME WorkTypeOK
  PROVE  \A fs \in SUBSET Files : Reverted(fs) \in [Files -> Content]
BY DEF WorkTypeOK, Reverted, Content

\* The changes the handlers make to a session give a session.
LEMMA Marked ==
  ASSUME NEW s \in Session, NEW f \in Files
  PROVE  /\ [s EXCEPT !.applying = f] \in Session
         /\ [s EXCEPT !.resolved = @ \cup {f}, !.applying = None] \in Session
BY DEF Session

\* Taking conflicts out of a session, with or without its mark, gives a session.
LEMMA Reduced ==
  ASSUME NEW s \in Session, NEW fs \in SUBSET Files
  PROVE  /\ [s EXCEPT !.conflicts = @ \ fs, !.resolved = @ \ fs] \in Session
         /\ [s EXCEPT !.conflicts = @ \ fs, !.resolved = @ \ fs,
                      !.applying = IF @ \in fs THEN None ELSE @] \in Session
BY DEF Session

\* Preparing a conflict gives a session.
LEMMA Prepared ==
  ASSUME NEW s \in Session, NEW f \in Files, NEW fs \in SUBSET Files, WorkTypeOK
  PROVE  [s EXCEPT !.conflicts = @ \cup {f}, !.resolved = @ \cap fs,
                   !.base[f] = loaded[f], !.incoming[f] = head[f], !.hash[f] = bytes[f]]
           \in Session
BY ZenonT(60) DEF Session, WorkTypeOK

\* A session that is begun and one that is kept are sessions.
LEMMA NewTyped ==
  ASSUME WorkTypeOK
  PROVE  NewSession \in Session
BY DEF NewSession, Session, WorkTypeOK

\* A session that is kept is one.
LEMMA KeptTyped ==
  ASSUME NEW s \in Session
  PROVE  Kept(s) \in Session \cup {None}
BY DEF Kept

\* The one file of a scope.
LEMMA FileIs ==
  ASSUME NEW c \in Clients, NEW f \in Files, scope[c] = {f}
  PROVE  File(c) = f
BY DEF File

\* A publication keeps the workspace typed.
LEMMA PublishTyped ==
  ASSUME WorkTypeOK, NEW fs \in SUBSET Files, NEW how \in {"guarded", "fast"}, Publish(fs, how)
  PROVE  WorkTypeOK' /\ last' \in [path : {"none", "guarded", "fast"}, whole : BOOLEAN]
<1>1. \A f \in fs \cap Pending : head[f] + 1 \in Revisions
  <2>1. TAKE f \in fs \cap Pending
  <2>2. head[f] \in Revisions /\ head[f] < MaxRevision
    BY DEF Publish, WorkTypeOK
  <2>. QED BY <2>2, PartialAssumption DEF Revisions
<1>2. head' \in [Files -> Revisions] /\ loaded' \in [Files -> Revisions]
  BY <1>1 DEF Publish, WorkTypeOK
<1>3. bytes' \in [Files -> Content]
  BY <1>1 DEF Publish, WorkTypeOK, Content
<1>4. last' \in [path : {"none", "guarded", "fast"}, whole : BOOLEAN]
  BY DEF Publish
<1>. QED BY <1>2, <1>3, <1>4 DEF Publish, WorkTypeOK

\* Every step keeps the state typed.
LEMMA TypeStart ==
  ASSUME IInv, NEW c \in Clients, Start(c)
  PROVE  TypeOK'
<1> USE Typed, ControlTyped DEF IInv
<1>1. CASE PrepareOpen(c)
  <2>1. PICK f \in Files : PrepareFile(c, f, Files \ {f})
    BY <1>1 DEF PrepareOpen
  <2> DEFINE s == IF session = None THEN NewSession ELSE session
  <2>2. s \in Session
    BY <2>1, NewTyped DEF PrepareFile, StoreTypeOK
  <2>3. [s EXCEPT !.conflicts = @ \cup {f}, !.resolved = @ \cap (Files \ {f}),
                  !.base[f] = loaded[f], !.incoming[f] = head[f], !.hash[f] = bytes[f]]
          \in Session
    BY <2>2, Prepared
  <2>4. GateTypeOK'
    BY <2>1 DEF PrepareFile, PCs
  <2>5. LocalsTypeOK'
    BY <2>1, <2>3 DEF PrepareFile, LocalsTypeOK
  <2>. QED BY <2>1, <2>4, <2>5 DEF PrepareFile, work, WorkTypeOK, StoreTypeOK, HistoryTypeOK
<1>2. CASE ResolveOpen(c)
  <2>1. session \in Session
    BY <1>2 DEF ResolveOpen, HasSession, StoreTypeOK
  <2>2. GateTypeOK'
    BY <1>2 DEF ResolveOpen, PCs
  <2>3. \A f \in session.conflicts : f \in Files /\ session.hash[f] \in Content /\ session.incoming[f] \in Content
    BY <2>1 DEF Session, Content
  <2>4. Results \subseteq Content
    BY DEF Content
  <2>5. LocalsTypeOK'
    BY <1>2, <2>1, <2>3, <2>4 DEF ResolveOpen, LocalsTypeOK
  <2>. QED BY <1>2, <2>2, <2>5 DEF ResolveOpen, work, WorkTypeOK, StoreTypeOK, HistoryTypeOK
<1>3. CASE Cancel(c)
  BY <1>3 DEF Cancel, work, locals, WorkTypeOK, StoreTypeOK, GateTypeOK, LocalsTypeOK, HistoryTypeOK
<1>4. CASE UndoOpen(c)
  <2>1. PICK fs \in Scopes : UndoBegins(c, fs)
    BY <1>4 DEF UndoOpen
  <2>2. fs \in SUBSET Files
    BY DEF Scopes
  <2>3. GateTypeOK'
    BY <2>1 DEF UndoBegins, PCs
  <2>4. LocalsTypeOK'
    BY <2>1, <2>2 DEF UndoBegins, LocalsTypeOK, StoreTypeOK
  <2>. QED BY <2>1, <2>3, <2>4 DEF UndoBegins, work, WorkTypeOK, StoreTypeOK, HistoryTypeOK
<1>5. CASE CheckinOpen(c)
  <2>1. GateTypeOK'
    BY <1>5 DEF CheckinOpen, PCs
  <2>2. LocalsTypeOK'
    BY <1>5 DEF CheckinOpen, LocalsTypeOK, StoreTypeOK, Scopes
  <2>. QED BY <1>5, <2>1, <2>2 DEF CheckinOpen, work, WorkTypeOK, StoreTypeOK, HistoryTypeOK
<1>6. CASE FastCheckin(c)
  <2>1. PICK fs \in Scopes : Publish(fs, "fast")
    BY <1>6 DEF FastCheckin
  <2>2. fs \in SUBSET Files
    BY DEF Scopes
  <2>3. WorkTypeOK' /\ last' \in [path : {"none", "guarded", "fast"}, whole : BOOLEAN]
    BY <2>1, <2>2, PublishTyped
  <2>. QED BY <1>6, <2>3 DEF FastCheckin, locals, StoreTypeOK, GateTypeOK, LocalsTypeOK, HistoryTypeOK
<1>7. CASE Update(c)
  <2>1. WorkTypeOK'
    BY <1>7 DEF Update, WorkTypeOK, Content
  <2>. QED BY <1>7, <2>1 DEF Update, locals, StoreTypeOK, GateTypeOK, LocalsTypeOK, HistoryTypeOK
<1>. QED BY <1>1, <1>2, <1>3, <1>4, <1>5, <1>6, <1>7 DEF Start

\* The files a handler works on are typed.
LEMMA HandlerTyped ==
  ASSUME IInv, NEW c \in Clients
  PROVE  /\ pc[c] \in Copying => mem[c] \in Session
         /\ pc[c] \in Resolving => mem[c] \in Session /\ result[c] \in Content /\ File(c) \in Files
         /\ pc[c] \in {"resolve_detach", "retire"} => mem[c] \in Session
<1>1. pc[c] # "idle" => HandlerOK(c)
  BY DEF IInv, Handlers
<1>2. pc[c] \in Resolving => pc[c] # "idle"
  BY DEF Resolving
<1>3. pc[c] \in Copying => pc[c] # "idle"
  BY DEF Copying
<1>. QED BY <1>1, <1>2, <1>3, FileIs DEF HandlerOK, CopyingOK, ResolvingOK

\* Every later step of a handler keeps the state typed.
LEMMA TypeContinue ==
  ASSUME IInv, NEW c \in Clients, Continue(c)
  PROVE  TypeOK'
<1> USE Typed, ControlTyped, HandlerTyped DEF IInv
<1>1. CASE PrepareCopy(c)
  <2>1. pc[c] # "idle" /\ pc[c] \in Copying
    BY <1>1 DEF PrepareCopy, Copying
  <2>2. PICK f \in Files : scope[c] = {f}
    BY <2>1 DEF Handlers, HandlerOK, CopyingOK
  <2>3. StoreTypeOK'
    BY <1>1, <2>2 DEF PrepareCopy, StoreTypeOK, WorkTypeOK
  <2>4. GateTypeOK' /\ LocalsTypeOK'
    BY <1>1, <2>2 DEF PrepareCopy, locals, LocalsTypeOK, PCs
  <2>. QED BY <1>1, <2>3, <2>4 DEF PrepareCopy, work, WorkTypeOK, HistoryTypeOK
<1>2. CASE PrepareSave(c)
  <2>1. StoreTypeOK'
    BY <1>2 DEF PrepareSave, Copying, StoreTypeOK
  <2>2. GateTypeOK' /\ LocalsTypeOK'
    BY <1>2 DEF PrepareSave, locals, LocalsTypeOK, PCs
  <2>. QED BY <1>2, <2>1, <2>2 DEF PrepareSave, work, WorkTypeOK, HistoryTypeOK
<1>3. CASE PrepareIndex(c)
  <2>1. StoreTypeOK'
    BY <1>3 DEF PrepareIndex, Copying, StoreTypeOK
  <2>. QED BY <1>3, <2>1 DEF PrepareIndex, work, WorkTypeOK, HistoryTypeOK
<1>4. CASE ResolveMark(c)
  <2>1. [mem[c] EXCEPT !.applying = File(c)] \in Session
    BY <1>4, Marked DEF ResolveMark, Resolving
  <2>2. StoreTypeOK'
    BY <1>4, <2>1 DEF ResolveMark, Save, StoreTypeOK
  <2>3. GateTypeOK' /\ LocalsTypeOK'
    BY <1>4, <2>1 DEF ResolveMark, Save, LocalsTypeOK, PCs
  <2>. QED BY <1>4, <2>2, <2>3 DEF ResolveMark, work, WorkTypeOK, HistoryTypeOK
<1>5. CASE ResolveCheck(c)
  <2>1. GateTypeOK' /\ LocalsTypeOK'
    BY <1>5 DEF ResolveCheck, locals, LocalsTypeOK, PCs
  <2>. QED BY <1>5, <2>1 DEF ResolveCheck, work, WorkTypeOK, StoreTypeOK, HistoryTypeOK
<1>6. CASE ResolveUndo(c)
  <2>1. GateTypeOK' /\ LocalsTypeOK'
    BY <1>6 DEF ResolveUndo, locals, LocalsTypeOK, PCs
  <2>2. File(c) \in Files
    BY <1>6 DEF ResolveUndo, Resolving
  <2>3. WorkTypeOK'
    BY <1>6, <2>2, RevertedTyped DEF ResolveUndo, WorkTypeOK
  <2>4. HistoryTypeOK'
    BY <1>6 DEF ResolveUndo, HistoryTypeOK
  <2>. QED BY <1>6, <2>1, <2>3, <2>4 DEF ResolveUndo, StoreTypeOK
<1>7. CASE ResolveUpdate(c)
  <2>1. GateTypeOK' /\ LocalsTypeOK'
    BY <1>7 DEF ResolveUpdate, locals, LocalsTypeOK, PCs
  <2>2. File(c) \in Files /\ mem[c] \in Session
    BY <1>7 DEF ResolveUpdate, Resolving
  <2>3. mem[c].incoming[File(c)] \in Revisions
    BY <2>2 DEF Session
  <2>4. WorkTypeOK'
    BY <1>7, <2>3 DEF ResolveUpdate, WorkTypeOK, Content
  <2>. QED BY <1>7, <2>1, <2>4 DEF ResolveUpdate, StoreTypeOK, HistoryTypeOK
<1>8. CASE ResolveWrite(c)
  <2>1. GateTypeOK' /\ LocalsTypeOK'
    BY <1>8 DEF ResolveWrite, locals, LocalsTypeOK, PCs
  <2>2. WorkTypeOK'
    BY <1>8 DEF ResolveWrite, Resolving, WorkTypeOK
  <2>. QED BY <1>8, <2>1, <2>2 DEF ResolveWrite, StoreTypeOK, HistoryTypeOK
<1>9. CASE ResolveVerify(c)
  <2>1. mem[c] \in Session /\ File(c) \in Files
    BY <1>9 DEF ResolveVerify, Resolving
  <2>2. [mem[c] EXCEPT !.resolved = @ \cup {File(c)}, !.applying = None] \in Session
    BY <2>1, Marked
  <2>3. StoreTypeOK'
    BY <1>9, <2>2 DEF ResolveVerify, StoreTypeOK
  <2>4. GateTypeOK' /\ LocalsTypeOK'
    BY <1>9, <2>2 DEF ResolveVerify, LocalsTypeOK, PCs
  <2>. QED BY <1>9, <2>3, <2>4 DEF ResolveVerify, work, WorkTypeOK, HistoryTypeOK
<1>10. CASE ResolveDetach(c)
  <2>1. mem[c] \in Session /\ scope[c] \in SUBSET Files
    BY <1>10 DEF ResolveDetach, LocalsTypeOK
  <2>2. StoreTypeOK'
    BY <1>10, <2>1, Reduced, KeptTyped DEF ResolveDetach, StoreTypeOK
  <2>. QED BY <1>10, <2>2 DEF ResolveDetach, work, WorkTypeOK, HistoryTypeOK
<1>11. CASE UndoFails(c)
  <2>1. WorkTypeOK'
    BY <1>11, RevertedTyped DEF UndoFails, WorkTypeOK, LocalsTypeOK
  <2>. QED BY <1>11, <2>1 DEF UndoFails, StoreTypeOK, HistoryTypeOK
<1>12. CASE UndoWorks(c)
  <2>1. WorkTypeOK'
    BY <1>12, RevertedTyped DEF UndoWorks, WorkTypeOK, LocalsTypeOK
  <2>2. GateTypeOK' /\ LocalsTypeOK'
    BY <1>12 DEF UndoWorks, locals, LocalsTypeOK, PCs
  <2>. QED BY <1>12, <2>1, <2>2 DEF UndoWorks, StoreTypeOK, HistoryTypeOK
<1>13. CASE CheckinNative(c)
  <2>1. GateTypeOK' /\ LocalsTypeOK'
    BY <1>13 DEF CheckinNative, locals, LocalsTypeOK, PCs
  <2>2. scope[c] \in SUBSET Files
    BY DEF LocalsTypeOK
  <2>3. WorkTypeOK' /\ last' \in [path : {"none", "guarded", "fast"}, whole : BOOLEAN]
    BY <1>13, <2>2, PublishTyped DEF CheckinNative, work, WorkTypeOK, HistoryTypeOK
  <2>. QED BY <1>13, <2>1, <2>3 DEF CheckinNative, StoreTypeOK, HistoryTypeOK
<1>14. CASE Retire(c)
  <2>1. mem[c] \in Session /\ Done(c) \in SUBSET Files
    BY <1>14 DEF Retire, LocalsTypeOK, Done
  <2>2. StoreTypeOK'
    BY <1>14, <2>1, Reduced, KeptTyped DEF Retire, StoreTypeOK
  <2>. QED BY <1>14, <2>2 DEF Retire, work, WorkTypeOK, HistoryTypeOK
<1>. QED BY <1>1, <1>2, <1>3, <1>4, <1>5, <1>6, <1>7, <1>8, <1>9, <1>10, <1>11, <1>12,
            <1>13, <1>14 DEF Continue

\* Crashes and other programs keep the state typed.
LEMMA TypeFault ==
  ASSUME IInv, Fault
  PROVE  TypeOK'
<1> USE Typed, ControlTyped, HandlerTyped DEF IInv
<1>1. faults' \in 0..MaxFaults
  BY PartialAssumption DEF Fault, HistoryTypeOK
<1>2. ASSUME NEW c \in Clients, Crash(c) PROVE TypeOK'
  BY <1>1, <1>2 DEF Crash, work, WorkTypeOK, StoreTypeOK, HistoryTypeOK
<1>3. ASSUME NEW c \in Clients, CrashWriting(c) PROVE TypeOK'
  <2>1. WorkTypeOK'
    BY <1>3 DEF CrashWriting, WorkTypeOK, Content
  <2>2. StoreTypeOK'
    BY <1>3 DEF CrashWriting, StoreTypeOK
  <2>. QED BY <1>1, <1>3, <2>1, <2>2 DEF CrashWriting, HistoryTypeOK
<1>4. ASSUME NEW f \in Files, NEW e \in Edits, Edit(f, e) PROVE TypeOK'
  <2>1. WorkTypeOK'
    BY <1>4 DEF Edit, WorkTypeOK, Content
  <2>. QED BY <1>1, <1>4, <2>1 DEF Edit, locals, StoreTypeOK, GateTypeOK, LocalsTypeOK, HistoryTypeOK
<1>5. ASSUME NEW f \in Files, ForeignUndo(f) PROVE TypeOK'
  <2>1. WorkTypeOK'
    BY <1>5, RevertedTyped DEF ForeignUndo, WorkTypeOK
  <2>. QED BY <1>1, <1>5, <2>1 DEF ForeignUndo, locals, StoreTypeOK, GateTypeOK, LocalsTypeOK, HistoryTypeOK
<1>6. ASSUME ForeignConfigure PROVE TypeOK'
  <2>1. WorkTypeOK'
    BY <1>6 DEF ForeignConfigure, WorkTypeOK, Configurations
  <2>. QED BY <1>1, <1>6, <2>1 DEF ForeignConfigure, locals, StoreTypeOK, GateTypeOK, LocalsTypeOK, HistoryTypeOK
<1>. QED BY <1>2, <1>3, <1>4, <1>5, <1>6 DEF Fault

\* Every step keeps the state typed.
LEMMA TypeStep == IInv /\ [Next]_vars => TypeOK'
<1> SUFFICES ASSUME IInv, [Next]_vars PROVE TypeOK'
  OBVIOUS
<1>1. CASE UNCHANGED vars
  BY <1>1 DEF vars, work, locals, IInv, TypeOK
<1>2. ASSUME NEW f \in Files, Arrive(f) PROVE TypeOK'
  <2>1. WorkTypeOK'
    BY <1>2, Typed, PartialAssumption DEF Arrive, WorkTypeOK, Revisions, IInv
  <2>. QED BY <1>2, <2>1, Typed DEF Arrive, IInv, locals, StoreTypeOK, GateTypeOK, LocalsTypeOK, HistoryTypeOK
<1>. QED BY <1>1, <1>2, TypeStart, TypeContinue, TypeFault DEF Next

-----------------------------------------------------------------------------
(* Who can be inside a handler, and what a step leaves alone *)

\* Two handlers are never past their first step at once.
LEMMA OnlyOne ==
  ASSUME IInv, NEW c \in Clients, pc[c] # "idle"
  PROVE  HandlerOK(c) /\ \A d \in Clients \ {c} : pc[d] = "idle"
BY DEF IInv, Handlers, HandlerOK

\* While a gate is free nobody is inside a handler.
LEMMA GateFree ==
  ASSUME IInv, gate = None \/ sgate = None
  PROVE  \A d \in Clients : pc[d] = "idle"
BY PartialAssumption DEF IInv, Handlers, HandlerOK

\* A client that leaves its handler leaves nobody in one.
LEMMA AfterRelease ==
  ASSUME IInv, NEW c \in Clients, \A d \in Clients \ {c} : pc[d] = "idle", Release(c)
  PROVE  Handlers'
BY DEF IInv, TypeOK, Handlers, Release, Goto

\* A client that goes on and is in order there is the only one inside a handler.
LEMMA AfterGoto ==
  ASSUME IInv, NEW c \in Clients, \A d \in Clients \ {c} : pc[d] = "idle",
         NEW to, Goto(c, to), HandlerOK(c)'
  PROVE  Handlers'
BY DEF IInv, TypeOK, Handlers, Goto

\* What holds of the session, the workspace and the history.
Rest ==
  /\ SessionOK
  /\ TornIsNamed
  /\ LoadedIsPublished
  /\ GuardedCheckinReviewed
  /\ EditsSurvive

\* Copying bytes aside or only reading disturbs none of it.
LEMMA RestWhenReading ==
  ASSUME IInv, UNCHANGED <<work, session, lost, last>>,
         \A f \in Files : backups[f] \subseteq backups'[f]
  PROVE  Rest'
<1>1. SessionOK'
  <2>1. HasSession' => HasSession /\ session \in Session
    BY DEF HasSession, IInv, TypeOK
  <2>2. session \in Session => session.conflicts \subseteq Files
    BY DEF Session
  <2>. QED BY <2>1, <2>2 DEF IInv, SessionOK, Consistent, BackedUp, work
<1>2. TornIsNamed' /\ LoadedIsPublished' /\ GuardedCheckinReviewed' /\ EditsSurvive'
  BY DEF IInv, TornIsNamed, HasSession, LoadedIsPublished, GuardedCheckinReviewed, EditsSurvive, work
<1>. QED BY <1>1, <1>2 DEF Rest

\* A step that replaces the session has to answer for two of its parts.
LEMMA RestWhenSaving ==
  ASSUME IInv, UNCHANGED <<work, lost, last>>, SessionOK', TornIsNamed'
  PROVE  Rest'
BY DEF IInv, Rest, LoadedIsPublished, GuardedCheckinReviewed, EditsSurvive, work

\* A step that replaces bytes by others that are not torn disturbs none of it.
LEMMA RestWhenWriting ==
  ASSUME IInv, UNCHANGED <<head, loaded, session, backups, last>>,
         \A f \in Files : bytes'[f] # Torn \/ bytes'[f] = bytes[f],
         EditsSurvive'
  PROVE  Rest'
<1>1. SessionOK'
  BY DEF IInv, SessionOK, HasSession, Consistent, BackedUp
<1>2. TornIsNamed'
  BY DEF IInv, TornIsNamed, HasSession
<1>3. LoadedIsPublished' /\ GuardedCheckinReviewed'
  BY DEF IInv, LoadedIsPublished, GuardedCheckinReviewed
<1>. QED BY <1>1, <1>2, <1>3 DEF Rest

-----------------------------------------------------------------------------
(* Preparing *)

\* The session a preparation starts from is consistent, and no file is torn.
LEMMA PrepareFrom ==
  ASSUME IInv, session # Torn,
         ~Interrupted(IF session = None THEN NewSession ELSE session)
  PROVE  LET s == IF session = None THEN NewSession ELSE session IN
         /\ s \in Session
         /\ Consistent(s) /\ BackedUp(s, {})
         /\ \A f \in Files : bytes[f] # Torn
         /\ HasSession => ~Interrupted(session)
<1>1. HasSession => ~Interrupted(session)
  BY DEF HasSession
<1>2. \A f \in Files : bytes[f] # Torn
  <2>1. SUFFICES ASSUME NEW f \in Files, bytes[f] = Torn PROVE FALSE
    OBVIOUS
  <2>2. HasSession /\ session.applying = f
    BY <2>1 DEF IInv, TornIsNamed
  <2>3. f # None
    BY PartialAssumption
  <2>. QED BY <1>1, <2>2, <2>3 DEF Interrupted
<1>3. CASE session = None
  <2>1. NewSession \in Session
    BY NewTyped, Typed DEF IInv
  <2>2. Consistent(NewSession)
    BY <1>2 DEF NewSession, Consistent, IInv, LoadedIsPublished, TypeOK
  <2>3. BackedUp(NewSession, {})
    BY DEF NewSession, BackedUp
  <2>. QED BY <1>1, <1>2, <1>3, <2>1, <2>2, <2>3
<1>4. CASE session # None
  BY <1>1, <1>2, <1>4 DEF IInv, HasSession, TypeOK, SessionOK
<1>. QED BY <1>3, <1>4

\* Opening a preparation: the session in memory is consistent, all but the new
\* conflict copied.
LEMMA PrepareOpenStep ==
  ASSUME IInv, NEW c \in Clients, PrepareOpen(c), TypeOK'
  PROVE  Handlers' /\ Rest'
<1>1. PICK f \in Files : PrepareFile(c, f, Files \ {f})
  BY DEF PrepareOpen
<1> DEFINE s == IF session = None THEN NewSession ELSE session
<1> DEFINE t == [s EXCEPT !.conflicts = @ \cup {f}, !.resolved = @ \cap (Files \ {f}),
                          !.base[f] = loaded[f], !.incoming[f] = head[f], !.hash[f] = bytes[f]]
<1>2. gate = None /\ pc[c] = "idle" /\ Goto(c, "prepare_copy") /\ gate' = c /\ sgate' = c
  BY <1>1 DEF PrepareFile, Acquire
<1>3. \A d \in Clients \ {c} : pc[d] = "idle"
  BY <1>2, GateFree
<1>4. mem'[c] = t /\ scope'[c] = {f} /\ pc'[c] = "prepare_copy"
  BY <1>1, <1>2 DEF PrepareFile, Goto, IInv, TypeOK
<1>5. session # Torn /\ ~Interrupted(s)
  BY <1>1 DEF PrepareFile
<1>6. /\ s \in Session /\ Consistent(s) /\ BackedUp(s, {})
      /\ \A g \in Files : bytes[g] # Torn
      /\ HasSession => ~Interrupted(session)
  BY <1>5, PrepareFrom
<1>7. UNCHANGED <<work, session, backups, late, lost, last>>
  BY <1>1 DEF PrepareFile
<1> HIDE DEF s
<1>8. t \in Session
  BY <1>6, Prepared, Typed DEF IInv
<1>9. /\ t.conflicts = s.conflicts \cup {f} /\ t.resolved = s.resolved \ {f}
      /\ t.applying = s.applying
      /\ t.incoming = [s.incoming EXCEPT ![f] = head[f]]
      /\ t.hash = [s.hash EXCEPT ![f] = bytes[f]]
  BY <1>6 DEF Session
<1> HIDE DEF t
<1>10. Consistent(t)
  <2>1. \A g \in Files : t.hash[g] # Torn /\ t.incoming[g] <= head[g]
    BY <1>6, <1>9 DEF Consistent, Session, IInv, TypeOK, Revisions
  <2>2. \A g \in t.resolved : t.incoming[g] <= loaded[g]
    BY <1>6, <1>9 DEF Consistent, Session
  <2>3. t.applying = None
    BY <1>5, <1>9 DEF Interrupted
  <2>. QED BY <1>6, <1>9, <2>1, <2>2, <2>3 DEF Consistent
<1>11. BackedUp(t, {f})
  BY <1>6, <1>9 DEF BackedUp, Session
<1>12. CopyingOK(c)'
  <2>1. Consistent(mem[c])'
    BY <1>4, <1>7, <1>10 DEF Consistent, work
  <2>2. f \in t.conflicts \ t.resolved /\ ~Interrupted(t)
    BY <1>5, <1>9 DEF Interrupted
  <2>3. (HasSession => ~Interrupted(session))'
    BY <1>6, <1>7 DEF HasSession, Interrupted
  <2>4. BackedUp(mem[c], {f})'
    BY <1>4, <1>7, <1>11 DEF BackedUp
  <2>. QED BY <1>4, <1>8, <2>1, <2>2, <2>3, <2>4 DEF CopyingOK, Interrupted
<1>13. HandlerOK(c)'
  BY <1>2, <1>4, <1>5, <1>7, <1>12 DEF HandlerOK, Copying, Resolving
<1>14. Handlers'
  BY <1>2, <1>3, <1>13, AfterGoto
<1>15. Rest'
  BY <1>7, RestWhenReading
<1>. QED BY <1>14, <1>15

\* The copy is made before the session names it.
LEMMA PrepareCopyStep ==
  ASSUME IInv, NEW c \in Clients, PrepareCopy(c), TypeOK'
  PROVE  Handlers' /\ Rest'
<1>1. pc[c] = "prepare_copy" /\ pc[c] # "idle" /\ pc[c] \in Copying
  BY DEF PrepareCopy, Copying
<1>2. HandlerOK(c) /\ CopyingOK(c) /\ \A d \in Clients \ {c} : pc[d] = "idle"
  BY <1>1, OnlyOne DEF HandlerOK
<1>3. PICK f \in Files : /\ scope[c] = {f}
                         /\ f \in mem[c].conflicts \ mem[c].resolved
                         /\ BackedUp(mem[c], {f})
  BY <1>1, <1>2 DEF CopyingOK
<1>4. UNCHANGED <<work, session, late, lost, last>> /\ backups' = [backups EXCEPT ![f] = @ \cup {bytes[f]}]
  BY <1>3 DEF PrepareCopy
<1>5. Rest'
  BY <1>4, RestWhenReading DEF IInv, TypeOK
<1>6. CASE Release(c)
  BY <1>2, <1>5, <1>6, AfterRelease
<1>7. CASE bytes[f] = mem[c].hash[f] /\ Goto(c, "prepare_save") /\ UNCHANGED <<gate, sgate, locals>>
  <2>1. pc'[c] = "prepare_save"
    BY <1>7 DEF Goto, IInv, TypeOK
  <2>2. BackedUp(mem[c], {})'
    BY <1>2, <1>3, <1>4, <1>7 DEF BackedUp, locals, IInv, TypeOK, CopyingOK, Session
  <2>3. Consistent(mem[c])'
    BY <1>2, <1>4, <1>7 DEF CopyingOK, Consistent, work, locals
  <2>4. CopyingOK(c)'
    BY <1>2, <1>3, <1>4, <1>7, <2>1, <2>2, <2>3 DEF CopyingOK, HasSession, Interrupted, locals
  <2>5. HandlerOK(c)'
    BY <1>2, <1>4, <1>7, <2>1, <2>4 DEF HandlerOK, Copying, Resolving
  <2>. QED BY <1>2, <1>5, <1>7, <2>5, AfterGoto
<1>. QED BY <1>3, <1>6, <1>7 DEF PrepareCopy

\* No file is torn while a session is prepared.
LEMMA PrepareTearsNothing ==
  ASSUME IInv, NEW c \in Clients, CopyingOK(c)
  PROVE  TornIsNamed /\ \A f \in Files : bytes[f] # Torn
BY PartialAssumption DEF IInv, TornIsNamed, CopyingOK, Interrupted

\* Replacing partial.xml saves a consistent session.
LEMMA PrepareSaveStep ==
  ASSUME IInv, NEW c \in Clients, PrepareSave(c), TypeOK'
  PROVE  Handlers' /\ Rest'
<1>1. pc[c] = "prepare_save" /\ pc[c] # "idle" /\ pc[c] \in Copying
  BY DEF PrepareSave, Copying
<1>2. HandlerOK(c) /\ CopyingOK(c) /\ \A d \in Clients \ {c} : pc[d] = "idle"
  BY <1>1, OnlyOne DEF HandlerOK
<1>3. PICK f \in Files : /\ scope[c] = {f}
                         /\ f \in mem[c].conflicts \ mem[c].resolved
                         /\ BackedUp(mem[c], {})
  BY <1>1, <1>2 DEF CopyingOK
<1>4. /\ UNCHANGED <<work, backups, gate, sgate, locals, late, lost, last>>
      /\ session' = IF HasSession THEN mem[c] ELSE session
      /\ Goto(c, "prepare_index")
  BY DEF PrepareSave
<1>5. pc'[c] = "prepare_index"
  BY <1>4 DEF Goto, IInv, TypeOK
<1>6. session' # Torn /\ (HasSession' => session' = mem[c])
  BY <1>2, <1>4, NoSessionAssumption DEF HasSession, HandlerOK, CopyingOK
<1>7. SessionOK'
  BY <1>2, <1>3, <1>4, <1>6 DEF SessionOK, CopyingOK, Consistent, BackedUp, work
<1>8. TornIsNamed'
  BY <1>2, <1>4, PrepareTearsNothing DEF TornIsNamed, work
<1>9. Rest'
  BY <1>4, <1>7, <1>8, RestWhenSaving
<1>10. CopyingOK(c)'
  BY <1>2, <1>3, <1>4, <1>5, <1>6 DEF CopyingOK, Consistent, BackedUp, Interrupted, work, locals
<1>11. HandlerOK(c)'
  BY <1>2, <1>4, <1>5, <1>6, <1>10 DEF HandlerOK, Copying, Resolving
<1>. QED BY <1>2, <1>4, <1>9, <1>11, AfterGoto

\* So does writing the index that points at it.
LEMMA PrepareIndexStep ==
  ASSUME IInv, NEW c \in Clients, PrepareIndex(c), TypeOK'
  PROVE  Handlers' /\ Rest'
<1>1. pc[c] = "prepare_index" /\ pc[c] # "idle" /\ pc[c] \in Copying
  BY DEF PrepareIndex, Copying
<1>2. HandlerOK(c) /\ CopyingOK(c) /\ \A d \in Clients \ {c} : pc[d] = "idle"
  BY <1>1, OnlyOne DEF HandlerOK
<1>3. BackedUp(mem[c], {})
  BY <1>1, <1>2 DEF CopyingOK
<1>4. UNCHANGED <<work, backups, late, lost, last>> /\ session' = mem[c] /\ Release(c)
  BY DEF PrepareIndex
<1>5. SessionOK'
  BY <1>2, <1>3, <1>4 DEF SessionOK, CopyingOK, Consistent, BackedUp, work
<1>6. TornIsNamed'
  BY <1>2, <1>4, PrepareTearsNothing DEF TornIsNamed, work
<1>. QED BY <1>2, <1>4, <1>5, <1>6, AfterRelease, RestWhenSaving

-----------------------------------------------------------------------------
(* Resolving *)

\* A resolution begins on an undecided conflict whose bytes are compared.
LEMMA ResolveOpenStep ==
  ASSUME IInv, NEW c \in Clients, ResolveOpen(c), TypeOK'
  PROVE  Handlers' /\ Rest'
<1>1. gate = None /\ Goto(c, "resolve_mark") /\ gate' = c /\ sgate' = c
  BY DEF ResolveOpen, Acquire
<1>2. \A d \in Clients \ {c} : pc[d] = "idle"
  BY <1>1, GateFree
<1>3. HasSession /\ session \in Session /\ session # Torn /\ session.applying = None
  BY DEF ResolveOpen, HasSession, Interrupted, IInv, TypeOK
<1>4. UNCHANGED <<work, session, backups, late, lost, last>>
  BY DEF ResolveOpen
<1>5. PICK f \in session.conflicts \ session.resolved :
        /\ bytes[f] = session.hash[f]
        /\ scope' = [scope EXCEPT ![c] = {f}]
        /\ \E r \in Results \cup {session.hash[f], session.incoming[f]} :
             result' = [result EXCEPT ![c] = r]
  BY DEF ResolveOpen
<1>6. f \in Files /\ session.hash[f] \in Content \ {Torn} /\ session.incoming[f] \in Content \ {Torn}
  <2>1. f \in Files /\ session.hash[f] \in Content /\ session.incoming[f] \in Revisions
    BY <1>3, <1>5 DEF Session
  <2>2. session.hash[f] # Torn
    BY <1>3, <2>1 DEF IInv, SessionOK, Consistent
  <2>. QED BY <2>1, <2>2, PartialAssumption DEF Content
<1>7. scope'[c] = {f} /\ result'[c] \in Content \ {Torn}
  BY <1>5, <1>6, PartialAssumption DEF Content, IInv, TypeOK
<1>8. pc'[c] = "resolve_mark" /\ mem'[c] = session
  BY <1>1 DEF ResolveOpen, Goto, IInv, TypeOK
<1>9. ResolvingOK(c)'
  BY <1>3, <1>5, <1>6, <1>7, <1>8 DEF ResolvingOK
<1>10. HandlerOK(c)'
  BY <1>1, <1>3, <1>4, <1>8, <1>9 DEF HandlerOK, Copying, Resolving
<1>11. Rest'
  BY <1>4, RestWhenReading
<1>. QED BY <1>1, <1>2, <1>10, <1>11, AfterGoto

\* What is known inside a resolution.
LEMMA Inside ==
  ASSUME IInv, NEW c \in Clients, pc[c] \in Resolving
  PROVE  /\ HandlerOK(c) /\ ResolvingOK(c)
         /\ pc[c] \notin Copying /\ session = mem[c] /\ HasSession
         /\ Consistent(mem[c]) /\ BackedUp(mem[c], {})
         /\ \A d \in Clients \ {c} : pc[d] = "idle"
         /\ File(c) \in mem[c].conflicts \ mem[c].resolved /\ File(c) \in Files
         /\ scope[c] = {File(c)}
         /\ mem[c].applying = IF pc[c] = "resolve_mark" THEN None ELSE File(c)
<1>1. pc[c] # "idle" /\ pc[c] \notin Copying
  BY DEF Resolving, Copying
<1>2. HandlerOK(c) /\ \A d \in Clients \ {c} : pc[d] = "idle"
  BY <1>1, OnlyOne
<1>3. ResolvingOK(c) /\ session = mem[c]
  BY <1>1, <1>2 DEF HandlerOK
<1>4. HasSession
  BY <1>3, NoSessionAssumption DEF HasSession, ResolvingOK
<1>5. Consistent(mem[c]) /\ BackedUp(mem[c], {})
  BY <1>3, <1>4 DEF IInv, SessionOK
<1>6. /\ File(c) \in mem[c].conflicts \ mem[c].resolved /\ File(c) \in Files
      /\ scope[c] = {File(c)}
      /\ mem[c].applying = IF pc[c] = "resolve_mark" THEN None ELSE File(c)
  BY <1>3, FileIs DEF ResolvingOK
<1>. QED BY <1>1, <1>2, <1>3, <1>4, <1>5, <1>6

\* The mark names that conflict.
LEMMA ResolveMarkStep ==
  ASSUME IInv, NEW c \in Clients, ResolveMark(c), TypeOK'
  PROVE  Handlers' /\ Rest'
<1> DEFINE f == File(c)
<1> DEFINE t == [mem[c] EXCEPT !.applying = f]
<1>1. pc[c] = "resolve_mark" /\ pc[c] \in Resolving
  BY DEF ResolveMark, Resolving
<1>2. /\ HandlerOK(c) /\ ResolvingOK(c)
      /\ session = mem[c] /\ HasSession
      /\ Consistent(mem[c]) /\ BackedUp(mem[c], {})
      /\ \A d \in Clients \ {c} : pc[d] = "idle"
      /\ f \in mem[c].conflicts \ mem[c].resolved /\ f \in Files
      /\ scope[c] = {f} /\ mem[c].applying = None
  BY <1>1, Inside
<1>3. /\ UNCHANGED <<work, backups, gate, sgate, scope, result, late, lost, last>>
      /\ session' = t /\ Goto(c, "resolve_check")
      /\ mem' = [mem EXCEPT ![c] = t]
  BY DEF ResolveMark, Save
<1>4. pc'[c] = "resolve_check" /\ mem'[c] = t
  BY <1>3 DEF Goto, IInv, TypeOK
<1> HIDE DEF f
<1>5. t \in Session
  BY <1>2, Marked DEF ResolvingOK
<1>6. /\ t.conflicts = mem[c].conflicts /\ t.resolved = mem[c].resolved /\ t.applying = f
      /\ t.incoming = mem[c].incoming /\ t.hash = mem[c].hash
  BY <1>2 DEF ResolvingOK, Session
<1> HIDE DEF t
<1>7. SessionOK'
  BY <1>2, <1>3, <1>6 DEF SessionOK, Consistent, BackedUp, work
<1>8. TornIsNamed'
  <2>1. \A g \in Files : bytes[g] # Torn
    BY <1>2, PartialAssumption DEF IInv, TornIsNamed
  <2>. QED BY <1>3, <2>1 DEF TornIsNamed, work
<1>9. Rest'
  BY <1>3, <1>7, <1>8, RestWhenSaving
<1>10. ResolvingOK(c)'
  BY <1>2, <1>3, <1>4, <1>5, <1>6 DEF ResolvingOK
<1>11. HandlerOK(c)'
  BY <1>2, <1>3, <1>4, <1>5, <1>10, NoSessionAssumption DEF HandlerOK, Copying, Resolving
<1>. QED BY <1>2, <1>3, <1>9, <1>11, AfterGoto

\* A resolution that only moves on, or gives up.
LEMMA StaysResolving ==
  ASSUME IInv, NEW c \in Clients, pc[c] \in Resolving, NEW to \in Resolving \ {"resolve_mark"},
         pc[c] # "resolve_mark", Goto(c, to),
         UNCHANGED <<session, gate, sgate, locals>>,
         (to = "resolve_undo" /\ File(c) \notin late' /\ bytes'[File(c)] \in Edits)
            => bytes'[File(c)] \in backups'[File(c)]
  PROVE  Handlers'
<1>1. /\ HandlerOK(c) /\ ResolvingOK(c) /\ session = mem[c]
      /\ \A d \in Clients \ {c} : pc[d] = "idle"
      /\ File(c) \in mem[c].conflicts \ mem[c].resolved /\ File(c) \in Files
      /\ scope[c] = {File(c)}
      /\ mem[c].applying = File(c)
  BY Inside
<1>2. pc'[c] = to
  BY DEF Goto, IInv, TypeOK
<1>3. ResolvingOK(c)'
  BY <1>1, <1>2 DEF ResolvingOK, locals
<1>4. HandlerOK(c)'
  BY <1>1, <1>2, <1>3 DEF HandlerOK, Copying, Resolving, locals
<1>. QED BY <1>1, <1>4, AfterGoto

\* The bytes that `cm undo` will revert are among the backups.
LEMMA ResolveCheckStep ==
  ASSUME IInv, NEW c \in Clients, ResolveCheck(c), TypeOK'
  PROVE  Handlers' /\ Rest'
<1>1. pc[c] = "resolve_check" /\ pc[c] \in Resolving /\ pc[c] # "resolve_mark"
      /\ "resolve_undo" \in Resolving \ {"resolve_mark"}
  BY DEF ResolveCheck, Resolving
<1>2. /\ \A d \in Clients \ {c} : pc[d] = "idle"
      /\ File(c) \in mem[c].conflicts \ mem[c].resolved
      /\ BackedUp(mem[c], {})
  BY <1>1, Inside
<1>3. UNCHANGED <<work, session, backups, lost, last>>
  BY DEF ResolveCheck
<1>4. Rest'
  BY <1>3, RestWhenReading
<1>5. CASE Release(c)
  BY <1>2, <1>5, <1>4, AfterRelease
<1>6. CASE bytes[File(c)] = mem[c].hash[File(c)] /\ Goto(c, "resolve_undo") /\ UNCHANGED <<gate, sgate, locals>>
  <2>1. bytes[File(c)] \in backups[File(c)]
    BY <1>2, <1>6 DEF BackedUp
  <2>. QED BY <1>1, <1>3, <1>6, <1>4, <2>1, StaysResolving DEF work
<1>. QED BY <1>5, <1>6, <1>4 DEF ResolveCheck

\* The native undo takes no bytes that are not.
LEMMA ResolveUndoStep ==
  ASSUME IInv, NEW c \in Clients, ResolveUndo(c), TypeOK'
  PROVE  Handlers' /\ Rest'
<1>1. pc[c] = "resolve_undo" /\ pc[c] \in Resolving /\ pc[c] # "resolve_mark"
      /\ "resolve_update" \in Resolving \ {"resolve_mark"}
  BY DEF ResolveUndo, Resolving
<1>2. /\ \A d \in Clients \ {c} : pc[d] = "idle"
      /\ ResolvingOK(c) /\ scope[c] = {File(c)} /\ File(c) \in Files
  BY <1>1, Inside
<1>3. UNCHANGED <<head, loaded, config, session, backups, last, faults>>
  BY DEF ResolveUndo
<1>4. File(c) \notin late /\ bytes[File(c)] \in Edits => bytes[File(c)] \in backups[File(c)]
  BY <1>1, <1>2 DEF ResolvingOK
<1>5. EditsSurvive'
  BY <1>4 DEF ResolveUndo, IInv, EditsSurvive
<1>6. \A f \in Files : bytes'[f] # Torn \/ bytes'[f] = bytes[f]
  BY PartialAssumption DEF ResolveUndo, Reverted, IInv, TypeOK
<1>7. Rest'
  BY <1>3, <1>5, <1>6, RestWhenWriting
<1>8. CASE Release(c)
  BY <1>2, <1>7, <1>8, AfterRelease
<1>9. CASE Goto(c, "resolve_update") /\ UNCHANGED <<gate, sgate, locals>>
  BY <1>1, <1>3, <1>7, <1>9, StaysResolving
<1>. QED BY <1>8, <1>9 DEF ResolveUndo

\* The update lowers the revision of no decided file.
LEMMA ResolveUpdateStep ==
  ASSUME IInv, NEW c \in Clients, ResolveUpdate(c), TypeOK'
  PROVE  Handlers' /\ Rest'
<1> DEFINE f == File(c)
<1> DEFINE to == mem[c].incoming[f]
<1>1. pc[c] = "resolve_update" /\ pc[c] \in Resolving /\ pc[c] # "resolve_mark"
      /\ "resolve_write" \in Resolving \ {"resolve_mark"}
  BY DEF ResolveUpdate, Resolving
<1>2. /\ \A d \in Clients \ {c} : pc[d] = "idle"
      /\ session = mem[c] /\ mem[c] \in Session
      /\ f \in mem[c].conflicts \ mem[c].resolved /\ f \in Files
      /\ Consistent(mem[c]) /\ BackedUp(mem[c], {})
  BY <1>1, Inside DEF ResolvingOK
<1>3. UNCHANGED <<head, config, session, backups, late, lost, last, faults>>
  BY DEF ResolveUpdate
<1>4. to \in Revisions /\ to <= head[f] /\ to # Torn
  BY <1>2, PartialAssumption DEF Session, Consistent
<1>5. \/ UNCHANGED <<loaded, bytes>>
      \/ loaded' = [loaded EXCEPT ![f] = to] /\ bytes' = [bytes EXCEPT ![f] = to]
  BY DEF ResolveUpdate
<1> HIDE DEF f, to
<1>6. LoadedIsPublished'
  BY <1>3, <1>4, <1>5 DEF IInv, TypeOK, LoadedIsPublished
<1>7. SessionOK'
  <2>1. \A g \in mem[c].resolved : g # f /\ g \in Files
    BY <1>2 DEF Session
  <2>2. \A g \in mem[c].resolved : loaded'[g] = loaded[g]
    BY <1>5, <2>1 DEF IInv, TypeOK
  <2>. QED BY <1>2, <1>3, <2>2 DEF SessionOK, Consistent, BackedUp
<1>8. TornIsNamed'
  BY <1>3, <1>4, <1>5 DEF IInv, TypeOK, TornIsNamed, HasSession
<1>9. GuardedCheckinReviewed' /\ EditsSurvive'
  BY <1>3 DEF IInv, GuardedCheckinReviewed, EditsSurvive
<1>10. Rest'
  BY <1>6, <1>7, <1>8, <1>9 DEF Rest
<1>11. CASE Release(c)
  BY <1>2, <1>10, <1>11, AfterRelease
<1>12. CASE Goto(c, "resolve_write") /\ UNCHANGED <<gate, sgate, locals>>
  BY <1>1, <1>3, <1>10, <1>12, StaysResolving
<1>. QED BY <1>11, <1>12 DEF ResolveUpdate

\* The reviewed result is written whole.
LEMMA ResolveWriteStep ==
  ASSUME IInv, NEW c \in Clients, ResolveWrite(c), TypeOK'
  PROVE  Handlers' /\ Rest'
<1>1. pc[c] = "resolve_write" /\ pc[c] \in Resolving /\ pc[c] # "resolve_mark"
      /\ "resolve_verify" \in Resolving \ {"resolve_mark"}
  BY DEF ResolveWrite, Resolving
<1>2. /\ \A d \in Clients \ {c} : pc[d] = "idle"
      /\ result[c] # Torn
  BY <1>1, Inside DEF ResolvingOK
<1>3. UNCHANGED <<head, loaded, config, session, backups, late, lost, last, faults>>
  BY DEF ResolveWrite
<1>4. \A f \in Files : bytes'[f] # Torn \/ bytes'[f] = bytes[f]
  BY <1>2 DEF ResolveWrite, IInv, TypeOK
<1>5. Rest'
  <2>1. EditsSurvive'
    BY <1>3 DEF IInv, EditsSurvive
  <2>. QED BY <1>3, <1>4, <2>1, RestWhenWriting
<1>6. CASE Release(c)
  BY <1>2, <1>5, <1>6, AfterRelease
<1>7. CASE Goto(c, "resolve_verify") /\ UNCHANGED <<gate, sgate, locals>>
  BY <1>1, <1>3, <1>5, <1>7, StaysResolving
<1>. QED BY <1>6, <1>7 DEF ResolveWrite

\* A verified result is decided and nothing else is torn.
LEMMA ResolveVerifyStep ==
  ASSUME IInv, NEW c \in Clients, ResolveVerify(c), TypeOK'
  PROVE  Handlers' /\ Rest'
<1> DEFINE f == File(c)
<1> DEFINE t == [mem[c] EXCEPT !.resolved = @ \cup {f}, !.applying = None]
<1>1. pc[c] = "resolve_verify" /\ pc[c] \in Resolving
  BY DEF ResolveVerify, Resolving
<1>2. /\ \A d \in Clients \ {c} : pc[d] = "idle"
      /\ HandlerOK(c) /\ session = mem[c] /\ HasSession /\ mem[c] \in Session /\ result[c] # Torn
      /\ f \in mem[c].conflicts \ mem[c].resolved /\ f \in Files /\ mem[c].applying = f
      /\ Consistent(mem[c]) /\ BackedUp(mem[c], {})
  BY <1>1, Inside DEF ResolvingOK
<1>3. UNCHANGED <<work, backups, late, lost, last>>
  BY DEF ResolveVerify
<1>4. CASE UNCHANGED session /\ Release(c)
  BY <1>2, <1>3, <1>4, AfterRelease, RestWhenReading
<1>5. CASE session' = t
  <2>1. bytes[f] = result[c] /\ loaded[f] = mem[c].incoming[f]
    <3>1. t # mem[c]
      BY <1>2, PartialAssumption DEF Session
    <3>. QED BY <1>2, <1>5, <3>1 DEF ResolveVerify
  <2> HIDE DEF f
  <2>2. /\ t \in Session /\ t.conflicts = mem[c].conflicts /\ t.resolved = mem[c].resolved \cup {f}
        /\ t.applying = None /\ t.incoming = mem[c].incoming /\ t.hash = mem[c].hash
    BY <1>2, Marked, ZenonT(60) DEF Session
  <2> HIDE DEF t
  <2>3. loaded[f] \in Revisions
    BY <1>2 DEF IInv, TypeOK
  <2>4. SessionOK'
    <3>1. \A g \in t.resolved : t.incoming[g] <= loaded[g]
      BY <1>2, <2>1, <2>2, <2>3 DEF Consistent, Revisions
    <3>. QED BY <1>2, <1>3, <1>5, <2>2, <3>1 DEF SessionOK, Consistent, BackedUp, work
  <2>5. \A g \in Files : bytes[g] # Torn
    BY <1>2, <2>1 DEF IInv, TornIsNamed
  <2>6. TornIsNamed'
    BY <1>3, <2>5 DEF TornIsNamed, work
  <2>7. Rest'
    BY <1>3, <2>4, <2>6, RestWhenSaving
  <2>8. CASE Release(c)
    BY <1>2, <2>7, <2>8, AfterRelease
  <2>9. CASE /\ mem' = [mem EXCEPT ![c] = session'] /\ Goto(c, "resolve_detach")
             /\ UNCHANGED <<gate, sgate, scope, result>>
    <3>1. pc'[c] = "resolve_detach" /\ mem'[c] = t
      BY <1>5, <2>9 DEF Goto, IInv, TypeOK
    <3>2. HandlerOK(c)'
      BY <1>2, <1>5, <2>2, <2>9, <3>1, NoSessionAssumption
         DEF HandlerOK, Copying, Resolving, Interrupted
    <3>. QED BY <1>2, <2>7, <2>9, <3>2, AfterGoto
  <2>. QED BY <1>2, <1>4, <2>8, <2>9 DEF ResolveVerify
<1>. QED BY <1>4, <1>5 DEF ResolveVerify

\* A conflict without a change leaves the session.
LEMMA ResolveDetachStep ==
  ASSUME IInv, NEW c \in Clients, ResolveDetach(c), TypeOK'
  PROVE  Handlers' /\ Rest'
<1> DEFINE t == [mem[c] EXCEPT !.conflicts = @ \ scope[c], !.resolved = @ \ scope[c]]
<1>1. pc[c] = "resolve_detach" /\ pc[c] # "idle" /\ pc[c] \notin Copying
  BY DEF ResolveDetach, Copying
<1>2. /\ \A d \in Clients \ {c} : pc[d] = "idle"
      /\ session = mem[c] /\ mem[c] \in Session /\ mem[c].applying = None
  BY <1>1, OnlyOne DEF HandlerOK, Interrupted
<1>3. HasSession /\ Consistent(mem[c]) /\ BackedUp(mem[c], {})
  BY <1>2, NoSessionAssumption DEF HasSession, IInv, SessionOK
<1>4. UNCHANGED <<work, backups, late, lost, last>> /\ Release(c) /\ session' = Kept(t)
  BY DEF ResolveDetach
<1>5. /\ t.conflicts = mem[c].conflicts \ scope[c] /\ t.resolved = mem[c].resolved \ scope[c]
      /\ t.applying = None /\ t.incoming = mem[c].incoming /\ t.hash = mem[c].hash
  BY <1>2 DEF Session
<1> HIDE DEF t
<1>6. SessionOK'
  <2>1. HasSession' => session' = t
    BY <1>4 DEF HasSession, Kept
  <2>2. Consistent(t) /\ BackedUp(t, {})
    BY <1>3, <1>5 DEF Consistent, BackedUp
  <2>. QED BY <1>4, <2>1, <2>2 DEF SessionOK, Consistent, BackedUp, work
<1>7. TornIsNamed'
  <2>1. \A f \in Files : bytes[f] # Torn
    BY <1>2, PartialAssumption DEF IInv, TornIsNamed
  <2>. QED BY <1>4, <2>1 DEF TornIsNamed, work
<1>. QED BY <1>2, <1>4, <1>6, <1>7, AfterRelease, RestWhenSaving

\* A session is cancelled only while nobody is inside a handler.
LEMMA CancelStep ==
  ASSUME IInv, NEW c \in Clients, Cancel(c), TypeOK'
  PROVE  Handlers' /\ Rest'
<1>1. /\ gate = None /\ HasSession /\ session.applying = None /\ session' = None
      /\ UNCHANGED <<work, backups, gate, sgate, pc, locals, late, lost, last>>
  BY DEF Cancel, Interrupted
<1>2. Handlers'
  BY <1>1, GateFree DEF Handlers
<1>3. SessionOK'
  BY <1>1 DEF SessionOK, HasSession
<1>4. TornIsNamed'
  <2>1. \A f \in Files : bytes[f] # Torn
    BY <1>1, PartialAssumption DEF IInv, TornIsNamed
  <2>. QED BY <1>1, <2>1 DEF TornIsNamed, work
<1>. QED BY <1>1, <1>2, <1>3, <1>4, RestWhenSaving

-----------------------------------------------------------------------------
(* Undoing and checking in *)

\* An undo loads the session it will retire.
LEMMA UndoOpenStep ==
  ASSUME IInv, NEW c \in Clients, UndoOpen(c), TypeOK'
  PROVE  Handlers' /\ Rest'
<1>1. PICK fs \in Scopes : UndoBegins(c, fs)
  BY DEF UndoOpen
<1>2. /\ gate = None /\ Goto(c, "undo_native") /\ gate' = c /\ sgate' = c /\ session # Torn
      /\ UNCHANGED <<work, session, backups, late, lost, last>>
  BY <1>1 DEF UndoBegins, Acquire
<1>3. \A d \in Clients \ {c} : pc[d] = "idle"
  BY <1>2, GateFree
<1>4. pc'[c] = "undo_native" /\ mem'[c] = session
  BY <1>1, <1>2 DEF UndoBegins, Goto, IInv, TypeOK
<1>5. HandlerOK(c)'
  BY <1>2, <1>4 DEF HandlerOK, Copying, Resolving
<1>6. Rest'
  BY <1>2, RestWhenReading
<1>. QED BY <1>2, <1>3, <1>5, <1>6, AfterGoto

\* Files that are reverted are not torn.
LEMMA RevertedWhole ==
  ASSUME IInv, NEW fs
  PROVE  \A f \in Files : Reverted(fs)[f] # Torn \/ Reverted(fs)[f] = bytes[f]
BY PartialAssumption DEF Reverted, IInv, TypeOK

\* A handler of the guard goes on with what it has loaded.
LEMMA StaysGuarding ==
  ASSUME IInv, NEW c \in Clients, pc[c] \in {"undo_native", "checkin_native"},
         mem[c] # None, Goto(c, "retire"), UNCHANGED <<session, gate, sgate, locals>>
  PROVE  Handlers'
<1>1. pc[c] # "idle" /\ pc[c] \notin Copying
  BY DEF Copying
<1>2. HandlerOK(c) /\ (\A d \in Clients \ {c} : pc[d] = "idle") /\ mem[c] \in Session
  BY <1>1, OnlyOne DEF IInv, TypeOK
<1>3. pc'[c] = "retire"
  BY DEF Goto, IInv, TypeOK
<1>4. HandlerOK(c)'
  BY <1>1, <1>2, <1>3 DEF HandlerOK, Copying, Resolving, locals
<1>. QED BY <1>2, <1>4, AfterGoto

\* The native undo tears nothing, whether it works or not.
LEMMA UndoStep ==
  ASSUME IInv, NEW c \in Clients, UndoFails(c) \/ UndoWorks(c), TypeOK'
  PROVE  Handlers' /\ Rest'
<1>1. pc[c] = "undo_native" /\ pc[c] # "idle"
  BY DEF UndoFails, UndoWorks
<1>2. \A d \in Clients \ {c} : pc[d] = "idle"
  BY <1>1, OnlyOne
<1>3. UNCHANGED <<head, loaded, session, backups, late, lost, last>>
  BY DEF UndoFails, UndoWorks
<1>4. \A f \in Files : bytes'[f] # Torn \/ bytes'[f] = bytes[f]
  BY RevertedWhole DEF UndoFails, UndoWorks
<1>5. Rest'
  <2>1. EditsSurvive'
    BY <1>3 DEF IInv, EditsSurvive
  <2>. QED BY <1>3, <1>4, <2>1, RestWhenWriting
<1>6. CASE Release(c)
  BY <1>2, <1>5, <1>6, AfterRelease
<1>7. CASE mem[c] # None /\ Goto(c, "retire") /\ UNCHANGED <<gate, sgate, locals>>
  BY <1>1, <1>3, <1>5, <1>7, StaysGuarding
<1>. QED BY <1>6, <1>7 DEF UndoFails, UndoWorks

\* What the guard asks of the session holds when it goes on.
LEMMA CheckinOpenStep ==
  ASSUME IInv, NEW c \in Clients, CheckinOpen(c), TypeOK'
  PROVE  Handlers' /\ Rest'
<1>1. /\ gate = None /\ Goto(c, "checkin_native") /\ gate' = c /\ sgate' = c /\ session # Torn
      /\ UNCHANGED <<work, session, backups, late, lost, last>>
  BY DEF CheckinOpen, Acquire
<1>2. \A d \in Clients \ {c} : pc[d] = "idle"
  BY <1>1, GateFree
<1>3. pc'[c] = "checkin_native" /\ mem'[c] = session
  BY <1>1 DEF CheckinOpen, Goto, IInv, TypeOK
<1>4. session # None => ~Interrupted(session) /\ session.conflicts \subseteq session.resolved
  BY <1>1 DEF CheckinOpen, CheckinAllowed, HasSession
<1>5. HandlerOK(c)'
  BY <1>1, <1>3, <1>4 DEF HandlerOK, Copying, Resolving, Interrupted
<1>6. Rest'
  BY <1>1, RestWhenReading
<1>. QED BY <1>1, <1>2, <1>5, <1>6, AfterGoto

\* A publication advances revisions and tears nothing.
LEMMA PublishRest ==
  ASSUME IInv, NEW fs \in SUBSET Files, NEW how, Publish(fs, how), TypeOK',
         how = "guarded" => last'.whole,
         UNCHANGED <<session, backups, late, lost>>
  PROVE  Rest'
<1>1. \A f \in Files : /\ head[f] \in Nat /\ loaded[f] \in Nat
                       /\ head[f] <= head'[f] /\ loaded[f] <= loaded'[f]
                       /\ head'[f] \in Nat /\ loaded'[f] \in Nat
  <2>1. TAKE f \in Files
  <2>2. head[f] \in Nat /\ loaded[f] \in Nat /\ head'[f] \in Nat /\ loaded'[f] \in Nat
    BY PartialAssumption DEF IInv, TypeOK, Revisions
  <2>3. /\ head'[f] = IF f \in fs \cap Pending THEN head[f] + 1 ELSE head[f]
        /\ loaded'[f] = IF f \in fs \cap Pending THEN head[f] + 1 ELSE loaded[f]
    BY DEF Publish
  <2>4. loaded[f] <= head[f]
    BY DEF IInv, LoadedIsPublished
  <2>. QED BY <2>2, <2>3, <2>4
<1>2. SessionOK'
  <2>1. HasSession' => HasSession /\ session \in Session
    BY DEF HasSession, IInv, TypeOK
  <2>2. session \in Session => session.resolved \subseteq Files /\ session.incoming \in [Files -> Nat]
    BY PartialAssumption DEF Session, Revisions
  <2>3. HasSession => Consistent(session) /\ BackedUp(session, {})
    BY DEF IInv, SessionOK
  <2>4. HasSession => \A f \in Files : session.incoming[f] <= head'[f]
    <3>1. SUFFICES ASSUME HasSession, NEW f \in Files PROVE session.incoming[f] <= head'[f]
      OBVIOUS
    <3>2. session.incoming[f] \in Nat /\ session.incoming[f] <= head[f]
      BY <2>2, <2>3, <3>1 DEF Consistent, HasSession, IInv, TypeOK
    <3>. QED BY <1>1, <3>2
  <2>5. HasSession => \A f \in session.resolved : session.incoming[f] <= loaded'[f]
    <3>1. SUFFICES ASSUME HasSession, NEW f \in session.resolved PROVE session.incoming[f] <= loaded'[f]
      OBVIOUS
    <3>2. f \in Files /\ session.incoming[f] \in Nat
      BY <2>2, <3>1 DEF HasSession, IInv, TypeOK
    <3>3. session.incoming[f] <= loaded[f]
      BY <2>3, <3>1 DEF Consistent
    <3>. QED BY <1>1, <3>2, <3>3
  <2>. QED BY <2>1, <2>3, <2>4, <2>5 DEF SessionOK, Consistent, BackedUp
<1>3. TornIsNamed'
  <2>1. \A f \in fs \cap Pending : head[f] + 1 # Torn
    <3>1. TAKE f \in fs \cap Pending
    <3>2. head[f] + 1 \in Revisions
      BY PartialAssumption DEF Publish, IInv, TypeOK, Revisions
    <3>. QED BY <3>2, PartialAssumption
  <2>2. \A f \in Files : bytes'[f] # Torn \/ bytes'[f] = bytes[f]
    BY <2>1 DEF Publish
  <2>. QED BY <2>2 DEF IInv, TornIsNamed, HasSession
<1>4. LoadedIsPublished'
  <2>1. SUFFICES ASSUME NEW f \in Files PROVE loaded'[f] <= head'[f]
    BY DEF LoadedIsPublished
  <2>2. CASE f \in fs \cap Pending
    <3>1. loaded'[f] = head'[f]
      BY <2>2 DEF Publish
    <3>. QED BY <1>1, <3>1
  <2>3. CASE f \notin fs \cap Pending
    BY <2>3 DEF Publish, IInv, LoadedIsPublished
  <2>. QED BY <2>2, <2>3
<1>5. GuardedCheckinReviewed' /\ EditsSurvive'
  BY DEF Publish, IInv, GuardedCheckinReviewed, EditsSurvive
<1>. QED BY <1>2, <1>3, <1>4, <1>5 DEF Rest

\* It still holds when `cm partial checkin` runs.
LEMMA CheckinNativeStep ==
  ASSUME IInv, NEW c \in Clients, CheckinNative(c), TypeOK'
  PROVE  Handlers' /\ Rest'
<1>1. pc[c] = "checkin_native" /\ pc[c] # "idle" /\ pc[c] \notin Copying
  BY DEF CheckinNative, Copying
<1>2. /\ \A d \in Clients \ {c} : pc[d] = "idle"
      /\ session = mem[c]
      /\ HasSession => ~Interrupted(session) /\ session.conflicts \subseteq session.resolved
  BY <1>1, OnlyOne DEF HandlerOK, HasSession
<1>3. UNCHANGED <<session, backups, late, lost, faults>>
  BY DEF CheckinNative
<1>4. CASE Release(c) /\ UNCHANGED <<work, last>>
  BY <1>2, <1>3, <1>4, AfterRelease, RestWhenReading
<1>5. CASE Publish(scope[c], "guarded")
  <2>1. \A f \in Files : bytes[f] # Torn
    BY <1>2, PartialAssumption DEF IInv, TornIsNamed, Interrupted
  <2>2. scope[c] \in SUBSET Files
    BY DEF IInv, TypeOK
  <2>3. last'.whole
    BY <1>2, <1>5, <2>1, <2>2 DEF Publish
  <2>4. Rest'
    BY <1>3, <1>5, <2>2, <2>3, PublishRest
  <2>5. CASE Release(c)
    BY <1>2, <2>4, <2>5, AfterRelease
  <2>6. CASE mem[c] # None /\ Goto(c, "retire") /\ UNCHANGED <<gate, sgate, locals>>
    BY <1>1, <1>3, <2>4, <2>6, StaysGuarding
  <2>. QED BY <1>4, <2>5, <2>6 DEF CheckinNative
<1>. QED BY <1>4, <1>5 DEF CheckinNative

\* Retirement keeps the mark of a file that is still torn.
LEMMA RetireStep ==
  ASSUME IInv, NEW c \in Clients, Retire(c), TypeOK'
  PROVE  Handlers' /\ Rest'
<1> DEFINE t == [mem[c] EXCEPT !.conflicts = @ \ Done(c), !.resolved = @ \ Done(c),
                               !.applying = IF @ \in Done(c) THEN None ELSE @]
<1>1. pc[c] = "retire" /\ pc[c] # "idle" /\ pc[c] \notin Copying
  BY DEF Retire, Copying
<1>2. /\ \A d \in Clients \ {c} : pc[d] = "idle"
      /\ session = mem[c] /\ mem[c] \in Session
  BY <1>1, OnlyOne DEF HandlerOK
<1>3. HasSession /\ Consistent(mem[c]) /\ BackedUp(mem[c], {})
  BY <1>2, NoSessionAssumption DEF HasSession, IInv, SessionOK
<1>4. UNCHANGED <<work, backups, late, lost, last>> /\ Release(c) /\ session' = Kept(t)
  BY DEF Retire
<1>5. /\ t.conflicts = mem[c].conflicts \ Done(c) /\ t.resolved = mem[c].resolved \ Done(c)
      /\ t.applying = IF mem[c].applying \in Done(c) THEN None ELSE mem[c].applying
      /\ t.incoming = mem[c].incoming /\ t.hash = mem[c].hash
  BY <1>2 DEF Session
<1>6. t \in Session /\ Done(c) \subseteq Files /\ Done(c) \cap Pending = {}
  <2>1. Done(c) \in SUBSET Files
    BY <1>2 DEF Done, Session
  <2>2. t \in Session
    BY <1>2, <2>1, Reduced
  <2>. QED BY <2>1, <2>2 DEF Done
<1> HIDE DEF t
<1>7. SessionOK'
  <2>1. HasSession' => session' = t
    BY <1>4 DEF HasSession, Kept
  <2>2. Consistent(t) /\ BackedUp(t, {})
    BY <1>3, <1>5 DEF Consistent, BackedUp
  <2>. QED BY <1>4, <2>1, <2>2 DEF SessionOK, Consistent, BackedUp, work
<1>8. TornIsNamed'
  <2>1. SUFFICES ASSUME NEW f \in Files, bytes[f] = Torn PROVE HasSession' /\ session'.applying = f
    BY <1>4 DEF TornIsNamed, work
  <2>2. mem[c].applying = f /\ f # None
    BY <1>2, <2>1, PartialAssumption DEF IInv, TornIsNamed
  <2>3. f \in Pending
    BY <2>1, PartialAssumption DEF Pending, IInv, TypeOK
  <2>4. t.applying = f /\ f \in t.conflicts
    BY <1>3, <1>5, <1>6, <2>2, <2>3 DEF Consistent
  <2>5. session' = t
    BY <1>4, <2>4 DEF Kept
  <2>. QED BY <1>6, <2>4, <2>5, NoSessionAssumption DEF HasSession
<1>. QED BY <1>2, <1>4, <1>7, <1>8, AfterRelease, RestWhenSaving

\* The fast check-in runs while nobody is inside a handler.
LEMMA FastCheckinStep ==
  ASSUME IInv, NEW c \in Clients, FastCheckin(c), TypeOK'
  PROVE  Handlers' /\ Rest'
<1>1. PICK fs \in Scopes : Publish(fs, "fast")
  BY DEF FastCheckin
<1>2. sgate = None /\ UNCHANGED <<session, backups, gate, sgate, pc, locals, late, lost>> /\ fs \in SUBSET Files
  BY DEF FastCheckin, Scopes
<1>3. Handlers'
  BY <1>2, GateFree DEF Handlers
<1>4. Rest'
  BY <1>1, <1>2, PublishRest
<1>. QED BY <1>3, <1>4

\* So does an update.
LEMMA UpdateStep ==
  ASSUME IInv, NEW c \in Clients, Update(c), TypeOK'
  PROVE  Handlers' /\ Rest'
<1>1. /\ sgate = None
      /\ UNCHANGED <<head, config, session, backups, gate, sgate, pc, locals, late, lost, last>>
      /\ loaded' = [f \in Files |-> IF f \in Pending THEN loaded[f] ELSE head[f]]
      /\ bytes' = [f \in Files |-> IF f \in Pending THEN bytes[f] ELSE head[f]]
  BY DEF Update
<1>2. Handlers'
  BY <1>1, GateFree DEF Handlers
<1>3. \A f \in Files : loaded[f] <= loaded'[f] /\ loaded'[f] <= head[f] /\ head[f] \in Nat /\ loaded[f] \in Nat
  BY <1>1, PartialAssumption DEF IInv, TypeOK, LoadedIsPublished, Revisions
<1>4. SessionOK'
  <2>1. HasSession' => HasSession /\ session \in Session
    BY <1>1 DEF HasSession, IInv, TypeOK
  <2>2. HasSession => \A f \in session.resolved : session.incoming[f] <= loaded'[f]
    <3>1. SUFFICES ASSUME HasSession, NEW f \in session.resolved PROVE session.incoming[f] <= loaded'[f]
      OBVIOUS
    <3>2. f \in Files /\ session.incoming[f] \in Nat
      BY <3>1, PartialAssumption DEF HasSession, IInv, TypeOK, Session, Revisions
    <3>3. session.incoming[f] <= loaded[f]
      BY <3>1 DEF IInv, SessionOK, Consistent
    <3>4. loaded'[f] \in Nat
      BY <1>1, <1>3, <3>2
    <3>. QED BY <1>3, <3>2, <3>3, <3>4
  <2>. QED BY <1>1, <2>1, <2>2 DEF IInv, SessionOK, Consistent, BackedUp
<1>5. TornIsNamed'
  <2>1. \A f \in Files : bytes'[f] # Torn \/ bytes'[f] = bytes[f]
    BY <1>1, PartialAssumption DEF IInv, TypeOK
  <2>. QED BY <1>1, <2>1 DEF IInv, TornIsNamed, HasSession
<1>6. LoadedIsPublished' /\ GuardedCheckinReviewed' /\ EditsSurvive'
  BY <1>1, <1>3 DEF LoadedIsPublished, IInv, GuardedCheckinReviewed, EditsSurvive
<1>. QED BY <1>2, <1>4, <1>5, <1>6 DEF Rest

-----------------------------------------------------------------------------
(* Crashes, other programs and other people *)

\* A program that leaves the gates and the sessions alone disturbs a handler
\* only through the bytes it is about to undo.
LEMMA HandlersFrame ==
  ASSUME IInv, UNCHANGED <<session, gate, sgate, pc, locals, loaded, backups>>,
         late \subseteq late',
         \A f \in Files : head[f] <= head'[f] /\ head'[f] \in Nat,
         \A f \in Files : \/ bytes'[f] = bytes[f]
                          \/ bytes'[f] \notin Edits
                          \/ \A c \in Clients : pc[c] = "resolve_undo" => f \notin scope[c] \/ f \in late'
  PROVE  Handlers'
<1>1. SUFFICES ASSUME NEW c \in Clients, pc[c] # "idle" PROVE HandlerOK(c)'
  BY DEF Handlers
<1>2. HandlerOK(c)
  BY <1>1 DEF IInv, Handlers
<1>3. CopyingOK(c) => CopyingOK(c)'
  <2>1. SUFFICES ASSUME CopyingOK(c) PROVE CopyingOK(c)'
    OBVIOUS
  <2>2. mem[c] \in Session /\ mem[c].incoming \in [Files -> Nat]
    BY <2>1, PartialAssumption DEF CopyingOK, Session, Revisions
  <2>3. Consistent(mem[c])'
    <3>1. \A f \in Files : mem[c].incoming[f] <= head'[f]
      <4>1. TAKE f \in Files
      <4>2. mem[c].incoming[f] \in Nat /\ mem[c].incoming[f] <= head[f] /\ head[f] \in Nat
        BY <2>1, <2>2, PartialAssumption DEF CopyingOK, Consistent, IInv, TypeOK, Revisions
      <4>. QED BY <4>2
    <3>. QED BY <2>1, <3>1 DEF CopyingOK, Consistent, locals
  <2>. QED BY <2>1, <2>3 DEF CopyingOK, BackedUp, HasSession, Interrupted, locals
<1>4. ResolvingOK(c) => ResolvingOK(c)'
  BY DEF ResolvingOK, locals
<1>. QED BY <1>2, <1>3, <1>4 DEF HandlerOK, Interrupted, locals

\* A crash or another program leaves the session consistent.
LEMMA FaultStep ==
  ASSUME IInv, Fault, TypeOK'
  PROVE  Handlers' /\ Rest'
<1>1. ASSUME NEW c \in Clients, Crash(c) PROVE Handlers' /\ Rest'
  <2>1. \A d \in Clients \ {c} : pc[d] = "idle"
    BY <1>1, OnlyOne DEF Crash
  <2>. QED BY <1>1, <2>1, AfterRelease, RestWhenReading DEF Crash
<1>2. ASSUME NEW c \in Clients, CrashWriting(c) PROVE Handlers' /\ Rest'
  <2>1. UNCHANGED <<head, loaded, config, backups, late, lost, last>> /\ Release(c)
    BY <1>2 DEF CrashWriting
  <2>2. CASE pc[c] = "prepare_index" /\ session' = Torn /\ UNCHANGED bytes
    <3>1. pc[c] # "idle" /\ pc[c] \in Copying
      BY <2>2 DEF Copying
    <3>2. CopyingOK(c) /\ \A d \in Clients \ {c} : pc[d] = "idle"
      BY <3>1, OnlyOne DEF HandlerOK
    <3>3. SessionOK'
      BY <2>2 DEF SessionOK, HasSession
    <3>4. TornIsNamed'
      BY <2>2, <3>2, PrepareTearsNothing DEF TornIsNamed
    <3>. QED BY <2>1, <2>2, <3>2, <3>3, <3>4, AfterRelease, RestWhenSaving DEF work
  <2>3. CASE pc[c] = "resolve_write" /\ bytes' = [bytes EXCEPT ![File(c)] = Torn] /\ UNCHANGED session
    <3>1. pc[c] \in Resolving
      BY <2>3 DEF Resolving
    <3>2. /\ \A d \in Clients \ {c} : pc[d] = "idle"
          /\ session = mem[c] /\ HasSession /\ mem[c].applying = File(c) /\ File(c) \in Files
      BY <2>3, <3>1, Inside
    <3>3. SessionOK'
      BY <2>1, <2>3 DEF IInv, SessionOK, HasSession, Consistent, BackedUp
    <3>4. TornIsNamed'
      BY <2>3, <3>2 DEF IInv, TornIsNamed, HasSession, TypeOK
    <3>5. LoadedIsPublished' /\ GuardedCheckinReviewed' /\ EditsSurvive'
      BY <2>1 DEF IInv, LoadedIsPublished, GuardedCheckinReviewed, EditsSurvive
    <3>. QED BY <2>1, <3>2, <3>3, <3>4, <3>5, AfterRelease DEF Rest
  <2>. QED BY <1>2, <2>2, <2>3 DEF CrashWriting
<1>3. \A f \in Files : head[f] <= head[f] /\ head[f] \in Nat
  BY PartialAssumption DEF IInv, TypeOK, Revisions
<1>4. ASSUME NEW f \in Files, NEW e \in Edits, Edit(f, e) PROVE Handlers' /\ Rest'
  <2>1. UNCHANGED <<head, loaded, config, session, backups, gate, sgate, pc, locals, lost, last>>
    BY <1>4 DEF Edit
  <2>2. \A g \in Files : bytes'[g] = IF g = f THEN e ELSE bytes[g]
    BY <1>4 DEF Edit, IInv, TypeOK
  <2>3. Handlers'
    <3>1. late \subseteq late' /\ \A c \in Clients : pc[c] = "resolve_undo" => f \notin scope[c] \/ f \in late'
      BY <1>4 DEF Edit
    <3>. QED BY <1>3, <2>1, <2>2, <3>1, HandlersFrame
  <2>4. e # Torn
    BY PartialAssumption
  <2>5. Rest'
    <3>1. EditsSurvive'
      BY <2>1 DEF IInv, EditsSurvive
    <3>. QED BY <2>1, <2>2, <2>4, <3>1, RestWhenWriting
  <2>. QED BY <2>3, <2>5
<1>5. ASSUME NEW f \in Files, ForeignUndo(f) PROVE Handlers' /\ Rest'
  <2>1. UNCHANGED <<head, loaded, config, session, backups, gate, sgate, pc, locals, late, lost, last>>
    BY <1>5 DEF ForeignUndo
  <2>2. \A g \in Files : bytes'[g] = bytes[g] \/ bytes'[g] \in Revisions
    BY <1>5 DEF ForeignUndo, Reverted, IInv, TypeOK
  <2>3. \A g \in Files : bytes'[g] = bytes[g] \/ (bytes'[g] \notin Edits /\ bytes'[g] # Torn)
    BY <2>2, PartialAssumption
  <2>4. EditsSurvive'
    BY <2>1 DEF IInv, EditsSurvive
  <2>. QED BY <1>3, <2>1, <2>3, <2>4, HandlersFrame, RestWhenWriting
<1>6. ASSUME ForeignConfigure PROVE Handlers' /\ Rest'
  <2>1. UNCHANGED <<head, loaded, bytes, session, backups, gate, sgate, pc, locals, late, lost, last>>
    BY <1>6 DEF ForeignConfigure
  <2>2. EditsSurvive'
    BY <2>1 DEF IInv, EditsSurvive
  <2>. QED BY <1>3, <2>1, <2>2, HandlersFrame, RestWhenWriting
<1>. QED BY <1>1, <1>2, <1>4, <1>5, <1>6 DEF Fault

\* A new revision on the branch does too.
LEMMA ArriveStep ==
  ASSUME IInv, NEW f \in Files, Arrive(f), TypeOK'
  PROVE  Handlers' /\ Rest'
<1>1. UNCHANGED <<loaded, bytes, config, session, backups, gate, sgate, pc, locals, late, lost, last>>
  BY DEF Arrive
<1>2. \A g \in Files : /\ head[g] \in Nat /\ head'[g] \in Nat /\ head[g] <= head'[g]
                       /\ loaded[g] \in Nat
  BY PartialAssumption DEF Arrive, IInv, TypeOK, Revisions
<1>3. Handlers'
  BY <1>1, <1>2, HandlersFrame
<1>4. SessionOK'
  <2>1. HasSession' => HasSession /\ session \in Session
    BY <1>1 DEF HasSession, IInv, TypeOK
  <2>2. HasSession => \A g \in Files : session.incoming[g] <= head'[g]
    <3>1. SUFFICES ASSUME HasSession, NEW g \in Files PROVE session.incoming[g] <= head'[g]
      OBVIOUS
    <3>2. session.incoming[g] \in Nat /\ session.incoming[g] <= head[g]
      BY <3>1, PartialAssumption DEF HasSession, IInv, TypeOK, Session, Revisions, SessionOK, Consistent
    <3>. QED BY <1>2, <3>2
  <2>. QED BY <1>1, <2>1, <2>2 DEF IInv, SessionOK, Consistent, BackedUp
<1>5. LoadedIsPublished'
  BY <1>1, <1>2 DEF IInv, LoadedIsPublished
<1>6. TornIsNamed' /\ GuardedCheckinReviewed' /\ EditsSurvive'
  BY <1>1 DEF IInv, TornIsNamed, HasSession, GuardedCheckinReviewed, EditsSurvive
<1>. QED BY <1>3, <1>4, <1>5, <1>6 DEF Rest

-----------------------------------------------------------------------------
(* Theorems *)

\* The invariant holds before anything has happened.
LEMMA InitInv == Init => IInv
<1> SUFFICES ASSUME Init PROVE IInv
  OBVIOUS
<1>1. 0 \in Revisions /\ 0 \in 0..MaxFaults
  BY PartialAssumption DEF Revisions
<1>2. TypeOK
  BY <1>1 DEF Init, TypeOK, Content, Configurations, PCs
<1>3. ~HasSession
  BY DEF Init, HasSession
<1>4. \A f \in Files : bytes[f] # Torn /\ loaded[f] <= head[f]
  BY <1>1, PartialAssumption DEF Init
<1>. QED BY <1>2, <1>3, <1>4
     DEF Init, IInv, Handlers, SessionOK, TornIsNamed, LoadedIsPublished, GuardedCheckinReviewed, EditsSurvive

\* Every step keeps it.
LEMMA StepInv == IInv /\ [Next]_vars => IInv'
<1> SUFFICES ASSUME IInv, [Next]_vars PROVE IInv'
  OBVIOUS
<1>1. TypeOK'
  BY TypeStep
<1>2. Handlers' /\ Rest'
  <2>1. CASE UNCHANGED vars
    <3>1. UNCHANGED <<session, gate, sgate, pc, locals, work, backups, late, lost, last>>
      BY <2>1 DEF vars, locals, work
    <3>2. \A f \in Files : head[f] <= head'[f] /\ head'[f] \in Nat
      BY <3>1, PartialAssumption DEF work, IInv, TypeOK, Revisions
    <3>. QED BY <3>1, <3>2, HandlersFrame, RestWhenReading DEF work
  <2>2. ASSUME NEW c \in Clients, Start(c) PROVE Handlers' /\ Rest'
    BY <1>1, <2>2, PrepareOpenStep, ResolveOpenStep, CancelStep, UndoOpenStep, CheckinOpenStep,
       FastCheckinStep, UpdateStep DEF Start
  <2>3. ASSUME NEW c \in Clients, Continue(c) PROVE Handlers' /\ Rest'
    BY <1>1, <2>3, PrepareCopyStep, PrepareSaveStep, PrepareIndexStep, ResolveMarkStep,
       ResolveCheckStep, ResolveUndoStep, ResolveUpdateStep, ResolveWriteStep, ResolveVerifyStep,
       ResolveDetachStep, UndoStep, CheckinNativeStep, RetireStep DEF Continue
  <2>. QED BY <1>1, <2>1, <2>2, <2>3, FaultStep, ArriveStep DEF Next
<1>. QED BY <1>1, <1>2 DEF IInv, Rest

\* The inductive invariant behind the theorems below.
LEMMA Invariance == Spec => []IInv
BY InitInv, StepInv, PTL DEF Spec

\* Nothing the program writes or holds leaves its type.
THEOREM TypeCorrect == Spec => []TypeOK
<1>1. IInv => TypeOK
  BY DEF IInv
<1>. QED BY <1>1, Invariance, PTL

\* What a handler that holds both gates has loaded is the session on disk: no
\* other client replaces, cancels or detaches it meanwhile.
THEOREM LoadedStaysSaved == Spec => []LoadedIsSaved
<1>1. IInv => LoadedIsSaved
  BY DEF IInv, Handlers, HandlerOK, LoadedIsSaved
<1>. QED BY <1>1, Invariance, PTL

\* A check-in that the guard let through publishes no half written file and
\* nothing undecided, whatever was interrupted before.
THEOREM GuardReviewsCheckin == Spec => []GuardedCheckinReviewed
<1>1. IInv => GuardedCheckinReviewed
  BY DEF IInv
<1>. QED BY <1>1, Invariance, PTL

\* An interrupted session names a file it lists and whose local bytes are among
\* the backups, so that undoing this file is a way out that loses nothing.
THEOREM InterruptionRecovers == Spec => []InterruptionIsRecoverable
<1>1. IInv => InterruptionIsRecoverable
  BY DEF IInv, SessionOK, Consistent, BackedUp, Interrupted, InterruptionIsRecoverable
<1>. QED BY <1>1, Invariance, PTL

\* A resolved file is based on the revision that was reviewed or a later one.
THEOREM ResolvedStaysOnIncoming == Spec => []ResolvedIsOnIncoming
<1>1. IInv => ResolvedIsOnIncoming
  <2>1. SUFFICES ASSUME IInv, HasSession, NEW f \in session.resolved
                 PROVE  loaded[f] >= session.incoming[f]
    BY DEF ResolvedIsOnIncoming
  <2>2. f \in Files /\ session.incoming[f] \in Nat /\ loaded[f] \in Nat
    BY <2>1, PartialAssumption DEF HasSession, IInv, TypeOK, Session, Revisions
  <2>3. session.incoming[f] <= loaded[f]
    BY <2>1 DEF IInv, SessionOK, Consistent
  <2>. QED BY <2>2, <2>3
<1>. QED BY <1>1, Invariance, PTL

\* Whatever editors save and whenever they do, a resolution takes away no bytes
\* without a copy but those saved after its last comparison.
THEOREM NoEditIsDestroyed == Spec => []EditsSurvive
<1>1. IInv => EditsSurvive
  BY DEF IInv
<1>. QED BY <1>1, Invariance, PTL
=============================================================================
