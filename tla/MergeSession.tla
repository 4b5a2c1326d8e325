----------------------------- MODULE MergeSession -----------------------------
(***************************************************************************)
(* The persistent merge session of a Standard workspace and the guard that *)
(* check-in and undo pass through (Core/PlasticMergeOperations.cs,         *)
(* PlasticDirectoryMerges.cs, PlasticWorkspaceRollback.cs, the fast        *)
(* check-in of PlasticCheckinPreflight.cs and MainForm.CheckinAsync).      *)
(*                                                                         *)
(* Clients are TortoiseSCM processes with the same settings: windows and   *)
(* command lines.  A handler is split where it awaits the native client or *)
(* where another program can act between two of its effects.  A handler    *)
(* that refuses (throws before it changed anything) leaves every variable  *)
(* unchanged and is therefore no step.                                     *)
(***************************************************************************)
EXTENDS NativeWorkspace

CONSTANTS
  Clients,         \* TortoiseSCM processes
  NoSession,       \* the index file does not exist
  Torn,            \* the index file exists but holds no session identifier
  None,            \* no client, no file, no hash
  MaxFaults        \* bound: crashes and steps of other programs

\* A session file (MergeSessionState).
SavedSession ==
  [source : Sources, dst : 0..MaxChangesets,
   ready : BOOLEAN, applying : BOOLEAN, rollback : BOOLEAN, awaiting : BOOLEAN,
   resolved : SUBSET Files, hash : [Files -> Content \cup {None}],
   todo : SUBSET Items, fingerprint : [Files -> Content],
   mark : Sources \cup {NoMerge, RollbackMark}]

ASSUME SessionAssumption ==
  /\ None \notin Clients \cup Files \cup Content
  /\ NoSession \notin SavedSession \cup {Torn} /\ Torn \notin SavedSession
  /\ Edits \cap (Results \cup {Original}) = {}
  /\ MaxFaults \in Nat

VARIABLES
  session,  \* what the index points at: a saved session, NoSession or Torn
  marker,   \* .plastic/tortoisescm-directory.session: none, own or stale
  backup,   \* backup-<key> files of the session
  gate,     \* holder of the merge gate
  sgate,    \* holder of the structure gate
  pc,       \* where each client is
  mem,      \* the session each client has loaded
  target,   \* the file each client works on (None: the workspace root)
  result,   \* the result bytes each client applies
  settled,  \* history: files whose merge a person or Plastic has decided
  ours,     \* history: the merge in progress was started by TortoiseSCM
  late,     \* history: files saved after the comparison that a write relies on
  lost,     \* history: bytes of an editor overwritten with no copy: seen or late
  last,     \* history: the last publication
  faults    \* history: faults so far

store == <<session, marker, backup>>
locals == <<mem, target, result>>
history == <<settled, ours, late, lost, last>>
vars == <<native, store, gate, sgate, pc, locals, history, faults>>

PCs == {"idle",
        "begin_checked", "begin_native", "begin_finish",
        "plan_checked", "plan_mark", "plan_finish",
        "decide_native", "continue_native", "continue_finish",
        "apply_open", "apply_marked", "apply_checked", "apply_native",
        "apply_verify", "apply_restore", "apply_copyback",
        "rollback_checked", "rollback_native", "rollback_finish",
        "undo_free", "undo_gated", "checkin_free", "checkin_gated",
        "retire", "retire_marker", "retire_then_checkin", "fast_review"}

StoreTypeOK ==
  /\ session \in SavedSession \cup {NoSession, Torn}
  /\ marker \in {"none", "own", "stale"}
  /\ backup \in [Files -> Content \cup {None}]

ControlTypeOK ==
  /\ gate \in Clients \cup {None}
  /\ sgate \in Clients \cup {None}
  /\ pc \in [Clients -> PCs]
  /\ mem \in [Clients -> SavedSession \cup {NoSession}]
  /\ target \in [Clients -> Files \cup {None}]
  /\ result \in [Clients -> Results \cup {None}]

HistoryTypeOK ==
  /\ settled \subseteq Files
  /\ ours \in BOOLEAN
  /\ late \subseteq Files
  /\ lost \subseteq {"seen", "late"}
  /\ last \in [path : {"none", "free", "gated", "fast"}, whole : BOOLEAN]

TypeOK ==
  /\ NativeTypeOK /\ StoreTypeOK /\ ControlTypeOK /\ HistoryTypeOK
  /\ faults \in 0..MaxFaults

Init ==
  /\ NativeInit
  /\ session = NoSession /\ marker = "none"
  /\ backup = [f \in Files |-> None]
  /\ gate = None /\ sgate = None
  /\ pc = [c \in Clients |-> "idle"]
  /\ mem = [c \in Clients |-> NoSession]
  /\ target = [c \in Clients |-> None]
  /\ result = [c \in Clients |-> None]
  /\ settled = Files /\ ours = FALSE /\ late = {} /\ lost = {}
  /\ last = [path |-> "none", whole |-> TRUE]
  /\ faults = 0

-----------------------------------------------------------------------------
(* Gates, the index and the marker *)

HasSession == session \notin {NoSession, Torn}

\* Variant: the lock file is opened for sharing.
IdleSharedGate(c) == pc[c] = "idle"

\* Opening a lock file that is open already fails at once: nobody waits.
Idle(c) == pc[c] = "idle" /\ gate = None

Goto(c, to) == pc' = [pc EXCEPT ![c] = to]

Release(c) ==
  /\ Goto(c, "idle")
  /\ gate' = IF gate = c THEN None ELSE gate
  /\ sgate' = IF sgate = c THEN None ELSE sgate
  /\ mem' = [mem EXCEPT ![c] = NoSession]
  /\ target' = [target EXCEPT ![c] = None]
  /\ result' = [result EXCEPT ![c] = None]

\* ValidateDirectoryMergeOwner: the marker names the session of the index.
OwnerOK == marker = "none" \/ (marker = "own" /\ HasSession)

\* A marker outlives the session it names when the index moves on.
Disown == IF marker = "none" THEN "none" ELSE "stale"

SaveState(c, s) ==
  /\ session' = s
  /\ mem' = [mem EXCEPT ![c] = s]

\* Variant: an unfinished application is forgotten.
ValidSessionNoApplying(s) ==
  /\ s.ready
  /\ changeset = s.dst
  /\ s.rollback => progress = s.mark
  /\ s.awaiting => Clean /\ bytes = s.fingerprint

\* ValidateMergeSessionAsync, with ValidateDirectoryPlanningWorkspaceAsync for
\* a directory plan.
ValidSession(s) ==
  /\ s.ready /\ ~s.applying
  /\ changeset = s.dst
  /\ s.rollback => progress = s.mark
  /\ s.awaiting => Clean /\ bytes = s.fingerprint

\* Variant: a merge that changed no bytes looks finished.
RetirableByStatus == OwnerOK /\ Pending = {} /\ ~(HasSession /\ session.awaiting)

\* RetireCompletedMergeAsync detaches a session only from a clean workspace.
Retirable == OwnerOK /\ Clean /\ ~(HasSession /\ session.awaiting)

NothingMerged == settled' = Files /\ ours' = FALSE

\* The index is deleted first and the marker after it.
DropIndex ==
  /\ session' = NoSession
  /\ marker' = Disown
  /\ IF Clean THEN NothingMerged ELSE UNCHANGED <<settled, ours>>

FreshSession(s) ==
  [source |-> s, dst |-> changeset, ready |-> FALSE, applying |-> FALSE,
   rollback |-> FALSE, awaiting |-> FALSE, resolved |-> {},
   hash |-> [f \in Files |-> None], todo |-> DirConflicts[s],
   fingerprint |-> bytes, mark |-> NoMerge]

-----------------------------------------------------------------------------
(* BeginMergeAsync *)

BeginOpen(c) ==
  /\ Idle(c)
  /\ OwnerOK
  /\ session # Torn
  /\ ~(HasSession /\ session.awaiting)
  /\ Clean
  /\ \E s \in Sources \ merged :
       /\ mem' = [mem EXCEPT ![c] = FreshSession(s)]
       /\ Goto(c, IF DirConflicts[s] = {} THEN "begin_checked" ELSE "plan_checked")
  /\ gate' = c
  /\ UNCHANGED <<native, store, sgate, target, result, history, faults>>

Unchanged(s) == Clean /\ changeset = s.dst /\ bytes = s.fingerprint

\* The second look at the workspace, then session.xml and the index.
BeginRecord(c) ==
  /\ pc[c] = "begin_checked"
  /\ IF Unchanged(mem[c])
     THEN /\ session' = mem[c]
          /\ marker' = Disown
          /\ backup' = [f \in Files |-> None]
          /\ NothingMerged
          /\ Goto(c, "begin_native")
          /\ UNCHANGED <<gate, sgate, locals>>
     ELSE Release(c) /\ UNCHANGED <<store, settled, ours>>
  /\ UNCHANGED <<native, late, lost, last, faults>>

\* A plan fingerprints the workspace again and records it without another look.
PlanRecord(c) ==
  /\ pc[c] = "plan_checked"
  /\ SaveState(c, [mem[c] EXCEPT !.awaiting = TRUE, !.fingerprint = bytes])
  /\ marker' = Disown
  /\ backup' = [f \in Files |-> None]
  /\ NothingMerged
  /\ Goto(c, "plan_mark")
  /\ UNCHANGED <<native, gate, sgate, target, result, late, lost, last, faults>>

PlanMark(c) ==
  /\ pc[c] = "plan_mark"
  /\ marker' = "own"
  /\ Goto(c, "plan_finish")
  /\ UNCHANGED <<native, session, backup, gate, sgate, locals, history, faults>>

\* The native planning call has returned (or failed, and nothing is saved).
PlanFinish(c) ==
  /\ pc[c] = "plan_finish"
  /\ \/ /\ bytes = mem[c].fingerprint
        /\ session' = [mem[c] EXCEPT !.ready = TRUE]
     \/ UNCHANGED session
  /\ Release(c)
  /\ UNCHANGED <<native, marker, backup, history, faults>>

\* The native merge of a new session or of an applied directory plan.
NativeMerge(c) ==
  LET s == mem[c].source IN
  /\ pc[c] \in {"begin_native", "continue_native"}
  /\ \/ /\ MergeDone(s)
        /\ settled' = Files \ FileConflicts[s] /\ ours' = TRUE
        /\ Goto(c, IF pc[c] = "begin_native" THEN "begin_finish" ELSE "continue_finish")
        /\ UNCHANGED <<gate, sgate, locals>>
     \/ MergeBroken(s) /\ Release(c) /\ settled' = {} /\ ours' = TRUE
     \/ Release(c) /\ UNCHANGED <<native, settled, ours>>
  /\ UNCHANGED <<store, late, lost, last, faults>>

\* Hashes and Resolved flags after the native merge; Ready is saved last.
BeginFinish(c) ==
  LET s == mem[c].source IN
  /\ pc[c] = "begin_finish"
  /\ session' = [mem[c] EXCEPT
       !.ready = TRUE,
       !.hash = [f \in Files |-> IF f \in FileConflicts[s] THEN bytes[f] ELSE None],
       !.resolved = FileConflicts[s] \ Preview(s)]
  /\ Release(c)
  /\ UNCHANGED <<native, marker, backup, history, faults>>

\* GetMergeSessionAsync: its only lasting effect is to retire a finished merge.
GetSession(c) ==
  /\ Idle(c)
  /\ HasSession /\ Retirable
  /\ DropIndex
  /\ gate' = c
  /\ Goto(c, "retire_marker")
  /\ UNCHANGED <<native, backup, sgate, locals, late, lost, last, faults>>

-----------------------------------------------------------------------------
(* Directory plans: ResolveDirectoryConflictAsync, ContinueMergeAsync,       *)
(* CancelDirectoryMergeAsync                                                 *)

DecideOpen(c) ==
  /\ Idle(c)
  /\ HasSession /\ session.awaiting /\ ~session.rollback
  /\ ValidSession(session)
  /\ session.todo # {}
  /\ gate' = c
  /\ SaveState(c, [session EXCEPT !.applying = TRUE])
  /\ Goto(c, "decide_native")
  /\ UNCHANGED <<native, marker, backup, sgate, target, result, history, faults>>

DecideFinish(c) ==
  /\ pc[c] = "decide_native"
  /\ \/ /\ bytes = mem[c].fingerprint
        /\ \E i \in mem[c].todo :
             session' = [mem[c] EXCEPT !.applying = FALSE, !.todo = @ \ {i}]
     \/ UNCHANGED session
  /\ Release(c)
  /\ UNCHANGED <<native, marker, backup, history, faults>>

ContinueOpen(c) ==
  /\ Idle(c)
  /\ HasSession /\ session.awaiting /\ ~session.rollback
  /\ ValidSession(session)
  /\ session.todo = {}
  /\ gate' = c
  /\ SaveState(c, [session EXCEPT !.ready = FALSE, !.awaiting = FALSE])
  /\ Goto(c, "continue_native")
  /\ UNCHANGED <<native, marker, backup, sgate, target, result, history, faults>>

ContinueFinish(c) ==
  LET s == mem[c].source
      open == Preview(s) IN
  /\ pc[c] = "continue_finish"
  /\ SaveState(c, [mem[c] EXCEPT
       !.ready = TRUE,
       !.hash = [f \in Files |-> IF f \in open THEN bytes[f] ELSE None],
       !.resolved = FileConflicts[s] \ open])
  /\ Goto(c, "retire_marker")
  /\ UNCHANGED <<native, marker, backup, gate, sgate, target, result, history, faults>>

CancelPlan(c) ==
  /\ Idle(c)
  /\ HasSession /\ session.awaiting
  /\ progress = NoMerge
  /\ session.applying \/ ~session.ready => bytes = session.fingerprint
  /\ DropIndex
  /\ gate' = c
  /\ Goto(c, "retire_marker")
  /\ UNCHANGED <<native, backup, sgate, locals, late, lost, last, faults>>

-----------------------------------------------------------------------------
(* ApplyMergeFileResolutionAsync *)

\* ValidateMergeConflictAsync
ApplyOpen(c) ==
  /\ Idle(c)
  /\ HasSession /\ ~session.rollback /\ ~session.awaiting
  /\ ValidSession(session)
  /\ \E f \in FileConflicts[session.source] \ session.resolved, r \in Results :
       /\ f \in Preview(session.source)
       /\ bytes[f] = session.hash[f]
       /\ target' = [target EXCEPT ![c] = f]
       /\ result' = [result EXCEPT ![c] = r]
  /\ gate' = c
  /\ mem' = [mem EXCEPT ![c] = session]
  /\ Goto(c, "apply_open")
  /\ UNCHANGED <<native, store, sgate, history, faults>>

\* Variant: the local file is not copied aside.
ApplyMarkNoBackup(c) ==
  /\ pc[c] = "apply_open"
  /\ SaveState(c, [mem[c] EXCEPT !.applying = TRUE])
  /\ Goto(c, "apply_marked")
  /\ UNCHANGED <<native, marker, backup, gate, sgate, target, result, history, faults>>

\* The local file is copied aside, then the session is marked Applying.
ApplyMark(c) ==
  /\ pc[c] = "apply_open"
  /\ backup' = [backup EXCEPT ![target[c]] = bytes[target[c]]]
  /\ SaveState(c, [mem[c] EXCEPT !.applying = TRUE])
  /\ Goto(c, "apply_marked")
  /\ UNCHANGED <<native, marker, gate, sgate, target, result, history, faults>>

\* A handler compares f with a hash and then relies on it.
Compares(f) == late' = late \ {f}

\* The hashes are compared once more; a mismatch, a changed result file or a
\* cancellation leaves the session Applying.
ApplyCheck(c) ==
  /\ pc[c] = "apply_marked"
  /\ \/ /\ bytes[target[c]] = mem[c].hash[target[c]]
        /\ Compares(target[c])
        /\ Goto(c, "apply_checked")
        /\ UNCHANGED <<gate, sgate, locals>>
     \/ Release(c) /\ UNCHANGED late
  /\ UNCHANGED <<native, store, settled, ours, lost, last, faults>>

\* Overwriting bytes of an editor loses them, unless they are in the backup or
\* in the loaded revision, or the session took them as the local contributor.
\* They were there to be seen by the comparison, or saved after it.
Overwrite(c, new) ==
  LET f == target[c] IN
  /\ bytes' = [bytes EXCEPT ![f] = new]
  /\ lost' = IF bytes[f] \in Edits \ {backup[f], loaded[f], mem[c].hash[f]}
             THEN lost \cup {IF f \in late THEN "late" ELSE "seen"} ELSE lost

ApplyReplace(c) ==
  /\ pc[c] = "apply_checked"
  /\ Overwrite(c, result[c])
  /\ Goto(c, "apply_native")
  /\ UNCHANGED <<loaded, changeset, progress, conflicts, merged, store, gate, sgate,
                 locals, settled, ours, late, last, faults>>

\* Plastic accepts the resolution, ignores it, or the call fails, times out or
\* is cancelled at a point that the client cannot know.
ApplyNative(c) ==
  /\ pc[c] = "apply_native"
  /\ KeepDestination(target[c]) \/ UNCHANGED native
  /\ \E to \in {"apply_verify", "apply_restore"} : Goto(c, to)
  /\ UNCHANGED <<store, gate, sgate, locals, history, faults>>

\* Variant: the reply of the native command is taken for its effect.
ApplyVerifyTrusting(c) ==
  LET f == target[c] IN
  /\ pc[c] = "apply_verify"
  /\ session' = [mem[c] EXCEPT !.applying = FALSE, !.resolved = @ \cup {f},
                               !.hash[f] = result[c]]
  /\ settled' = settled \cup (IF bytes[f] = result[c] THEN {f} ELSE {})
  /\ Release(c)
  /\ UNCHANGED <<native, marker, backup, ours, late, lost, last, faults>>

ApplyVerify(c) ==
  LET f == target[c] IN
  /\ pc[c] = "apply_verify"
  /\ IF f \notin Preview(mem[c].source) /\ bytes[f] = result[c]
     THEN /\ session' = [mem[c] EXCEPT !.applying = FALSE,
                                       !.resolved = @ \cup {f},
                                       !.hash[f] = result[c]]
          /\ settled' = settled \cup {f}
     ELSE UNCHANGED <<session, settled>>
  /\ Release(c)
  /\ UNCHANGED <<native, marker, backup, ours, late, lost, last, faults>>

\* Variant: a failed call is always taken back.
ApplyRestoreAlways(c) ==
  /\ pc[c] = "apply_restore"
  /\ Goto(c, "apply_copyback")
  /\ UNCHANGED <<native, store, gate, sgate, locals, history, faults>>

\* After a failed call only the client's own bytes are taken back.
ApplyRestore(c) ==
  /\ pc[c] = "apply_restore"
  /\ IF bytes[target[c]] = result[c]
     THEN /\ Compares(target[c])
          /\ Goto(c, "apply_copyback")
          /\ UNCHANGED <<gate, sgate, locals>>
     ELSE Release(c) /\ UNCHANGED late
  /\ UNCHANGED <<native, store, settled, ours, lost, last, faults>>

ApplyCopyBack(c) ==
  /\ pc[c] = "apply_copyback"
  /\ Overwrite(c, backup[target[c]])
  /\ Release(c)
  /\ UNCHANGED <<loaded, changeset, progress, conflicts, merged, store,
                 settled, ours, late, last, faults>>

-----------------------------------------------------------------------------
(* RollbackAsync of the workspace root *)

RollbackOpen(c) ==
  /\ Idle(c) /\ sgate = None
  /\ Clean
  /\ changeset > 0
  /\ gate' = c /\ sgate' = c
  /\ mem' = [mem EXCEPT ![c] =
       [FreshSession(CHOOSE s \in Sources : TRUE) EXCEPT !.rollback = TRUE]]
  /\ Goto(c, "rollback_checked")
  /\ UNCHANGED <<native, store, target, result, history, faults>>

RollbackRecord(c) ==
  /\ pc[c] = "rollback_checked"
  /\ IF Pending = {} /\ changeset = mem[c].dst
     THEN /\ session' = mem[c]
          /\ marker' = Disown
          /\ backup' = [f \in Files |-> None]
          /\ NothingMerged
          /\ Goto(c, "rollback_native")
          /\ UNCHANGED <<gate, sgate, locals>>
     ELSE Release(c) /\ UNCHANGED <<store, settled, ours>>
  /\ UNCHANGED <<native, late, lost, last, faults>>

RollbackNative(c) ==
  /\ pc[c] = "rollback_native"
  /\ \/ /\ RollbackEffect(Files)
        /\ settled' = Files
        /\ Goto(c, "rollback_finish")
        /\ UNCHANGED <<gate, sgate, locals>>
        /\ ours' = TRUE
     \/ /\ \E reverted \in SUBSET Files : RollbackEffect(reverted)
        /\ settled' = {} /\ ours' = TRUE
        /\ Release(c)
     \/ Release(c) /\ UNCHANGED <<native, settled, ours>>
  /\ UNCHANGED <<store, late, lost, last, faults>>

\* A selector that changed meanwhile leaves the session not ready.
RollbackFinish(c) ==
  /\ pc[c] = "rollback_finish"
  /\ \/ session' = [mem[c] EXCEPT !.ready = TRUE, !.mark = progress]
     \/ UNCHANGED session
  /\ Release(c)
  /\ UNCHANGED <<native, marker, backup, history, faults>>

-----------------------------------------------------------------------------
(* ExecuteWithMergeGuardAsync: undo and check-in, which hold the structure   *)
(* gate, look for the index before they take the merge gate.                 *)

UndoOpen(c) ==
  /\ pc[c] = "idle" /\ sgate = None
  /\ OwnerOK
  /\ \/ /\ session = NoSession
        /\ Goto(c, "undo_free")
        /\ UNCHANGED gate
     \/ /\ HasSession /\ ~session.awaiting
        /\ gate = None
        /\ gate' = c
        /\ Goto(c, "undo_gated")
  /\ sgate' = c
  /\ \E f \in Files \cup {None} : target' = [target EXCEPT ![c] = f]
  /\ UNCHANGED <<native, store, mem, result, history, faults>>

\* A failed undo changes nothing; a successful gated one may retire the session.
UndoFails(c) ==
  /\ pc[c] \in {"undo_free", "undo_gated"}
  /\ Release(c)
  /\ UNCHANGED <<native, store, history, faults>>

UndoWorks(c) ==
  /\ pc[c] \in {"undo_free", "undo_gated"}
  /\ IF target[c] = None
     THEN UndoAll /\ NothingMerged
     ELSE /\ UndoFile(target[c])
          /\ settled' = settled \ (conflicts' \ conflicts)
          /\ UNCHANGED ours
  /\ IF pc[c] = "undo_gated"
     THEN Goto(c, "retire") /\ UNCHANGED <<gate, sgate, locals>>
     ELSE Release(c)
  /\ UNCHANGED <<store, late, lost, last, faults>>

\* Variant: only a check-in retires its session.
RetireNever(c) ==
  /\ pc[c] = "retire"
  /\ Release(c)
  /\ UNCHANGED <<native, session, marker, backup, settled, ours, late, lost, last, faults>>

\* RetireCompletedMergeAsync at the end of a guarded command.
Retire(c) ==
  /\ pc[c] = "retire"
  /\ IF Retirable
     THEN DropIndex /\ Goto(c, "retire_marker") /\ UNCHANGED <<gate, sgate, locals>>
     ELSE Release(c) /\ UNCHANGED <<session, marker, settled, ours>>
  /\ UNCHANGED <<native, backup, late, lost, last, faults>>

RetireMarker(c) ==
  /\ \/ pc[c] = "retire_marker" /\ Release(c)
     \/ /\ pc[c] = "retire_then_checkin"
        /\ Goto(c, "checkin_gated")
        /\ UNCHANGED <<gate, sgate, locals>>
  /\ marker' = "none"
  /\ UNCHANGED <<native, session, backup, history, faults>>

\* A check-in of the workspace root.
CheckinOpen(c) ==
  /\ pc[c] = "idle" /\ sgate = None
  /\ OwnerOK
  /\ sgate' = c
  /\ \/ /\ session = NoSession /\ progress = NoMerge
        /\ Goto(c, "checkin_free")
        /\ UNCHANGED <<store, gate, settled, ours>>
     \/ /\ HasSession /\ gate = None
        /\ gate' = c
        /\ \/ /\ Retirable
              /\ DropIndex
              /\ Goto(c, "retire_then_checkin")
              /\ UNCHANGED backup
           \/ /\ ~Retirable
              /\ ValidSession(session)
              /\ ~session.awaiting
              /\ \/ session.rollback
                 \/ Preview(session.source) = {} /\ DirectoryPreview(session.source) = {}
              /\ Goto(c, "checkin_gated")
              /\ UNCHANGED <<store, settled, ours>>
  /\ UNCHANGED <<native, locals, late, lost, last, faults>>

Published(how) ==
  /\ Publish
  /\ last' = [path |-> how, whole |-> ours => settled = Files]
  /\ NothingMerged

\* The native check-in succeeds, succeeds although the client sees a timeout
\* or an error, or fails.
CheckinNative(c) ==
  LET how == IF pc[c] = "checkin_gated" THEN "gated" ELSE "free" IN
  /\ pc[c] \in {"checkin_free", "checkin_gated"}
  /\ \/ /\ Published(how)
        /\ \/ Release(c)
           \/ /\ pc[c] = "checkin_gated"
              /\ Goto(c, "retire")
              /\ UNCHANGED <<gate, sgate, locals>>
     \/ Release(c) /\ UNCHANGED <<native, settled, ours, last>>
  /\ UNCHANGED <<store, late, lost, faults>>

-----------------------------------------------------------------------------
(* MainForm.CheckinAsync and CheckinPreparedFastAsync: the window reads the  *)
(* session, lets the user review, and then runs one native check-in.         *)

FastReview(c) ==
  /\ pc[c] = "idle"
  /\ \/ session = NoSession /\ progress = NoMerge
     \/ /\ gate = None
        /\ OwnerOK /\ HasSession
        /\ ~Retirable
        /\ ValidSession(session)
        /\ ~session.awaiting
        /\ session.rollback \/ (Preview(session.source) = {} /\ session.todo = {})
  /\ Goto(c, "fast_review")
  /\ UNCHANGED <<native, store, gate, sgate, locals, history, faults>>

FastCheckin(c) ==
  /\ pc[c] = "fast_review"
  /\ \/ sgate = None /\ Published("fast")
     \/ UNCHANGED <<native, settled, ours, last>>
  /\ Release(c)
  /\ UNCHANGED <<store, late, lost, faults>>

\* An update is not subject to the merge guard.
Update(c) ==
  /\ pc[c] = "idle" /\ sgate = None
  /\ UpdateLoaded
  /\ UNCHANGED <<store, gate, sgate, pc, locals, history, faults>>

-----------------------------------------------------------------------------
(* Crashes and other programs *)

\* A process dies (or a read fails and the handler throws): its lock files
\* close, everything it only had in memory is gone.
Crash(c) ==
  /\ pc[c] # "idle"
  /\ Release(c)
  /\ UNCHANGED <<native, store, history>>

\* It dies while the index or the marker is created but still empty.
CrashWriting(c) ==
  /\ \/ /\ \/ pc[c] \in {"begin_checked", "rollback_checked"} /\ Unchanged(mem[c])
           \/ pc[c] = "plan_checked"
        /\ session' = Torn
        /\ marker' = Disown
     \/ /\ pc[c] = "plan_mark"
        /\ marker' = "stale"
        /\ UNCHANGED session
  /\ Release(c)
  /\ UNCHANGED <<native, backup, history>>

\* Between the comparison of a hash and the write that relies on it.
Relies(c) == pc[c] \in {"apply_checked", "apply_copyback"}

\* An editor saves a file, whatever a handler is about to write there.
Edit(f, e) ==
  /\ Save(f, e)
  /\ late' = late \cup {g \in {f} : \E c \in Clients : Relies(c) /\ target[c] = g}
  /\ UNCHANGED <<store, gate, sgate, pc, locals, settled, ours, lost, last>>

\* The official client undoes the workspace or settles a conflict.
ForeignUndo ==
  /\ UndoAll
  /\ NothingMerged
  /\ UNCHANGED <<store, gate, sgate, pc, locals, late, lost, last>>

ForeignResolve(f) ==
  /\ f \in conflicts
  /\ KeepDestination(f)
  /\ settled' = settled \cup {f}
  /\ UNCHANGED <<store, gate, sgate, pc, locals, ours, late, lost, last>>

\* The official client starts a merge of its own.
ForeignMerge(s) ==
  /\ s \notin merged
  /\ Clean
  /\ MergeDone(s)
  /\ NothingMerged
  /\ UNCHANGED <<store, gate, sgate, pc, locals, late, lost, last>>

Fault ==
  /\ faults < MaxFaults
  /\ faults' = faults + 1
  /\ \/ \E c \in Clients : Crash(c) \/ CrashWriting(c)
     \/ \E f \in Files, e \in Edits : Edit(f, e)
     \/ ForeignUndo
     \/ \E f \in Files : ForeignResolve(f)
     \/ \E s \in Sources : ForeignMerge(s)

-----------------------------------------------------------------------------
Start(c) ==
  \/ BeginOpen(c) \/ GetSession(c) \/ DecideOpen(c) \/ ContinueOpen(c)
  \/ CancelPlan(c) \/ ApplyOpen(c) \/ RollbackOpen(c) \/ UndoOpen(c)
  \/ CheckinOpen(c) \/ FastReview(c) \/ Update(c)

Continue(c) ==
  \/ BeginRecord(c) \/ PlanRecord(c) \/ PlanMark(c) \/ PlanFinish(c)
  \/ NativeMerge(c) \/ BeginFinish(c)
  \/ DecideFinish(c) \/ ContinueFinish(c)
  \/ ApplyMark(c) \/ ApplyCheck(c) \/ ApplyReplace(c) \/ ApplyNative(c)
  \/ ApplyVerify(c) \/ ApplyRestore(c) \/ ApplyCopyBack(c)
  \/ RollbackRecord(c) \/ RollbackNative(c) \/ RollbackFinish(c)
  \/ UndoFails(c) \/ UndoWorks(c) \/ Retire(c) \/ RetireMarker(c)
  \/ CheckinNative(c) \/ FastCheckin(c)

Next == Fault \/ \E c \in Clients : Start(c) \/ Continue(c)

Spec == Init /\ [][Next]_vars

-----------------------------------------------------------------------------
(* Fairness.  A handler that was started runs on: nothing in it waits for     *)
(* another process.  The second part is the person that the error messages   *)
(* address: someone who keeps asking for "explicit full-workspace Undo", in  *)
(* a workspace where `cm undo` does not fail for ever.                       *)

UndoWhole(c) == UndoOpen(c) /\ target'[c] = None
UndoSucceeds(c) == target[c] = None /\ UndoWorks(c)

FairSpec ==
  /\ Spec
  /\ \A c \in Clients :
       /\ WF_vars(Continue(c))
       /\ SF_vars(UndoWhole(c))
       /\ SF_vars(UndoSucceeds(c))

-----------------------------------------------------------------------------
(* Properties *)

\* Steps after a handler has validated or saved its session and before it saves
\* it again.
AfterSave == {"apply_open", "begin_native", "begin_finish", "plan_mark", "plan_finish",
              "decide_native", "continue_native", "continue_finish",
              "apply_marked", "apply_checked", "apply_native", "apply_verify",
              "apply_restore", "apply_copyback",
              "rollback_native", "rollback_finish"}

\* A handler that goes on after saving its session still has the merge gate and
\* the file still holds what it saved: no two processes overwrite each other's
\* resolutions (OpenMergeGate around every load, native call and save).
NoLostSave == \A c \in Clients : pc[c] \in AfterSave => gate = c /\ session = mem[c]

\* "Persist before the native mutation so a partial failure remains
\* inspectable": a merge or rollback that TortoiseSCM has begun is never left
\* in the workspace without a session, whatever crashed, failed or was retired.
MergeIsTracked == ours => session # NoSession

\* When a session admits work and no conflict application is unfinished, every
\* file that Plastic no longer reports was decided, by a completed resolution,
\* by Plastic itself or in the official client; a ready rollback is complete.
ReadyIsDecided ==
  ours /\ HasSession /\ session.ready /\ ~session.applying =>
    Files \ conflicts \subseteq settled

\* A check-in that went through the gate never publishes a merge in which a
\* conflict is undecided, a resolution is half applied or a native command
\* stopped half way.
GatedCheckinWhole == last.path = "gated" => last.whole

\* Applying a resolution, or taking a failed one back, never destroys bytes
\* that an editor saved and that no copy holds: not those saved while the merge
\* was open, nor those saved during the failed native call ("Never replace an
\* edit another application made", lines 247-248).  What is saved between the
\* last comparison and the write itself is not protected by anything.
EditsSurvive == "seen" \notin lost

\* A check-in that did not take the merge gate (no session was there when it
\* looked, or it came from a window) is subject to the same rule.
FreeCheckinWhole == last.path \in {"free", "fast"} => last.whole

\* A merge or rollback of TortoiseSCM can be undone with TortoiseSCM.
UndoAvailable ==
  ours /\ ~Clean /\ gate = None => OwnerOK /\ HasSession /\ ~session.awaiting

\* Explicit Undo recovers: an applied merge, however it was interrupted, is
\* detached in the end (unless the marker is stale, see UndoAvailable).
UndoRecovers ==
  (HasSession /\ ~session.awaiting /\ OwnerOK)
    ~> (~HasSession \/ session.awaiting \/ ~OwnerOK)
=============================================================================
