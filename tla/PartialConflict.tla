---------------------------- MODULE PartialConflict ----------------------------
(***************************************************************************)
(* Reviewed resolution of incoming changes in a Partial workspace          *)
(* (Core/PlasticPartialConflicts.cs) and the two ways to check in: the     *)
(* guarded command and the fast one of the window                          *)
(* (Core/PlasticCheckinPreflight.cs).                                      *)
(*                                                                         *)
(* A file has revisions 0, 1, ... on the branch.  Its bytes are those of a *)
(* revision (written as its number), bytes of an editor, a reviewed result *)
(* or Torn, what an interrupted write leaves.  A published file becomes    *)
(* the next revision.  A handler is split where it awaits `cm` or where    *)
(* another program can act between two of its effects; a refused request   *)
(* is no step.                                                             *)
(***************************************************************************)
EXTENDS Naturals, FiniteSets

CONSTANTS
  Clients,         \* TortoiseSCM processes
  Files,           \* files that are changed locally and on the branch
  Edits,           \* bytes that editors write
  Results,         \* reviewed results that differ from every revision
  Torn,            \* an interrupted write of a file or of the index
  None,            \* no client, no file, no session
  MaxRevision,     \* bound: revisions of a file
  MaxFaults        \* bound: crashes and steps of other programs

Revisions == 0..MaxRevision
Content == Revisions \cup Edits \cup Results \cup {Torn}
Configurations == {"prepared", "changed"}

ASSUME PartialAssumption ==
  /\ MaxRevision \in Nat /\ MaxFaults \in Nat
  /\ None \notin Clients \cup Files \cup Content
  /\ Torn \notin Revisions \cup Edits \cup Results
  /\ Edits \cap (Revisions \cup Results) = {}

VARIABLES
  head,     \* newest revision of each file on the branch
  loaded,   \* revision each file has in the workspace
  bytes,    \* what is on disk
  config,   \* selector and load configuration of the workspace
  session,  \* what the index points at: a saved session, None or Torn
  backups,  \* local bytes copied aside for each file; never deleted
  gate,     \* holder of the merge gate
  sgate,    \* holder of the structure gate
  pc,       \* where each client is
  mem,      \* the session each client has loaded
  scope,    \* files each client works on
  result,   \* the reviewed result each client applies
  late,     \* history: files saved after the comparison that an undo relies on
  lost,     \* history: bytes of an editor undone with no copy: seen or late
  last,     \* history: the last check-in
  faults    \* history: faults so far

work == <<head, loaded, bytes, config>>
locals == <<mem, scope, result>>
vars == <<work, session, backups, gate, sgate, pc, locals, late, lost, last, faults>>

\* PartialState.  "applying" stands for ApplyingPath and the flags Applying and
\* Ready, which are always saved together.
Session ==
  [conflicts : SUBSET Files, resolved : SUBSET Files, applying : Files \cup {None},
   base : [Files -> Revisions], incoming : [Files -> Revisions],
   hash : [Files -> Content], config : Configurations]

ASSUME NoSessionAssumption == None \notin Session /\ Torn \notin Session

PCs == {"idle", "prepare_copy", "prepare_save", "prepare_index",
        "resolve_mark", "resolve_check", "resolve_undo", "resolve_update",
        "resolve_write", "resolve_verify", "resolve_detach",
        "undo_native", "checkin_native", "retire"}

TypeOK ==
  /\ head \in [Files -> Revisions]
  /\ loaded \in [Files -> Revisions]
  /\ bytes \in [Files -> Content]
  /\ config \in Configurations
  /\ session \in Session \cup {None, Torn}
  /\ backups \in [Files -> SUBSET Content]
  /\ gate \in Clients \cup {None} /\ sgate \in Clients \cup {None}
  /\ pc \in [Clients -> PCs]
  /\ mem \in [Clients -> Session \cup {None}]
  /\ scope \in [Clients -> SUBSET Files]
  /\ result \in [Clients -> Content \cup {None}]
  /\ late \subseteq Files
  /\ lost \subseteq {"seen", "late"}
  /\ last \in [path : {"none", "guarded", "fast"}, whole : BOOLEAN]
  /\ faults \in 0..MaxFaults

Init ==
  /\ head = [f \in Files |-> 0] /\ loaded = head /\ bytes = head
  /\ config = "prepared"
  /\ session = None
  /\ backups = [f \in Files |-> {}]
  /\ gate = None /\ sgate = None
  /\ pc = [c \in Clients |-> "idle"]
  /\ mem = [c \in Clients |-> None]
  /\ scope = [c \in Clients |-> {}]
  /\ result = [c \in Clients |-> None]
  /\ late = {} /\ lost = {}
  /\ last = [path |-> "none", whole |-> TRUE]
  /\ faults = 0

-----------------------------------------------------------------------------
HasSession == session \notin {None, Torn}
Pending == {f \in Files : bytes[f] # loaded[f]}

\* PreviewPartialConflictsAsync: changed files with a newer revision.
Incoming == {f \in Pending : loaded[f] # head[f]}

Goto(c, to) == pc' = [pc EXCEPT ![c] = to]

\* StructureGate and OpenMergeGate fail at once when another process holds them.
Acquire(c) ==
  /\ pc[c] = "idle" /\ gate = None /\ sgate = None
  /\ gate' = c /\ sgate' = c

Release(c) ==
  /\ Goto(c, "idle")
  /\ gate' = IF gate = c THEN None ELSE gate
  /\ sgate' = IF sgate = c THEN None ELSE sgate
  /\ mem' = [mem EXCEPT ![c] = None]
  /\ scope' = [scope EXCEPT ![c] = {}]
  /\ result' = [result EXCEPT ![c] = None]

\* SavePartialState of a session that the index names.
Save(c, s) ==
  /\ session' = s
  /\ mem' = [mem EXCEPT ![c] = s]

\* A session without conflicts is deleted with its index.
Kept(s) == IF s.conflicts = {} THEN None ELSE s

Interrupted(s) == s.applying # None

\* Deliberate undo of f: the person gives up what is on disk.
Reverted(fs) == [f \in Files |-> IF f \in fs THEN loaded[f] ELSE bytes[f]]

-----------------------------------------------------------------------------
(* PreparePartialConflictAsync *)

NewSession ==
  [conflicts |-> {}, resolved |-> {}, applying |-> None,
   base |-> loaded, incoming |-> loaded, hash |-> bytes, config |-> config]

\* The conflict is read and its contributors are described; a preparation that
\* is still current is returned as it is.
PrepareFile(c, f, decided) ==
  LET s == IF session = None THEN NewSession ELSE session IN
  /\ Acquire(c)
  /\ session # Torn
  /\ s.config = config /\ ~Interrupted(s)
  /\ f \in Incoming
  /\ ~(/\ f \in s.conflicts \ s.resolved
       /\ s.base[f] = loaded[f] /\ s.incoming[f] = head[f] /\ s.hash[f] = bytes[f])
  /\ scope' = [scope EXCEPT ![c] = {f}]
  /\ mem' = [mem EXCEPT ![c] =
       [s EXCEPT !.conflicts = @ \cup {f}, !.resolved = @ \cap decided,
                 !.base[f] = loaded[f], !.incoming[f] = head[f], !.hash[f] = bytes[f]]]
  /\ Goto(c, "prepare_copy")
  /\ UNCHANGED <<work, session, backups, result, late, lost, last, faults>>

\* Variant: a new preparation keeps the decision made before.
PrepareOpenDecided(c) == \E f \in Files : PrepareFile(c, f, Files)

PrepareOpen(c) == \E f \in Files : PrepareFile(c, f, Files \ {f})

\* Variant: the result, which is not there yet, is copied aside.
PrepareCopyResult(c) ==
  /\ pc[c] = "prepare_copy"
  /\ \A f \in scope[c] : backups' = [backups EXCEPT ![f] = @ \cup {result[c]}]
  /\ Goto(c, "prepare_save")
  /\ UNCHANGED <<work, session, gate, sgate, locals, late, lost, last, faults>>

\* The local bytes are copied aside and compared with the hash taken before.
PrepareCopy(c) ==
  /\ pc[c] = "prepare_copy"
  /\ \A f \in scope[c] :
       /\ backups' = [backups EXCEPT ![f] = @ \cup {bytes[f]}]
       /\ IF bytes[f] = mem[c].hash[f]
          THEN Goto(c, "prepare_save") /\ UNCHANGED <<gate, sgate, locals>>
          ELSE Release(c)
  /\ UNCHANGED <<work, session, late, lost, last, faults>>

\* partial.xml is replaced at once.  The index names it already unless this is
\* the first preparation.
PrepareSave(c) ==
  /\ pc[c] = "prepare_save"
  /\ session' = IF HasSession THEN mem[c] ELSE session
  /\ Goto(c, "prepare_index")
  /\ UNCHANGED <<work, backups, gate, sgate, locals, late, lost, last, faults>>

PrepareIndex(c) ==
  /\ pc[c] = "prepare_index"
  /\ session' = mem[c]
  /\ Release(c)
  /\ UNCHANGED <<work, backups, late, lost, last, faults>>

-----------------------------------------------------------------------------
(* ResolvePartialConflictAsync *)

\* ValidatePartialBeforeApplyAsync
ResolveOpen(c) ==
  /\ Acquire(c)
  /\ HasSession
  /\ session.config = config /\ ~Interrupted(session)
  /\ \E f \in session.conflicts \ session.resolved :
       /\ f \in Pending
       /\ loaded[f] = session.base[f] /\ head[f] = session.incoming[f]
       /\ bytes[f] = session.hash[f]
       /\ scope' = [scope EXCEPT ![c] = {f}]
       /\ \E r \in Results \cup {session.hash[f], session.incoming[f]} :
            result' = [result EXCEPT ![c] = r]
  /\ mem' = [mem EXCEPT ![c] = session]
  /\ Goto(c, "resolve_mark")
  /\ UNCHANGED <<work, session, backups, late, lost, last, faults>>

\* The one file of a preparation or resolution.
File(c) == CHOOSE f \in scope[c] : TRUE

\* "Persist originals and an approved snapshot before the first native mutation."
ResolveMark(c) ==
  /\ pc[c] = "resolve_mark"
  /\ Save(c, [mem[c] EXCEPT !.applying = File(c)])
  /\ Goto(c, "resolve_check")
  /\ UNCHANGED <<work, backups, gate, sgate, scope, result, late, lost, last, faults>>

ResolveCheck(c) ==
  /\ pc[c] = "resolve_check"
  /\ IF bytes[File(c)] = mem[c].hash[File(c)]
     THEN /\ Goto(c, "resolve_undo")
          /\ late' = late \ {File(c)}
          /\ UNCHANGED <<gate, sgate, locals>>
     ELSE Release(c) /\ UNCHANGED late
  /\ UNCHANGED <<work, session, backups, lost, last, faults>>

\* `cm partial undo f` may work although the call fails or times out.
ResolveUndo(c) ==
  LET f == File(c) IN
  /\ pc[c] = "resolve_undo"
  /\ \/ /\ bytes' = Reverted({f})
        /\ lost' = IF bytes[f] \in Edits \ backups[f]
                    THEN lost \cup {IF f \in late THEN "late" ELSE "seen"} ELSE lost
     \/ UNCHANGED <<bytes, lost>>
  /\ \/ Goto(c, "resolve_update") /\ UNCHANGED <<gate, sgate, locals>>
     \/ Release(c)
  /\ UNCHANGED <<head, loaded, config, session, backups, late, last, faults>>

\* `cm partial update f --changeset=<incoming> --dontmerge`, once the base bytes
\* are back; a file changed meanwhile keeps its revision.
ResolveUpdate(c) ==
  LET f == File(c)
      to == mem[c].incoming[f] IN
  /\ pc[c] = "resolve_update"
  /\ IF bytes[f] # mem[c].base[f]
     THEN Release(c) /\ UNCHANGED <<loaded, bytes>>
     ELSE /\ \/ /\ bytes[f] = loaded[f]
                /\ loaded' = [loaded EXCEPT ![f] = to]
                /\ bytes' = [bytes EXCEPT ![f] = to]
             \/ UNCHANGED <<loaded, bytes>>
          /\ \/ Goto(c, "resolve_write") /\ UNCHANGED <<gate, sgate, locals>>
             \/ Release(c)
  /\ UNCHANGED <<head, config, session, backups, late, lost, last, faults>>

\* The update is verified; an exclusive handle keeps editors out from the last
\* comparison to the end of the write.
ResolveWrite(c) ==
  LET f == File(c)
      s == mem[c] IN
  /\ pc[c] = "resolve_write"
  /\ IF /\ s.config = config
        /\ loaded[f] = s.incoming[f] /\ head[f] = s.incoming[f]
        /\ bytes[f] = s.incoming[f]
     THEN /\ bytes' = [bytes EXCEPT ![f] = result[c]]
          /\ Goto(c, "resolve_verify")
          /\ UNCHANGED <<gate, sgate, locals>>
     ELSE Release(c) /\ UNCHANGED bytes
  /\ UNCHANGED <<head, loaded, config, session, backups, late, lost, last, faults>>

\* A result that equals the incoming revision leaves nothing to check in.
ResolveVerify(c) ==
  LET f == File(c)
      s == mem[c] IN
  /\ pc[c] = "resolve_verify"
  /\ IF /\ bytes[f] = result[c]
        /\ loaded[f] = s.incoming[f] /\ head[f] = s.incoming[f]
        /\ s.config = config
     THEN /\ session' = [s EXCEPT !.resolved = @ \cup {f}, !.applying = None]
          /\ IF result[c] = s.incoming[f]
             THEN /\ mem' = [mem EXCEPT ![c] = session']
                  /\ Goto(c, "resolve_detach")
                  /\ UNCHANGED <<gate, sgate, scope, result>>
             ELSE Release(c)
     ELSE Release(c) /\ UNCHANGED session
  /\ UNCHANGED <<work, backups, late, lost, last, faults>>

ResolveDetach(c) ==
  /\ pc[c] = "resolve_detach"
  /\ session' = Kept([mem[c] EXCEPT !.conflicts = @ \ scope[c],
                                     !.resolved = @ \ scope[c]])
  /\ Release(c)
  /\ UNCHANGED <<work, backups, late, lost, last, faults>>

\* Variant: a cancellation does not ask for the merge gate.
CancelUngated(c) ==
  /\ pc[c] = "idle"
  /\ HasSession
  /\ ~Interrupted(session) /\ session.resolved = {}
  /\ session' = None
  /\ UNCHANGED <<work, backups, gate, sgate, pc, locals, late, lost, last, faults>>

\* CancelPartialConflictPreparationAsync
Cancel(c) ==
  /\ pc[c] = "idle" /\ gate = None
  /\ HasSession
  /\ ~Interrupted(session) /\ session.resolved = {}
  /\ session' = None
  /\ UNCHANGED <<work, backups, gate, sgate, pc, locals, late, lost, last, faults>>

-----------------------------------------------------------------------------
(* ExecuteWithPartialConflictGuardAsync: undo and check-in of files or of the *)
(* whole workspace.                                                           *)

Scopes == {{f} : f \in Files} \cup {Files}

UndoBegins(c, fs) ==
  /\ Acquire(c)
  /\ session # Torn
  /\ mem' = [mem EXCEPT ![c] = session]
  /\ scope' = [scope EXCEPT ![c] = fs]
  /\ Goto(c, "undo_native")
  /\ UNCHANGED <<work, session, backups, result, late, lost, last, faults>>

\* Variant: an undo needs the configuration of the session.
UndoOpenConfigured(c) ==
  \E fs \in Scopes : UndoBegins(c, fs) /\ (HasSession => session.config = config)

UndoOpen(c) == \E fs \in Scopes : UndoBegins(c, fs)

\* The call fails or times out, whether it reverted the files or not.
UndoFails(c) ==
  /\ pc[c] = "undo_native"
  /\ bytes' = Reverted(scope[c]) \/ UNCHANGED bytes
  /\ Release(c)
  /\ UNCHANGED <<head, loaded, config, session, backups, late, lost, last, faults>>

UndoWorks(c) ==
  /\ pc[c] = "undo_native"
  /\ bytes' = Reverted(scope[c])
  /\ IF mem[c] = None
     THEN Release(c)
     ELSE Goto(c, "retire") /\ UNCHANGED <<gate, sgate, locals>>
  /\ UNCHANGED <<head, loaded, config, session, backups, late, lost, last, faults>>

\* Variant: only unresolved conflicts are looked at.
CheckinAllowedInterrupted(s) ==
  /\ s.config = config
  /\ s.conflicts \ {s.applying} \subseteq s.resolved
  /\ \A f \in s.conflicts \ {s.applying} :
       loaded[f] = s.incoming[f] /\ head[f] = s.incoming[f]

\* What the guard asks of the session before a check-in.
CheckinAllowed(s) ==
  /\ s.config = config
  /\ ~Interrupted(s) /\ s.conflicts \subseteq s.resolved
  /\ \A f \in s.conflicts : loaded[f] = s.incoming[f] /\ head[f] = s.incoming[f]

CheckinOpen(c) ==
  /\ Acquire(c)
  /\ session # Torn
  /\ HasSession => CheckinAllowed(session)
  /\ \E fs \in Scopes :
       /\ fs \cap Incoming = {}
       /\ scope' = [scope EXCEPT ![c] = fs]
  /\ mem' = [mem EXCEPT ![c] = session]
  /\ Goto(c, "checkin_native")
  /\ UNCHANGED <<work, session, backups, result, late, lost, last, faults>>

\* `cm partial checkin`: the server takes changes of current revisions only.
Publish(fs, how) ==
  LET new == fs \cap Pending IN
  /\ new # {}
  /\ \A f \in new : loaded[f] = head[f] /\ head[f] < MaxRevision
  /\ head' = [f \in Files |-> IF f \in new THEN head[f] + 1 ELSE head[f]]
  /\ loaded' = [f \in Files |-> IF f \in new THEN head[f] + 1 ELSE loaded[f]]
  /\ bytes' = [f \in Files |-> IF f \in new THEN head[f] + 1 ELSE bytes[f]]
  /\ last' = [path |-> how,
              whole |-> /\ \A f \in new : bytes[f] # Torn
                        /\ HasSession => /\ ~Interrupted(session)
                                         /\ session.conflicts \subseteq session.resolved]
  /\ UNCHANGED config

\* It succeeds, succeeds although the client sees an error, or fails.
CheckinNative(c) ==
  /\ pc[c] = "checkin_native"
  /\ \/ /\ Publish(scope[c], "guarded")
        /\ \/ /\ mem[c] # None
              /\ Goto(c, "retire")
              /\ UNCHANGED <<gate, sgate, locals>>
           \/ Release(c)
     \/ Release(c) /\ UNCHANGED <<work, last>>
  /\ UNCHANGED <<session, backups, late, lost, faults>>

\* Conflicts of the scope that are not pending any more.
Done(c) == (mem[c].conflicts \cap scope[c]) \ Pending

\* Variant: the interrupted file is forgotten but its mark stays.
RetireKeepsMark(c) ==
  /\ pc[c] = "retire"
  /\ session' = Kept([mem[c] EXCEPT !.conflicts = @ \ Done(c), !.resolved = @ \ Done(c)])
  /\ Release(c)
  /\ UNCHANGED <<work, backups, late, lost, last, faults>>

Retire(c) ==
  /\ pc[c] = "retire"
  /\ session' = Kept([mem[c] EXCEPT
       !.conflicts = @ \ Done(c), !.resolved = @ \ Done(c),
       !.applying = IF @ \in Done(c) THEN None ELSE @])
  /\ Release(c)
  /\ UNCHANGED <<work, backups, late, lost, last, faults>>

\* CheckinPreparedFastAsync: the structure gate and one native command.
FastCheckin(c) ==
  /\ pc[c] = "idle" /\ sgate = None
  /\ \E fs \in Scopes : Publish(fs, "fast")
  /\ UNCHANGED <<session, backups, gate, sgate, pc, locals, late, lost, faults>>

\* A Partial update of the workspace leaves changed files alone.
Update(c) ==
  /\ pc[c] = "idle" /\ sgate = None
  /\ loaded' = [f \in Files |-> IF f \in Pending THEN loaded[f] ELSE head[f]]
  /\ bytes' = [f \in Files |-> IF f \in Pending THEN bytes[f] ELSE head[f]]
  /\ UNCHANGED <<head, config, session, backups, gate, sgate, pc, locals, late, lost, last, faults>>

-----------------------------------------------------------------------------
(* Crashes, other programs and other people *)

Crash(c) ==
  /\ pc[c] # "idle"
  /\ Release(c)
  /\ UNCHANGED <<work, session, backups, late, lost, last>>

\* The process dies while it writes the index or the workspace file in place.
CrashWriting(c) ==
  /\ \/ /\ pc[c] = "prepare_index"
        /\ session' = Torn
        /\ UNCHANGED bytes
     \/ /\ pc[c] = "resolve_write"
        /\ bytes[File(c)] = mem[c].incoming[File(c)]
        /\ loaded[File(c)] = mem[c].incoming[File(c)]
        /\ result[c] # mem[c].incoming[File(c)]
        /\ bytes' = [bytes EXCEPT ![File(c)] = Torn]
        /\ UNCHANGED session
  /\ Release(c)
  /\ UNCHANGED <<head, loaded, config, backups, late, lost, last>>

Edit(f, e) ==
  /\ bytes' = [bytes EXCEPT ![f] = e]
  /\ late' = late \cup {g \in {f} : \E c \in Clients : pc[c] = "resolve_undo" /\ g \in scope[c]}
  /\ UNCHANGED <<head, loaded, config, session, backups, gate, sgate, pc, locals, lost, last>>

\* Somebody else checks in a new revision of f.
Arrive(f) ==
  /\ head[f] < MaxRevision
  /\ head' = [head EXCEPT ![f] = @ + 1]
  /\ UNCHANGED <<loaded, bytes, config, session, backups, gate, sgate, pc, locals,
                 late, lost, last, faults>>

\* The official client undoes a file or changes what is loaded.
ForeignUndo(f) ==
  /\ bytes' = Reverted({f})
  /\ UNCHANGED <<head, loaded, config, session, backups, gate, sgate, pc, locals, late, lost, last>>

ForeignConfigure ==
  /\ config' = "changed"
  /\ UNCHANGED <<head, loaded, bytes, session, backups, gate, sgate, pc, locals, late, lost, last>>

Fault ==
  /\ faults < MaxFaults
  /\ faults' = faults + 1
  /\ \/ \E c \in Clients : Crash(c) \/ CrashWriting(c)
     \/ \E f \in Files : ForeignUndo(f)
     \/ \E f \in Files, e \in Edits : Edit(f, e)
     \/ ForeignConfigure

-----------------------------------------------------------------------------
Start(c) ==
  \/ PrepareOpen(c) \/ ResolveOpen(c) \/ Cancel(c) \/ UndoOpen(c) \/ CheckinOpen(c)
  \/ FastCheckin(c) \/ Update(c)

Continue(c) ==
  \/ PrepareCopy(c) \/ PrepareSave(c) \/ PrepareIndex(c)
  \/ ResolveMark(c) \/ ResolveCheck(c) \/ ResolveUndo(c) \/ ResolveUpdate(c)
  \/ ResolveWrite(c) \/ ResolveVerify(c) \/ ResolveDetach(c)
  \/ UndoFails(c) \/ UndoWorks(c) \/ CheckinNative(c) \/ Retire(c)

Next ==
  \/ Fault
  \/ \E f \in Files : Arrive(f)
  \/ \E c \in Clients : Start(c) \/ Continue(c)

Spec == Init /\ [][Next]_vars

\* A handler that runs goes on.  The person who wants to be rid of a session
\* undoes the whole workspace, again when a gate was taken or the call failed;
\* sooner or later `cm` does it.
FairSpec ==
  /\ Spec
  /\ \A c \in Clients :
       /\ WF_vars(Continue(c))
       /\ SF_vars(UndoOpen(c) /\ scope'[c] = Files)
       /\ SF_vars(UndoWorks(c) /\ scope[c] = Files)

-----------------------------------------------------------------------------
(* What must hold *)

\* The gates make what a handler has loaded a true copy of the session on disk:
\* between two handlers that hold both, nobody replaces or detaches it.
Copying == {"prepare_copy", "prepare_save", "prepare_index"}
LoadedIsSaved ==
  \A c \in Clients : pc[c] \notin {"idle"} \cup Copying =>
    IF mem[c] = None THEN session = None ELSE session = mem[c]

\* A check-in that the guard let through published no half written file, and
\* nothing of the session was interrupted or undecided when it ran (lines
\* 274-281 are read before the native call).
GuardedCheckinReviewed == last.path = "guarded" => last.whole

\* The way out of an interruption is to undo the file it was about: that file is
\* named and still listed, with the bytes it had among the backups, through
\* every other preparation, undo and check-in.
InterruptionIsRecoverable ==
  HasSession /\ Interrupted(session) =>
    /\ session.applying \in session.conflicts \ session.resolved
    /\ session.hash[session.applying] \in backups[session.applying]

\* A file the session calls resolved is based on the incoming revision that was
\* reviewed, or a later one, so publishing it takes no revision back unseen.
ResolvedIsOnIncoming ==
  HasSession => \A f \in session.resolved : loaded[f] >= session.incoming[f]

\* `cm partial undo` of a resolution never takes away bytes that an editor saved
\* and that no copy holds, whether they were saved before the preparation, after
\* it or while the resolution was being recorded.  What is saved between the
\* last comparison and the command itself is not protected by anything.
EditsSurvive == "seen" \notin lost

\* Undoing the whole workspace ends a session whatever interrupted it, also when
\* the configuration it was prepared for is gone.
UndoDetaches == HasSession ~> ~HasSession
=============================================================================
