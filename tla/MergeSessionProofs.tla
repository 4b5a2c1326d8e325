-------------------------- MODULE MergeSessionProofs --------------------------
(***************************************************************************)
(* Proofs about MergeSession, for every set of clients, files, sources and *)
(* results.  The inductive invariant is built in layers: a layer's step    *)
(* lemma may use the layers before it, in the old and in the new state.    *)
(***************************************************************************)
EXTENDS MergeSession, TLAPS

\* Steps that run inside the merge gate, and inside the structure gate.
Gated == PCs \ {"idle", "undo_free", "checkin_free", "fast_review"}
StructureGated ==
  {"rollback_checked", "rollback_native", "rollback_finish",
   "undo_free", "undo_gated", "checkin_free", "checkin_gated",
   "retire", "retire_then_checkin"}

\* Steps of a handler that has a session in memory.
Applying == {"apply_marked", "apply_checked", "apply_native",
             "apply_verify", "apply_restore", "apply_copyback"}
Holding == {"begin_checked", "plan_checked", "rollback_checked"}
             \cup AfterSave

\* Only the holder of a gate is where the gate is needed.
GatesHeld ==
  \A c \in Clients :
    /\ pc[c] \in Gated => gate = c
    /\ pc[c] \in StructureGated => sgate = c

\* What a handler has in memory at each step.
MemoryOK ==
  \A c \in Clients :
    /\ pc[c] \in Holding => mem[c] \in SavedSession
    /\ pc[c] \in Applying \cup {"apply_open"} => target[c] \in Files /\ result[c] \in Results
    /\ pc[c] \in Applying => backup[target[c]] \in Content /\ mem[c].applying
    /\ pc[c] \in {"begin_checked", "begin_native", "continue_native"} =>
         ~mem[c].ready /\ ~mem[c].awaiting /\ ~mem[c].rollback
    /\ pc[c] \in {"rollback_checked", "rollback_native"} =>
         ~mem[c].ready /\ ~mem[c].awaiting /\ mem[c].rollback
    /\ pc[c] \in {"plan_mark", "plan_finish", "decide_native"} => mem[c].awaiting

\* Layer 1.
Inv1 == TypeOK /\ GatesHeld /\ MemoryOK /\ NoLostSave

\* Layer 2: nothing is merged while a directory plan waits for decisions.
PlanMergesNothing == HasSession /\ session.awaiting => ~ours
Inv2 == PlanMergesNothing /\ MergeIsTracked

\* Layer 3: a handler about to declare its session ready, or one that applies
\* a resolution, finds every other file decided.
Decided(open) == ours => Files \ (conflicts \cup open) \subseteq settled
HandlersDecide ==
  \A c \in Clients :
    /\ pc[c] \in {"begin_finish", "continue_finish", "rollback_finish"} => Decided({})
    /\ pc[c] \in Applying \cup {"apply_open"} => Decided({target[c]})
Inv3 == ReadyIsDecided /\ HandlersDecide

\* Layer 4: the native merge is the one of the session, and what the guard has
\* verified stays true until the check-in.
ConflictsOfMerge == progress \in Sources \/ conflicts = {}
SessionOfMerge ==
  ours /\ HasSession =>
    IF session.rollback THEN progress \notin Sources ELSE progress = session.source
CheckinVerified ==
  \A c \in Clients :
    pc[c] \in {"checkin_gated", "retire_then_checkin"} /\ ours => settled = Files
Inv4 == ConflictsOfMerge /\ SessionOfMerge /\ CheckinVerified /\ GatedCheckinWhole

\* Layer 5: what a write is about to replace was compared with its hash, or was
\* saved after the comparison.
Compared ==
  \A c \in Clients :
    /\ pc[c] = "apply_checked" /\ target[c] \notin late =>
         bytes[target[c]] \in {mem[c].hash[target[c]], loaded[target[c]]}
    /\ pc[c] = "apply_copyback" /\ target[c] \notin late =>
         bytes[target[c]] \in {result[c], loaded[target[c]]}
Inv5 == Compared /\ EditsSurvive

IInv == Inv1 /\ Inv2 /\ Inv3 /\ Inv4
-----------------------------------------------------------------------------
(* Types *)

\* Moving a client to another step keeps the program counters typed.
LEMMA GotoTyped ==
  ASSUME NEW c \in Clients, NEW to \in PCs, pc \in [Clients -> PCs], Goto(c, to)
  PROVE  pc' \in [Clients -> PCs]
BY DEF Goto

\* SaveMergeState writes a session and keeps the copy in memory.
LEMMA SaveTyped ==
  ASSUME NEW c \in Clients, NEW s \in SavedSession, ControlTypeOK, SaveState(c, s)
  PROVE  /\ session' \in SavedSession
         /\ mem' \in [Clients -> SavedSession \cup {NoSession}]
BY DEF SaveState, ControlTypeOK

\* Closing the gates (the end of a using block) keeps the control state typed.
LEMMA ReleaseTyped ==
  ASSUME NEW c \in Clients, ControlTypeOK, Release(c)
  PROVE  ControlTypeOK'
<1>1. pc' \in [Clients -> PCs]
  <2>1. "idle" \in PCs
    BY DEF PCs
  <2>. QED BY <2>1, GotoTyped DEF Release, ControlTypeOK
<1>2. gate' \in Clients \cup {None} /\ sgate' \in Clients \cup {None}
  BY DEF Release, ControlTypeOK
<1>3. mem' \in [Clients -> SavedSession \cup {NoSession}]
  BY DEF Release, ControlTypeOK
<1>4. target' \in [Clients -> Files \cup {None}] /\ result' \in [Clients -> Results \cup {None}]
  BY DEF Release, ControlTypeOK
<1>. QED BY <1>1, <1>2, <1>3, <1>4 DEF ControlTypeOK

\* The session BeginMergeAsync creates is one.
LEMMA FreshTyped ==
  ASSUME NEW s \in Sources, NativeTypeOK
  PROVE  FreshSession(s) \in SavedSession
BY NativeAssumption, SessionAssumption DEF FreshSession, SavedSession, NativeTypeOK

\* Changing the flags, hashes and decisions of a session gives a session.
LEMMA Resaved ==
  ASSUME NEW s \in SavedSession
  PROVE  /\ \A b \in BOOLEAN : [s EXCEPT !.applying = b] \in SavedSession
         /\ \A b \in BOOLEAN : [s EXCEPT !.ready = b] \in SavedSession
         /\ \A b \in BOOLEAN, d \in BOOLEAN : [s EXCEPT !.ready = b, !.awaiting = d] \in SavedSession
         /\ \A t \in SUBSET Items : [s EXCEPT !.applying = FALSE, !.todo = t] \in SavedSession
         /\ \A f \in Files, r \in Content : 
               [s EXCEPT !.applying = FALSE, !.resolved = @ \cup {f}, !.hash[f] = r] \in SavedSession
         /\ \A h \in [Files -> Content \cup {None}], q \in SUBSET Files : 
               [s EXCEPT !.ready = TRUE, !.hash = h, !.resolved = q] \in SavedSession
BY DEF SavedSession

\* TrackWorkspaceRollback creates a session.
LEMMA RollbackTyped ==
  ASSUME NativeTypeOK, changeset > 0
  PROVE  [FreshSession(CHOOSE s \in Sources : TRUE) EXCEPT !.rollback = TRUE] \in SavedSession
<1>1. (CHOOSE s \in Sources : TRUE) \in Sources
  BY NativeAssumption
<1>2. FreshSession(CHOOSE s \in Sources : TRUE) \in SavedSession
  BY <1>1, FreshTyped
<1>. QED BY <1>2 DEF SavedSession

\* The record of a publication is typed.
LEMMA WholeTyped ==
  \A how \in {"free", "gated", "fast"} :
    [path |-> how, whole |-> ours => settled = Files]
      \in [path : {"none", "free", "gated", "fast"}, whole : BOOLEAN]
OBVIOUS

\* Every handler step keeps the state typed.
LEMMA TypeStep == Inv1 /\ [Next]_vars => TypeOK'
<1> SUFFICES ASSUME Inv1, [Next]_vars PROVE TypeOK'
  OBVIOUS
<1> USE NativeAssumption, SessionAssumption DEF Inv1, TypeOK
<1>1. CASE UNCHANGED vars
  BY <1>1 DEF vars, native, store, locals, history, NativeTypeOK, StoreTypeOK, ControlTypeOK, HistoryTypeOK
<1>2. ASSUME NEW c \in Clients, Start(c) PROVE TypeOK'
  <2>1. CASE BeginOpen(c)
    <3>1. UNCHANGED <<native, store, sgate, target, result, history, faults>> /\ gate' = c
      BY <2>1 DEF BeginOpen
    <3>2. \A s \in Sources : FreshSession(s) \in SavedSession
      BY FreshTyped
    <3>3. mem' \in [Clients -> SavedSession \cup {NoSession}] /\ pc' \in [Clients -> PCs]
      BY <2>1, <3>2 DEF BeginOpen, Goto, ControlTypeOK, PCs
    <3>4. ControlTypeOK'
      BY <3>1, <3>3 DEF ControlTypeOK
    <3>. QED BY <3>1, <3>4 DEF native, store, history, NativeTypeOK, StoreTypeOK, HistoryTypeOK
  <2>2. CASE GetSession(c)
    <3>1. StoreTypeOK'
      BY <2>2 DEF GetSession, Idle, HasSession, DropIndex, Disown, StoreTypeOK
    <3>2. ControlTypeOK'
      BY <2>2 DEF GetSession, Idle, Goto, locals, ControlTypeOK, PCs
    <3>3. HistoryTypeOK'
      BY <2>2 DEF GetSession, DropIndex, NothingMerged, HistoryTypeOK
    <3>. QED BY <2>2, <3>1, <3>2, <3>3 DEF GetSession, locals, native, NativeTypeOK
  <2>3. CASE DecideOpen(c)
    <3>1. session \in SavedSession
      BY <2>3 DEF DecideOpen, HasSession, StoreTypeOK
    <3>2. [session EXCEPT !.applying = TRUE] \in SavedSession
      BY <3>1, Resaved
    <3>3. StoreTypeOK'
      BY <2>3, <3>1, <3>2 DEF DecideOpen, Idle, ValidSession, HasSession, SaveState, StoreTypeOK
    <3>4. ControlTypeOK'
      BY <2>3, <3>1, <3>2 DEF DecideOpen, Idle, SaveState, Goto, ControlTypeOK, PCs
    <3>. QED BY <2>3, <3>3, <3>4 DEF DecideOpen, native, history, NativeTypeOK, HistoryTypeOK
  <2>4. CASE ContinueOpen(c)
    <3>1. session \in SavedSession
      BY <2>4 DEF ContinueOpen, HasSession, StoreTypeOK
    <3>2. [session EXCEPT !.ready = FALSE, !.awaiting = FALSE] \in SavedSession
      BY <3>1, Resaved
    <3>3. StoreTypeOK'
      BY <2>4, <3>1, <3>2 DEF ContinueOpen, Idle, ValidSession, HasSession, SaveState, StoreTypeOK
    <3>4. ControlTypeOK'
      BY <2>4, <3>1, <3>2 DEF ContinueOpen, Idle, SaveState, Goto, ControlTypeOK, PCs
    <3>. QED BY <2>4, <3>3, <3>4 DEF ContinueOpen, native, history, NativeTypeOK, HistoryTypeOK
  <2>5. CASE CancelPlan(c)
    <3>1. StoreTypeOK'
      BY <2>5 DEF CancelPlan, Idle, HasSession, DropIndex, Disown, StoreTypeOK
    <3>2. ControlTypeOK'
      BY <2>5 DEF CancelPlan, Idle, Goto, locals, ControlTypeOK, PCs
    <3>3. HistoryTypeOK'
      BY <2>5 DEF CancelPlan, DropIndex, NothingMerged, HistoryTypeOK
    <3>. QED BY <2>5, <3>1, <3>2, <3>3 DEF CancelPlan, locals, native, NativeTypeOK
  <2>6. CASE ApplyOpen(c)
    <3>1. session \in SavedSession
      BY <2>6 DEF ApplyOpen, HasSession, StoreTypeOK
    <3>2. FileConflicts[session.source] \subseteq Files
      BY <3>1 DEF SavedSession
    <3>3. ControlTypeOK'
      BY <2>6, <3>1, <3>2 DEF ApplyOpen, Idle, Goto, ControlTypeOK, PCs
    <3>. QED BY <2>6, <3>3 DEF ApplyOpen, store, history, native, NativeTypeOK, StoreTypeOK, HistoryTypeOK
  <2>7. CASE RollbackOpen(c)
    <3>1. ControlTypeOK'
      BY <2>7, RollbackTyped DEF RollbackOpen, Idle, Goto, ControlTypeOK, PCs
    <3>. QED BY <2>7, <3>1 DEF RollbackOpen, store, history, native, NativeTypeOK, StoreTypeOK, HistoryTypeOK
  <2>8. CASE UndoOpen(c)
    <3>1. ControlTypeOK'
      BY <2>8 DEF UndoOpen, Goto, ControlTypeOK, PCs
    <3>. QED BY <2>8, <3>1 DEF UndoOpen, store, history, native, NativeTypeOK, StoreTypeOK, HistoryTypeOK
  <2>9. CASE CheckinOpen(c)
    <3>1. StoreTypeOK'
      BY <2>9 DEF CheckinOpen, HasSession, DropIndex, Disown, store, StoreTypeOK
    <3>2. ControlTypeOK'
      BY <2>9 DEF CheckinOpen, Goto, locals, ControlTypeOK, PCs
    <3>3. HistoryTypeOK'
      BY <2>9 DEF CheckinOpen, DropIndex, NothingMerged, HistoryTypeOK
    <3>. QED BY <2>9, <3>1, <3>2, <3>3 DEF CheckinOpen, locals, store, native, NativeTypeOK
  <2>10. CASE FastReview(c)
    <3>1. ControlTypeOK'
      BY <2>10 DEF FastReview, Goto, locals, ControlTypeOK, PCs
    <3>. QED BY <2>10, <3>1 DEF FastReview, native, store, locals, history, NativeTypeOK, StoreTypeOK, HistoryTypeOK
  <2>11. CASE Update(c)
    <3>1. NativeTypeOK'
      BY <2>11 DEF Update, UpdateLoaded, NativeTypeOK, Content
    <3>. QED BY <2>11, <3>1 DEF Update, store, locals, history, StoreTypeOK, ControlTypeOK, HistoryTypeOK, UpdateLoaded
  <2>. QED BY <1>2, <2>1, <2>2, <2>3, <2>4, <2>5, <2>6, <2>7, <2>8, <2>9, <2>10, <2>11 DEF Start
<1>3. ASSUME NEW c \in Clients, Continue(c) PROVE TypeOK'
  <2>1. CASE BeginRecord(c)
    <3>1. mem[c] \in SavedSession
      BY <2>1 DEF BeginRecord, MemoryOK, Holding, AfterSave
    <3>2. StoreTypeOK'
      BY <2>1, <3>1 DEF BeginRecord, Disown, store, StoreTypeOK
    <3>3. ControlTypeOK'
      BY <2>1, <3>1, ReleaseTyped DEF BeginRecord, Goto, locals, ControlTypeOK, PCs
    <3>4. HistoryTypeOK'
      BY <2>1, <3>1 DEF BeginRecord, NothingMerged, HistoryTypeOK
    <3>. QED BY <2>1, <3>2, <3>3, <3>4 DEF BeginRecord, locals, store, native, NativeTypeOK
  <2>2. CASE PlanRecord(c)
    <3>1. mem[c] \in SavedSession
      BY <2>2 DEF PlanRecord, MemoryOK, Holding, AfterSave
    <3>2. [mem[c] EXCEPT !.awaiting = TRUE, !.fingerprint = bytes] \in SavedSession
      BY <3>1 DEF SavedSession, NativeTypeOK
    <3>3. StoreTypeOK'
      BY <2>2, <3>1, <3>2 DEF PlanRecord, SaveState, Disown, StoreTypeOK
    <3>4. ControlTypeOK'
      BY <2>2, <3>1, <3>2 DEF PlanRecord, SaveState, Goto, ControlTypeOK, PCs
    <3>5. HistoryTypeOK'
      BY <2>2, <3>1, <3>2 DEF PlanRecord, NothingMerged, HistoryTypeOK
    <3>. QED BY <2>2, <3>3, <3>4, <3>5 DEF PlanRecord, native, NativeTypeOK
  <2>3. CASE PlanMark(c)
    <3>1. StoreTypeOK'
      BY <2>3 DEF PlanMark, StoreTypeOK
    <3>2. ControlTypeOK'
      BY <2>3 DEF PlanMark, Goto, locals, ControlTypeOK, PCs
    <3>. QED BY <2>3, <3>1, <3>2 DEF PlanMark, native, locals, history, NativeTypeOK, HistoryTypeOK
  <2>4. CASE PlanFinish(c)
    <3>1. mem[c] \in SavedSession
      BY <2>4 DEF PlanFinish, MemoryOK, Holding, AfterSave
    <3>2. [mem[c] EXCEPT !.ready = TRUE] \in SavedSession
      BY <3>1, Resaved
    <3>3. StoreTypeOK'
      BY <2>4, <3>1, <3>2 DEF PlanFinish, StoreTypeOK
    <3>4. ControlTypeOK'
      BY <2>4, <3>1, <3>2, ReleaseTyped DEF PlanFinish
    <3>. QED BY <2>4, <3>3, <3>4 DEF PlanFinish, native, history, NativeTypeOK, HistoryTypeOK
  <2>5. CASE NativeMerge(c)
    <3>1. mem[c] \in SavedSession
      BY <2>5 DEF NativeMerge, MemoryOK, Holding, AfterSave
    <3>2. mem[c].source \in Sources
      BY <3>1 DEF SavedSession
    <3>3. NativeTypeOK'
      BY <2>5, <3>1, <3>2 DEF NativeMerge, MergeDone, MergeBroken, native, NativeTypeOK, Content
    <3>4. ControlTypeOK'
      BY <2>5, <3>1, <3>2, ReleaseTyped DEF NativeMerge, Goto, locals, ControlTypeOK, PCs
    <3>5. HistoryTypeOK'
      BY <2>5, <3>1, <3>2 DEF NativeMerge, MergeDone, HistoryTypeOK
    <3>. QED BY <2>5, <3>3, <3>4, <3>5 DEF NativeMerge, store, locals, native, StoreTypeOK
  <2>6. CASE BeginFinish(c)
    <3>1. mem[c] \in SavedSession
      BY <2>6 DEF BeginFinish, MemoryOK, Holding, AfterSave
    <3>2. session' \in SavedSession
      BY <2>6, <3>1 DEF BeginFinish, SavedSession, NativeTypeOK, Preview
    <3>3. StoreTypeOK'
      BY <2>6, <3>1, <3>2 DEF BeginFinish, StoreTypeOK
    <3>4. ControlTypeOK'
      BY <2>6, <3>1, <3>2, ReleaseTyped DEF BeginFinish
    <3>. QED BY <2>6, <3>3, <3>4 DEF BeginFinish, native, history, NativeTypeOK, HistoryTypeOK
  <2>7. CASE DecideFinish(c)
    <3>1. mem[c] \in SavedSession
      BY <2>7 DEF DecideFinish, MemoryOK, Holding, AfterSave
    <3>2. \A i \in Items : [mem[c] EXCEPT !.applying = FALSE, !.todo = @ \ {i}] \in SavedSession
      BY <3>1 DEF SavedSession
    <3>3. mem[c].todo \subseteq Items
      BY <3>1 DEF SavedSession
    <3>4. StoreTypeOK'
      <4>1. session' \in SavedSession \/ session' = session
        BY <2>7, <3>2, <3>3, ZenonT(60) DEF DecideFinish
      <4>. QED BY <2>7, <4>1 DEF DecideFinish, StoreTypeOK
    <3>5. ControlTypeOK'
      BY <2>7, <3>1, <3>2, <3>3, ReleaseTyped DEF DecideFinish
    <3>. QED BY <2>7, <3>4, <3>5 DEF DecideFinish, native, history, NativeTypeOK, HistoryTypeOK
  <2>8. CASE ContinueFinish(c)
    <3>1. mem[c] \in SavedSession
      BY <2>8 DEF ContinueFinish, MemoryOK, Holding, AfterSave
    <3>2. session' \in SavedSession
      BY <2>8, <3>1 DEF ContinueFinish, SaveState, SavedSession, NativeTypeOK, Preview
    <3>3. StoreTypeOK'
      BY <2>8, <3>1, <3>2 DEF ContinueFinish, SaveState, StoreTypeOK
    <3>4. ControlTypeOK'
      BY <2>8, <3>1, <3>2 DEF ContinueFinish, SaveState, Goto, ControlTypeOK, PCs
    <3>. QED BY <2>8, <3>3, <3>4 DEF ContinueFinish, native, history, NativeTypeOK, HistoryTypeOK
  <2>9. CASE ApplyMark(c)
    <3>1. mem[c] \in SavedSession /\ target[c] \in Files /\ result[c] \in Results
      BY <2>9 DEF ApplyMark, MemoryOK, Holding, AfterSave, Applying
    <3>2. [mem[c] EXCEPT !.applying = TRUE] \in SavedSession
      BY <3>1, Resaved
    <3>3. StoreTypeOK'
      <4>1. session' \in SavedSession
        BY <2>9, <3>2 DEF ApplyMark, SaveState
      <4>2. backup' \in [Files -> Content \cup {None}]
        BY <2>9, <3>1 DEF ApplyMark, StoreTypeOK, NativeTypeOK
      <4>. QED BY <2>9, <4>1, <4>2 DEF ApplyMark, StoreTypeOK
    <3>4. ControlTypeOK'
      BY <2>9, <3>1, <3>2 DEF ApplyMark, SaveState, Goto, ControlTypeOK, PCs
    <3>. QED BY <2>9, <3>3, <3>4 DEF ApplyMark, native, history, NativeTypeOK, HistoryTypeOK
  <2>10. CASE ApplyCheck(c)
    <3>1. ControlTypeOK'
      BY <2>10, ReleaseTyped DEF ApplyCheck, Goto, locals, ControlTypeOK, PCs
    <3>. QED BY <2>10, <3>1 DEF ApplyCheck, native, store, history, locals, Compares, NativeTypeOK, StoreTypeOK, HistoryTypeOK
  <2>11. CASE ApplyReplace(c)
    <3>1. mem[c] \in SavedSession /\ target[c] \in Files /\ result[c] \in Results
      BY <2>11 DEF ApplyReplace, MemoryOK, Holding, AfterSave, Applying
    <3>2. NativeTypeOK'
      BY <2>11, <3>1 DEF ApplyReplace, Overwrite, NativeTypeOK, Content
    <3>3. ControlTypeOK'
      BY <2>11, <3>1 DEF ApplyReplace, Goto, locals, ControlTypeOK, PCs
    <3>4. HistoryTypeOK'
      BY <2>11, <3>1 DEF ApplyReplace, Overwrite, HistoryTypeOK
    <3>. QED BY <2>11, <3>2, <3>3, <3>4 DEF ApplyReplace, store, locals, StoreTypeOK
  <2>12. CASE ApplyNative(c)
    <3>1. mem[c] \in SavedSession /\ target[c] \in Files /\ result[c] \in Results
      BY <2>12 DEF ApplyNative, MemoryOK, Holding, AfterSave, Applying
    <3>2. NativeTypeOK'
      BY <2>12, <3>1 DEF ApplyNative, KeepDestination, native, NativeTypeOK, Content
    <3>3. ControlTypeOK'
      BY <2>12, <3>1 DEF ApplyNative, Goto, locals, ControlTypeOK, PCs
    <3>. QED BY <2>12, <3>2, <3>3 DEF ApplyNative, native, store, locals, history, StoreTypeOK, HistoryTypeOK
  <2>13. CASE ApplyVerify(c)
    <3>1. mem[c] \in SavedSession /\ target[c] \in Files /\ result[c] \in Results
      BY <2>13 DEF ApplyVerify, MemoryOK, Holding, AfterSave, Applying
    <3>2. [mem[c] EXCEPT !.applying = FALSE, !.resolved = @ \cup {target[c]},
                     !.hash[target[c]] = result[c]] \in SavedSession
      BY <3>1 DEF SavedSession, Content
    <3>3. StoreTypeOK'
      BY <2>13, <3>1, <3>2 DEF ApplyVerify, StoreTypeOK
    <3>4. ControlTypeOK'
      BY <2>13, <3>1, <3>2, ReleaseTyped DEF ApplyVerify
    <3>5. HistoryTypeOK'
      BY <2>13, <3>1, <3>2 DEF ApplyVerify, HistoryTypeOK
    <3>. QED BY <2>13, <3>3, <3>4, <3>5 DEF ApplyVerify, native, NativeTypeOK
  <2>14. CASE ApplyRestore(c)
    <3>1. ControlTypeOK'
      BY <2>14, ReleaseTyped DEF ApplyRestore, Goto, locals, ControlTypeOK, PCs
    <3>. QED BY <2>14, <3>1 DEF ApplyRestore, native, store, history, locals, Compares, NativeTypeOK, StoreTypeOK, HistoryTypeOK
  <2>15. CASE ApplyCopyBack(c)
    <3>1. mem[c] \in SavedSession /\ target[c] \in Files /\ result[c] \in Results
           /\ backup[target[c]] \in Content
      BY <2>15 DEF ApplyCopyBack, MemoryOK, Holding, AfterSave, Applying
    <3>2. NativeTypeOK'
      BY <2>15, <3>1 DEF ApplyCopyBack, Overwrite, NativeTypeOK, Content
    <3>3. ControlTypeOK'
      BY <2>15, <3>1, ReleaseTyped DEF ApplyCopyBack
    <3>4. HistoryTypeOK'
      BY <2>15, <3>1 DEF ApplyCopyBack, Overwrite, HistoryTypeOK
    <3>. QED BY <2>15, <3>2, <3>3, <3>4 DEF ApplyCopyBack, store, StoreTypeOK
  <2>16. CASE RollbackRecord(c)
    <3>1. mem[c] \in SavedSession
      BY <2>16 DEF RollbackRecord, MemoryOK, Holding, AfterSave
    <3>2. StoreTypeOK'
      BY <2>16, <3>1 DEF RollbackRecord, Disown, store, StoreTypeOK
    <3>3. ControlTypeOK'
      BY <2>16, <3>1, ReleaseTyped DEF RollbackRecord, Goto, locals, ControlTypeOK, PCs
    <3>4. HistoryTypeOK'
      BY <2>16, <3>1 DEF RollbackRecord, NothingMerged, HistoryTypeOK
    <3>. QED BY <2>16, <3>2, <3>3, <3>4 DEF RollbackRecord, locals, store, native, NativeTypeOK
  <2>17. CASE RollbackNative(c)
    <3>1. mem[c] \in SavedSession
      BY <2>17 DEF RollbackNative, MemoryOK, Holding, AfterSave
    <3>2. NativeTypeOK'
      BY <2>17, <3>1 DEF RollbackNative, RollbackEffect, native, NativeTypeOK, Content
    <3>3. ControlTypeOK'
      BY <2>17, <3>1, ReleaseTyped DEF RollbackNative, Goto, locals, ControlTypeOK, PCs
    <3>4. HistoryTypeOK'
      BY <2>17, <3>1 DEF RollbackNative, HistoryTypeOK
    <3>. QED BY <2>17, <3>2, <3>3, <3>4 DEF RollbackNative, store, locals, native, StoreTypeOK
  <2>18. CASE RollbackFinish(c)
    <3>1. mem[c] \in SavedSession
      BY <2>18 DEF RollbackFinish, MemoryOK, Holding, AfterSave
    <3>2. [mem[c] EXCEPT !.ready = TRUE, !.mark = progress] \in SavedSession
      BY <3>1 DEF SavedSession, NativeTypeOK
    <3>3. StoreTypeOK'
      BY <2>18, <3>1, <3>2 DEF RollbackFinish, StoreTypeOK
    <3>4. ControlTypeOK'
      BY <2>18, <3>1, <3>2, ReleaseTyped DEF RollbackFinish
    <3>. QED BY <2>18, <3>3, <3>4 DEF RollbackFinish, native, history, NativeTypeOK, HistoryTypeOK
  <2>19. CASE UndoFails(c)
    <3>1. ControlTypeOK'
      BY <2>19, ReleaseTyped DEF UndoFails
    <3>. QED BY <2>19, <3>1 DEF UndoFails, native, store, history, NativeTypeOK, StoreTypeOK, HistoryTypeOK
  <2>20. CASE UndoWorks(c)
    <3>1. NativeTypeOK'
      BY <2>20 DEF UndoWorks, UndoAll, UndoFile, NativeTypeOK, Content
    <3>2. ControlTypeOK'
      BY <2>20, ReleaseTyped DEF UndoWorks, Goto, locals, ControlTypeOK, PCs
    <3>3. HistoryTypeOK'
      BY <2>20 DEF UndoWorks, NothingMerged, HistoryTypeOK
    <3>. QED BY <2>20, <3>1, <3>2, <3>3 DEF UndoWorks, store, locals, StoreTypeOK
  <2>21. CASE Retire(c)
    <3>1. StoreTypeOK'
      BY <2>21 DEF Retire, HasSession, DropIndex, Disown, StoreTypeOK
    <3>2. ControlTypeOK'
      BY <2>21, ReleaseTyped DEF Retire, Goto, locals, ControlTypeOK, PCs
    <3>3. HistoryTypeOK'
      BY <2>21 DEF Retire, DropIndex, NothingMerged, HistoryTypeOK
    <3>. QED BY <2>21, <3>1, <3>2, <3>3 DEF Retire, locals, native, NativeTypeOK
  <2>22. CASE RetireMarker(c)
    <3>1. StoreTypeOK'
      BY <2>22 DEF RetireMarker, StoreTypeOK
    <3>2. ControlTypeOK'
      BY <2>22, ReleaseTyped DEF RetireMarker, Goto, locals, ControlTypeOK, PCs
    <3>. QED BY <2>22, <3>1, <3>2 DEF RetireMarker, locals, native, history, NativeTypeOK, HistoryTypeOK
  <2>23. CASE CheckinNative(c)
    <3>1. NativeTypeOK'
      BY <2>23 DEF CheckinNative, Published, Publish, native, NativeTypeOK, Content
    <3>2. ControlTypeOK'
      BY <2>23, ReleaseTyped DEF CheckinNative, Goto, locals, ControlTypeOK, PCs
    <3>3. HistoryTypeOK'
      BY <2>23, WholeTyped DEF CheckinNative, Published, NothingMerged, HistoryTypeOK
    <3>. QED BY <2>23, <3>1, <3>2, <3>3 DEF CheckinNative, store, locals, native, StoreTypeOK
  <2>24. CASE FastCheckin(c)
    <3>1. NativeTypeOK'
      BY <2>24 DEF FastCheckin, Published, Publish, native, NativeTypeOK, Content
    <3>2. ControlTypeOK'
      BY <2>24, ReleaseTyped DEF FastCheckin
    <3>3. HistoryTypeOK'
      BY <2>24, WholeTyped DEF FastCheckin, Published, NothingMerged, HistoryTypeOK
    <3>. QED BY <2>24, <3>1, <3>2, <3>3 DEF FastCheckin, store, native, StoreTypeOK
  <2>. QED BY <1>3, <2>1, <2>2, <2>3, <2>4, <2>5, <2>6, <2>7, <2>8, <2>9, <2>10, <2>11, <2>12, <2>13, <2>14, <2>15, <2>16, <2>17, <2>18, <2>19, <2>20, <2>21, <2>22, <2>23, <2>24 DEF Continue
<1>4. ASSUME Fault PROVE TypeOK'
  <2> faults' \in 0..MaxFaults
    BY <1>4 DEF Fault
  <2>1. ASSUME NEW c \in Clients, Crash(c) PROVE TypeOK'
    <3>1. ControlTypeOK'
      BY <2>1, ReleaseTyped DEF Crash
    <3>. QED BY <2>1, <3>1 DEF Crash, native, store, history, NativeTypeOK, StoreTypeOK, HistoryTypeOK
  <2>2. ASSUME NEW c \in Clients, CrashWriting(c) PROVE TypeOK'
    <3>1. StoreTypeOK'
      BY <2>2 DEF CrashWriting, Disown, StoreTypeOK
    <3>2. ControlTypeOK'
      BY <2>2, ReleaseTyped DEF CrashWriting
    <3>. QED BY <2>2, <3>1, <3>2 DEF CrashWriting, native, history, NativeTypeOK, HistoryTypeOK
  <2>3. ASSUME NEW f \in Files, NEW e \in Edits, Edit(f, e) PROVE TypeOK'
    <3>1. NativeTypeOK'
      BY <2>3 DEF Edit, Save, NativeTypeOK, Content
    <3>. QED BY <2>3, <3>1 DEF Edit, store, locals, history, StoreTypeOK, ControlTypeOK, HistoryTypeOK
  <2>4. ASSUME ForeignUndo PROVE TypeOK'
    <3>1. NativeTypeOK'
      BY <2>4 DEF ForeignUndo, UndoAll, NativeTypeOK, Content
    <3>2. HistoryTypeOK'
      BY <2>4 DEF ForeignUndo, NothingMerged, HistoryTypeOK
    <3>. QED BY <2>4, <3>1, <3>2 DEF ForeignUndo, store, locals, StoreTypeOK, ControlTypeOK
  <2>5. ASSUME NEW f \in Files, ForeignResolve(f) PROVE TypeOK'
    <3>1. NativeTypeOK'
      BY <2>5 DEF ForeignResolve, KeepDestination, NativeTypeOK, Content
    <3>2. HistoryTypeOK'
      BY <2>5 DEF ForeignResolve, HistoryTypeOK
    <3>. QED BY <2>5, <3>1, <3>2 DEF ForeignResolve, store, locals, StoreTypeOK, ControlTypeOK
  <2>6. ASSUME NEW s \in Sources, ForeignMerge(s) PROVE TypeOK'
    <3>1. NativeTypeOK'
      BY <2>6 DEF ForeignMerge, MergeDone, NativeTypeOK, Content
    <3>2. HistoryTypeOK'
      BY <2>6 DEF ForeignMerge, MergeDone, NothingMerged, HistoryTypeOK
    <3>. QED BY <2>6, <3>1, <3>2 DEF ForeignMerge, store, locals, StoreTypeOK, ControlTypeOK
  <2>. QED BY <1>4, <2>1, <2>2, <2>3, <2>4, <2>5, <2>6 DEF Fault
<1>. QED BY <1>1, <1>2, <1>3, <1>4 DEF Next

-----------------------------------------------------------------------------
(* Gates *)

\* Release(c) takes the gates from no other client and changes nothing of it.
LEMMA ReleaseFrame ==
  ASSUME NEW c \in Clients, ControlTypeOK, Release(c)
  PROVE  /\ pc'[c] = "idle"
         /\ \A d \in Clients \ {c} :
              /\ pc'[d] = pc[d] /\ mem'[d] = mem[d]
              /\ target'[d] = target[d] /\ result'[d] = result[d]
              /\ (gate = d => gate' = d) /\ (sgate = d => sgate' = d)
<1>1. pc'[c] = "idle" /\ \A d \in Clients \ {c} : pc'[d] = pc[d]
  BY DEF Release, Goto, ControlTypeOK
<1>2. \A d \in Clients \ {c} : mem'[d] = mem[d]
  BY DEF Release, ControlTypeOK
<1>3. \A d \in Clients \ {c} : target'[d] = target[d] /\ result'[d] = result[d]
  BY DEF Release, ControlTypeOK
<1>4. \A d \in Clients \ {c} : (gate = d => gate' = d) /\ (sgate = d => sgate' = d)
  BY DEF Release
<1>. QED BY <1>1, <1>2, <1>3, <1>4

\* A client that closes its gates takes none from another.
LEMMA ReleaseKeepsGates ==
  ASSUME NEW c \in Clients, ControlTypeOK, GatesHeld, Release(c)
  PROVE  GatesHeld'
BY ReleaseFrame DEF GatesHeld, Gated, StructureGated

\* A handler that relies on a gate keeps it until it ends (OpenMergeGate is exclusive).
LEMMA GateStep == Inv1 /\ [Next]_vars => GatesHeld'
<1> SUFFICES ASSUME Inv1, [Next]_vars PROVE GatesHeld'
  OBVIOUS
<1> USE SessionAssumption DEF Inv1, TypeOK, ControlTypeOK, GatesHeld, Gated, StructureGated, PCs
<1>1. CASE UNCHANGED vars
  BY <1>1 DEF vars, native, store, locals, history
<1>2. ASSUME NEW c \in Clients, Start(c) PROVE GatesHeld'
  <2>1. CASE BeginOpen(c)
    BY <2>1 DEF BeginOpen, Idle, Goto
  <2>2. CASE GetSession(c)
    BY <2>2 DEF GetSession, Idle, Goto, locals
  <2>3. CASE DecideOpen(c)
    BY <2>3 DEF DecideOpen, Idle, Goto
  <2>4. CASE ContinueOpen(c)
    BY <2>4 DEF ContinueOpen, Idle, Goto
  <2>5. CASE CancelPlan(c)
    BY <2>5 DEF CancelPlan, Idle, Goto, locals
  <2>6. CASE ApplyOpen(c)
    BY <2>6 DEF ApplyOpen, Idle, Goto
  <2>7. CASE RollbackOpen(c)
    BY <2>7 DEF RollbackOpen, Idle, Goto
  <2>8. CASE UndoOpen(c)
    BY <2>8 DEF UndoOpen, Goto
  <2>9. CASE CheckinOpen(c)
    BY <2>9 DEF CheckinOpen, Goto, locals
  <2>10. CASE FastReview(c)
    BY <2>10 DEF FastReview, Goto, locals
  <2>11. CASE Update(c)
    BY <2>11 DEF Update, locals
  <2>. QED BY <1>2, <2>1, <2>2, <2>3, <2>4, <2>5, <2>6, <2>7, <2>8, <2>9, <2>10, <2>11 DEF Start
<1>3. ASSUME NEW c \in Clients, Continue(c) PROVE GatesHeld'
  <2>1. CASE BeginRecord(c)
    BY <2>1 DEF BeginRecord, Goto, Release, locals
  <2>2. CASE PlanRecord(c)
    BY <2>2 DEF PlanRecord, Goto
  <2>3. CASE PlanMark(c)
    BY <2>3 DEF PlanMark, Goto, locals
  <2>4. CASE PlanFinish(c)
    <3>1. Release(c)
      BY <2>4 DEF PlanFinish
    <3>. QED BY <3>1, ReleaseKeepsGates
  <2>5. CASE NativeMerge(c)
    BY <2>5 DEF NativeMerge, Release, Goto, locals
  <2>6. CASE BeginFinish(c)
    <3>1. Release(c)
      BY <2>6 DEF BeginFinish
    <3>. QED BY <3>1, ReleaseKeepsGates
  <2>7. CASE DecideFinish(c)
    <3>1. Release(c)
      BY <2>7 DEF DecideFinish
    <3>. QED BY <3>1, ReleaseKeepsGates
  <2>8. CASE ContinueFinish(c)
    BY <2>8 DEF ContinueFinish, Goto
  <2>9. CASE ApplyMark(c)
    BY <2>9 DEF ApplyMark, Goto
  <2>10. CASE ApplyCheck(c)
    BY <2>10 DEF ApplyCheck, Goto, Release, locals
  <2>11. CASE ApplyReplace(c)
    BY <2>11 DEF ApplyReplace, Goto, locals
  <2>12. CASE ApplyNative(c)
    BY <2>12 DEF ApplyNative, Goto, locals
  <2>13. CASE ApplyVerify(c)
    <3>1. Release(c)
      BY <2>13 DEF ApplyVerify
    <3>. QED BY <3>1, ReleaseKeepsGates
  <2>14. CASE ApplyRestore(c)
    BY <2>14 DEF ApplyRestore, Goto, Release, locals
  <2>15. CASE ApplyCopyBack(c)
    <3>1. Release(c)
      BY <2>15 DEF ApplyCopyBack
    <3>. QED BY <3>1, ReleaseKeepsGates
  <2>16. CASE RollbackRecord(c)
    BY <2>16 DEF RollbackRecord, Goto, Release, locals
  <2>17. CASE RollbackNative(c)
    BY <2>17 DEF RollbackNative, Goto, Release, locals
  <2>18. CASE RollbackFinish(c)
    <3>1. Release(c)
      BY <2>18 DEF RollbackFinish
    <3>. QED BY <3>1, ReleaseKeepsGates
  <2>19. CASE UndoFails(c)
    <3>1. Release(c)
      BY <2>19 DEF UndoFails
    <3>. QED BY <3>1, ReleaseKeepsGates
  <2>20. CASE UndoWorks(c)
    BY <2>20 DEF UndoWorks, Goto, Release, locals
  <2>21. CASE Retire(c)
    BY <2>21 DEF Retire, Goto, Release, locals
  <2>22. CASE RetireMarker(c)
    BY <2>22 DEF RetireMarker, Release, Goto, locals
  <2>23. CASE CheckinNative(c)
    BY <2>23 DEF CheckinNative, Release, Goto, locals
  <2>24. CASE FastCheckin(c)
    <3>1. Release(c)
      BY <2>24 DEF FastCheckin
    <3>. QED BY <3>1, ReleaseKeepsGates
  <2>. QED BY <1>3, <2>1, <2>2, <2>3, <2>4, <2>5, <2>6, <2>7, <2>8, <2>9, <2>10, <2>11, <2>12, <2>13, <2>14, <2>15, <2>16, <2>17, <2>18, <2>19, <2>20, <2>21, <2>22, <2>23, <2>24 DEF Continue
<1>4. ASSUME Fault PROVE GatesHeld'
  <2>1. ASSUME NEW c \in Clients, Crash(c) PROVE GatesHeld'
    BY <2>1, ReleaseKeepsGates DEF Crash
  <2>2. ASSUME NEW c \in Clients, CrashWriting(c) PROVE GatesHeld'
    BY <2>2, ReleaseKeepsGates DEF CrashWriting
  <2>3. ASSUME NEW f \in Files, NEW e \in Edits, Edit(f, e) PROVE GatesHeld'
    BY <2>3 DEF Edit, locals
  <2>4. ASSUME ForeignUndo PROVE GatesHeld'
    BY <2>4 DEF ForeignUndo, locals
  <2>5. ASSUME NEW f \in Files, ForeignResolve(f) PROVE GatesHeld'
    BY <2>5 DEF ForeignResolve, locals
  <2>6. ASSUME NEW s \in Sources, ForeignMerge(s) PROVE GatesHeld'
    BY <2>6 DEF ForeignMerge, locals
  <2>. QED BY <1>4, <2>1, <2>2, <2>3, <2>4, <2>5, <2>6 DEF Fault
<1>. QED BY <1>1, <1>2, <1>3, <1>4 DEF Next

\* No step of another client changes a session that a handler has saved and goes on with.
LEMMA SaveStep == Inv1 /\ [Next]_vars => NoLostSave'
<1> SUFFICES ASSUME Inv1, [Next]_vars PROVE NoLostSave'
  OBVIOUS
<1> USE SessionAssumption DEF Inv1, TypeOK, ControlTypeOK, GatesHeld, NoLostSave, Gated, AfterSave, PCs
<1>1. CASE UNCHANGED vars
  BY <1>1 DEF vars, native, store, locals, history
<1>2. ASSUME NEW c \in Clients, Start(c) PROVE NoLostSave'
  <2>1. CASE BeginOpen(c)
    BY <2>1 DEF BeginOpen, Idle, Goto, store
  <2>2. CASE GetSession(c)
    BY <2>2 DEF GetSession, Idle, DropIndex, Goto, locals
  <2>3. CASE DecideOpen(c)
    BY <2>3 DEF DecideOpen, Idle, SaveState, Goto
  <2>4. CASE ContinueOpen(c)
    BY <2>4 DEF ContinueOpen, Idle, SaveState, Goto
  <2>5. CASE CancelPlan(c)
    BY <2>5 DEF CancelPlan, Idle, DropIndex, Goto, locals
  <2>6. CASE ApplyOpen(c)
    BY <2>6 DEF ApplyOpen, Idle, Goto, store
  <2>7. CASE RollbackOpen(c)
    BY <2>7 DEF RollbackOpen, Idle, Goto, store
  <2>8. CASE UndoOpen(c)
    BY <2>8 DEF UndoOpen, Goto, store
  <2>9. CASE CheckinOpen(c)
    BY <2>9 DEF CheckinOpen, DropIndex, Goto, locals, store
  <2>10. CASE FastReview(c)
    BY <2>10 DEF FastReview, Goto, store, locals
  <2>11. CASE Update(c)
    BY <2>11 DEF Update, store, locals
  <2>. QED BY <1>2, <2>1, <2>2, <2>3, <2>4, <2>5, <2>6, <2>7, <2>8, <2>9, <2>10, <2>11 DEF Start
<1>3. ASSUME NEW c \in Clients, Continue(c) PROVE NoLostSave'
  <2>1. CASE BeginRecord(c)
    BY <2>1 DEF BeginRecord, Goto, Release, locals, store
  <2>2. CASE PlanRecord(c)
    BY <2>2 DEF PlanRecord, SaveState, Goto
  <2>3. CASE PlanMark(c)
    BY <2>3 DEF PlanMark, Goto, locals
  <2>4. CASE PlanFinish(c)
    BY <2>4, ReleaseFrame DEF PlanFinish
  <2>5. CASE NativeMerge(c)
    BY <2>5 DEF NativeMerge, Release, Goto, store, locals
  <2>6. CASE BeginFinish(c)
    BY <2>6, ReleaseFrame DEF BeginFinish
  <2>7. CASE DecideFinish(c)
    <3>1. Release(c) /\ gate = c
      BY <2>7 DEF DecideFinish
    <3>. QED BY <3>1, ReleaseFrame
  <2>8. CASE ContinueFinish(c)
    BY <2>8 DEF ContinueFinish, SaveState, Goto
  <2>9. CASE ApplyMark(c)
    BY <2>9 DEF ApplyMark, SaveState, Goto
  <2>10. CASE ApplyCheck(c)
    BY <2>10 DEF ApplyCheck, Goto, Release, store, locals
  <2>11. CASE ApplyReplace(c)
    BY <2>11 DEF ApplyReplace, Goto, store, locals
  <2>12. CASE ApplyNative(c)
    BY <2>12 DEF ApplyNative, Goto, store, locals
  <2>13. CASE ApplyVerify(c)
    BY <2>13, ReleaseFrame DEF ApplyVerify
  <2>14. CASE ApplyRestore(c)
    BY <2>14 DEF ApplyRestore, Goto, Release, store, locals
  <2>15. CASE ApplyCopyBack(c)
    BY <2>15, ReleaseFrame DEF ApplyCopyBack, store
  <2>16. CASE RollbackRecord(c)
    BY <2>16 DEF RollbackRecord, Goto, Release, locals, store
  <2>17. CASE RollbackNative(c)
    BY <2>17 DEF RollbackNative, Goto, Release, store, locals
  <2>18. CASE RollbackFinish(c)
    BY <2>18, ReleaseFrame DEF RollbackFinish
  <2>19. CASE UndoFails(c)
    BY <2>19, ReleaseFrame DEF UndoFails, store
  <2>20. CASE UndoWorks(c)
    BY <2>20 DEF UndoWorks, Goto, Release, store, locals
  <2>21. CASE Retire(c)
    BY <2>21 DEF Retire, DropIndex, Goto, Release, locals
  <2>22. CASE RetireMarker(c)
    BY <2>22 DEF RetireMarker, Release, Goto, locals
  <2>23. CASE CheckinNative(c)
    BY <2>23 DEF CheckinNative, Release, Goto, store, locals
  <2>24. CASE FastCheckin(c)
    BY <2>24, ReleaseFrame DEF FastCheckin, store
  <2>. QED BY <1>3, <2>1, <2>2, <2>3, <2>4, <2>5, <2>6, <2>7, <2>8, <2>9, <2>10, <2>11, <2>12, <2>13, <2>14, <2>15, <2>16, <2>17, <2>18, <2>19, <2>20, <2>21, <2>22, <2>23, <2>24 DEF Continue
<1>4. ASSUME Fault PROVE NoLostSave'
  <2>1. ASSUME NEW c \in Clients, Crash(c) PROVE NoLostSave'
    BY <2>1, ReleaseFrame DEF Crash, store
  <2>2. ASSUME NEW c \in Clients, CrashWriting(c) PROVE NoLostSave'
    BY <2>2, ReleaseFrame DEF CrashWriting
  <2>3. ASSUME NEW f \in Files, NEW e \in Edits, Edit(f, e) PROVE NoLostSave'
    BY <2>3 DEF Edit, store, locals
  <2>4. ASSUME ForeignUndo PROVE NoLostSave'
    BY <2>4 DEF ForeignUndo, store, locals
  <2>5. ASSUME NEW f \in Files, ForeignResolve(f) PROVE NoLostSave'
    BY <2>5 DEF ForeignResolve, store, locals
  <2>6. ASSUME NEW s \in Sources, ForeignMerge(s) PROVE NoLostSave'
    BY <2>6 DEF ForeignMerge, store, locals
  <2>. QED BY <1>4, <2>1, <2>2, <2>3, <2>4, <2>5, <2>6 DEF Fault
<1>. QED BY <1>1, <1>2, <1>3, <1>4 DEF Next

\* What a handler has loaded keeps the form its next step needs.
LEMMA MemoryStep == Inv1 /\ [Next]_vars => MemoryOK'
<1> SUFFICES ASSUME Inv1, [Next]_vars PROVE MemoryOK'
  OBVIOUS
<1> USE SessionAssumption DEF Inv1, TypeOK, ControlTypeOK, StoreTypeOK, NativeTypeOK, GatesHeld, MemoryOK, NoLostSave, Gated, Holding, Applying, AfterSave, PCs
<1>1. CASE UNCHANGED vars
  BY <1>1 DEF vars, native, store, locals, history
<1>2. ASSUME NEW c \in Clients, Start(c) PROVE MemoryOK'
  <2>1. CASE BeginOpen(c)
    <3>1. UNCHANGED <<target, result, backup>>
      BY <2>1 DEF BeginOpen, store
    <3>2. PICK s \in Sources : mem' = [mem EXCEPT ![c] = FreshSession(s)]
      BY <2>1 DEF BeginOpen
    <3>3. mem'[c] \in SavedSession /\ ~mem'[c].ready /\ ~mem'[c].awaiting /\ ~mem'[c].rollback
      <4>1. FreshSession(s) \in SavedSession
        BY FreshTyped
      <4>. QED BY <3>2, <4>1 DEF FreshSession
    <3>4. pc'[c] \in {"begin_checked", "plan_checked"}
      BY <2>1 DEF BeginOpen, Goto
    <3>5. \A d \in Clients \ {c} : pc'[d] = pc[d] /\ mem'[d] = mem[d]
      BY <2>1, <3>2 DEF BeginOpen, Goto
    <3>. QED BY <3>1, <3>3, <3>4, <3>5
  <2>2. CASE GetSession(c)
    BY <2>2 DEF GetSession, Idle, HasSession, Goto, locals
  <2>3. CASE DecideOpen(c)
    <3>1. session \in SavedSession /\ session.awaiting
      BY <2>3 DEF DecideOpen, HasSession
    <3>2. [session EXCEPT !.applying = TRUE] \in SavedSession
      BY <3>1, Resaved
    <3>3. mem'[c] \in SavedSession /\ mem'[c].awaiting
      BY <2>3, <3>1, <3>2 DEF DecideOpen, SaveState, SavedSession
    <3>4. pc'[c] = "decide_native" /\ UNCHANGED <<target, result, backup>>
      BY <2>3 DEF DecideOpen, Goto
    <3>5. \A d \in Clients \ {c} : pc'[d] = pc[d] /\ mem'[d] = mem[d]
      BY <2>3 DEF DecideOpen, SaveState, Goto
    <3>. QED BY <3>1, <3>3, <3>4, <3>5
  <2>4. CASE ContinueOpen(c)
    <3>1. session \in SavedSession
      BY <2>4 DEF ContinueOpen, HasSession
    <3>2. [session EXCEPT !.ready = FALSE, !.awaiting = FALSE] \in SavedSession
      BY <3>1, Resaved
    <3>3. mem'[c] \in SavedSession /\ ~mem'[c].ready /\ ~mem'[c].awaiting /\ ~mem'[c].rollback
      BY <2>4, <3>1, <3>2 DEF ContinueOpen, SaveState, SavedSession
    <3>4. pc'[c] = "continue_native" /\ UNCHANGED <<target, result, backup>>
      BY <2>4 DEF ContinueOpen, Goto
    <3>5. \A d \in Clients \ {c} : pc'[d] = pc[d] /\ mem'[d] = mem[d]
      BY <2>4 DEF ContinueOpen, SaveState, Goto
    <3>. QED BY <3>1, <3>3, <3>4, <3>5
  <2>5. CASE CancelPlan(c)
    BY <2>5 DEF CancelPlan, Idle, HasSession, Goto, locals
  <2>6. CASE ApplyOpen(c)
    <3>1. session \in SavedSession
      BY <2>6 DEF ApplyOpen, HasSession
    <3>2. mem'[c] \in SavedSession /\ pc'[c] = "apply_open"
      BY <2>6, <3>1 DEF ApplyOpen, Goto
    <3>3. target'[c] \in Files /\ result'[c] \in Results
      <4>1. FileConflicts[session.source] \subseteq Files
        BY <3>1, NativeAssumption DEF SavedSession
      <4>. QED BY <2>6, <4>1 DEF ApplyOpen
    <3>4. UNCHANGED backup
      BY <2>6 DEF ApplyOpen, store
    <3>5. \A d \in Clients \ {c} : /\ pc'[d] = pc[d] /\ mem'[d] = mem[d]
                                   /\ target'[d] = target[d] /\ result'[d] = result[d]
      BY <2>6 DEF ApplyOpen, Goto
    <3>. QED BY <3>2, <3>3, <3>4, <3>5
  <2>7. CASE RollbackOpen(c)
    <3>1. UNCHANGED <<target, result, backup>>
      BY <2>7 DEF RollbackOpen, store
    <3>2. mem'[c] \in SavedSession /\ ~mem'[c].ready /\ ~mem'[c].awaiting /\ mem'[c].rollback
      BY <2>7, RollbackTyped DEF RollbackOpen, FreshSession
    <3>3. pc'[c] = "rollback_checked"
      BY <2>7 DEF RollbackOpen, Goto
    <3>4. \A d \in Clients \ {c} : pc'[d] = pc[d] /\ mem'[d] = mem[d]
      BY <2>7 DEF RollbackOpen, Goto
    <3>. QED BY <3>1, <3>2, <3>3, <3>4
  <2>8. CASE UndoOpen(c)
    BY <2>8 DEF UndoOpen, HasSession, Goto, store
  <2>9. CASE CheckinOpen(c)
    BY <2>9 DEF CheckinOpen, HasSession, Goto, locals, store
  <2>10. CASE FastReview(c)
    BY <2>10 DEF FastReview, Goto, store, locals
  <2>11. CASE Update(c)
    BY <2>11 DEF Update, store, locals
  <2>. QED BY <1>2, <2>1, <2>2, <2>3, <2>4, <2>5, <2>6, <2>7, <2>8, <2>9, <2>10, <2>11 DEF Start
<1>3. ASSUME NEW c \in Clients, Continue(c) PROVE MemoryOK'
  <2>1. CASE BeginRecord(c)
    BY <2>1 DEF BeginRecord, Goto, Release, locals, store
  <2>2. CASE PlanRecord(c)
    <3>1. mem[c] \in SavedSession
      BY <2>2 DEF PlanRecord
    <3>2. [mem[c] EXCEPT !.awaiting = TRUE, !.fingerprint = bytes] \in SavedSession
      BY <3>1 DEF SavedSession
    <3>3. mem'[c] \in SavedSession /\ mem'[c].awaiting
      BY <2>2, <3>1, <3>2 DEF PlanRecord, SaveState, SavedSession
    <3>4. pc'[c] = "plan_mark" /\ UNCHANGED <<target, result>>
      BY <2>2 DEF PlanRecord, Goto
    <3>5. \A d \in Clients \ {c} : pc'[d] = pc[d] /\ mem'[d] = mem[d] /\ pc[d] \notin Gated
      BY <2>2 DEF PlanRecord, SaveState, Goto
    <3>. QED BY <3>1, <3>3, <3>4, <3>5
  <2>3. CASE PlanMark(c)
    BY <2>3 DEF PlanMark, Goto, locals
  <2>4. CASE PlanFinish(c)
    BY <2>4, ReleaseFrame DEF PlanFinish
  <2>5. CASE NativeMerge(c)
    BY <2>5 DEF NativeMerge, Release, Goto, store, locals
  <2>6. CASE BeginFinish(c)
    BY <2>6, ReleaseFrame DEF BeginFinish
  <2>7. CASE DecideFinish(c)
    <3>1. Release(c) /\ UNCHANGED backup
      BY <2>7 DEF DecideFinish
    <3>. QED BY <3>1, ReleaseFrame
  <2>8. CASE ContinueFinish(c)
    BY <2>8 DEF ContinueFinish, SaveState, Goto
  <2>9. CASE ApplyMark(c)
    <3>1. mem[c] \in SavedSession /\ target[c] \in Files /\ result[c] \in Results
      BY <2>9 DEF ApplyMark
    <3>2. [mem[c] EXCEPT !.applying = TRUE] \in SavedSession
      BY <3>1, Resaved
    <3>3. mem'[c] \in SavedSession /\ mem'[c].applying
      <4>1. mem'[c] = [mem[c] EXCEPT !.applying = TRUE]
        BY <2>9 DEF ApplyMark, SaveState
      <4>. QED BY <3>1, <3>2, <4>1 DEF SavedSession
    <3>4. pc'[c] = "apply_marked" /\ UNCHANGED <<target, result>>
      BY <2>9 DEF ApplyMark, Goto
    <3>5. backup'[target[c]] \in Content
      BY <2>9, <3>1 DEF ApplyMark
    <3>6. \A d \in Clients \ {c} : pc'[d] = pc[d] /\ mem'[d] = mem[d] /\ pc[d] \notin Gated
      BY <2>9 DEF ApplyMark, SaveState, Goto
    <3>. QED BY <3>1, <3>3, <3>4, <3>5, <3>6
  <2>10. CASE ApplyCheck(c)
    BY <2>10 DEF ApplyCheck, Goto, Release, store, locals
  <2>11. CASE ApplyReplace(c)
    BY <2>11 DEF ApplyReplace, Goto, store, locals
  <2>12. CASE ApplyNative(c)
    BY <2>12 DEF ApplyNative, Goto, store, locals
  <2>13. CASE ApplyVerify(c)
    BY <2>13, ReleaseFrame DEF ApplyVerify
  <2>14. CASE ApplyRestore(c)
    BY <2>14 DEF ApplyRestore, Goto, Release, store, locals
  <2>15. CASE ApplyCopyBack(c)
    BY <2>15, ReleaseFrame DEF ApplyCopyBack, store
  <2>16. CASE RollbackRecord(c)
    BY <2>16 DEF RollbackRecord, Goto, Release, locals, store
  <2>17. CASE RollbackNative(c)
    BY <2>17 DEF RollbackNative, Goto, Release, store, locals
  <2>18. CASE RollbackFinish(c)
    BY <2>18, ReleaseFrame DEF RollbackFinish
  <2>19. CASE UndoFails(c)
    BY <2>19, ReleaseFrame DEF UndoFails, store
  <2>20. CASE UndoWorks(c)
    BY <2>20 DEF UndoWorks, Goto, Release, store, locals
  <2>21. CASE Retire(c)
    BY <2>21 DEF Retire, HasSession, Goto, Release, locals
  <2>22. CASE RetireMarker(c)
    BY <2>22 DEF RetireMarker, Release, Goto, locals
  <2>23. CASE CheckinNative(c)
    BY <2>23 DEF CheckinNative, Release, Goto, store, locals
  <2>24. CASE FastCheckin(c)
    BY <2>24, ReleaseFrame DEF FastCheckin, store
  <2>. QED BY <1>3, <2>1, <2>2, <2>3, <2>4, <2>5, <2>6, <2>7, <2>8, <2>9, <2>10, <2>11, <2>12, <2>13, <2>14, <2>15, <2>16, <2>17, <2>18, <2>19, <2>20, <2>21, <2>22, <2>23, <2>24 DEF Continue
<1>4. ASSUME Fault PROVE MemoryOK'
  <2>1. ASSUME NEW c \in Clients, Crash(c) PROVE MemoryOK'
    BY <2>1, ReleaseFrame DEF Crash, store
  <2>2. ASSUME NEW c \in Clients, CrashWriting(c) PROVE MemoryOK'
    BY <2>2, ReleaseFrame DEF CrashWriting
  <2>3. ASSUME NEW f \in Files, NEW e \in Edits, Edit(f, e) PROVE MemoryOK'
    BY <2>3 DEF Edit, store, locals
  <2>4. ASSUME ForeignUndo PROVE MemoryOK'
    BY <2>4 DEF ForeignUndo, store, locals
  <2>5. ASSUME NEW f \in Files, ForeignResolve(f) PROVE MemoryOK'
    BY <2>5 DEF ForeignResolve, store, locals
  <2>6. ASSUME NEW s \in Sources, ForeignMerge(s) PROVE MemoryOK'
    BY <2>6 DEF ForeignMerge, store, locals
  <2>. QED BY <1>4, <2>1, <2>2, <2>3, <2>4, <2>5, <2>6 DEF Fault
<1>. QED BY <1>1, <1>2, <1>3, <1>4 DEF Next

\* Typing, gates, memory and saved sessions are inductive.
LEMMA Inv1Step == Inv1 /\ [Next]_vars => Inv1'
BY TypeStep, GateStep, SaveStep, MemoryStep DEF Inv1

\* They hold in the initial state.
LEMMA Inv1Init == Init => Inv1
<1> SUFFICES ASSUME Init PROVE Inv1
  OBVIOUS
<1> USE NativeAssumption, SessionAssumption DEF Init, NativeInit
<1>1. NativeTypeOK
  BY DEF NativeTypeOK, Content
<1>2. StoreTypeOK /\ HistoryTypeOK /\ faults \in 0..MaxFaults
  <2>1. StoreTypeOK
    BY DEF StoreTypeOK
  <2>2. last \in [path : {"none", "free", "gated", "fast"}, whole : BOOLEAN]
    OBVIOUS
  <2>3. HistoryTypeOK
    BY <2>2 DEF HistoryTypeOK
  <2>. QED BY <2>1, <2>3
<1>3. ControlTypeOK
  BY DEF ControlTypeOK, PCs
<1>4. GatesHeld /\ MemoryOK /\ NoLostSave
  BY DEF GatesHeld, MemoryOK, NoLostSave, Gated, StructureGated, Holding, Applying, AfterSave
<1>. QED BY <1>1, <1>2, <1>3, <1>4 DEF Inv1, TypeOK

-----------------------------------------------------------------------------
(* No merge without a session *)

Resaving(c) ==
  \/ PlanFinish(c) \/ BeginFinish(c) \/ DecideFinish(c) \/ ContinueFinish(c)
  \/ ApplyMark(c) \/ ApplyVerify(c) \/ RollbackFinish(c)

\* A handler that saves its session again keeps what identifies the merge.
LEMMA Resaves ==
  ASSUME Inv1, NEW c \in Clients, Resaving(c)
  PROVE  /\ HasSession /\ HasSession'
         /\ session \in SavedSession /\ session' \in SavedSession
         /\ session'.source = session.source
         /\ session'.rollback = session.rollback
         /\ session'.awaiting = session.awaiting
<1> DEFINE m == mem[c]
           Kept == /\ session' \in SavedSession
                   /\ session'.source = m.source /\ session'.rollback = m.rollback
                   /\ session'.awaiting = m.awaiting
<1>1. m \in SavedSession /\ session = m
  BY DEF Resaving, Inv1, NoLostSave, MemoryOK, AfterSave, Holding, PlanFinish, BeginFinish,
         DecideFinish, ContinueFinish, ApplyMark, ApplyVerify, RollbackFinish
<1>2. NativeTypeOK /\ FileConflicts[m.source] \subseteq Files
  BY <1>1, NativeAssumption DEF Inv1, TypeOK, SavedSession
<1>3. CASE PlanFinish(c)
  <2>1. Kept
    BY <1>1, <1>2, <1>3 DEF PlanFinish, SavedSession, NativeTypeOK, Preview
  <2>. QED BY <1>1, <2>1, SessionAssumption DEF HasSession
<1>4. CASE BeginFinish(c)
  <2>1. Kept
    BY <1>1, <1>2, <1>4 DEF BeginFinish, SavedSession, NativeTypeOK, Preview
  <2>. QED BY <1>1, <2>1, SessionAssumption DEF HasSession
<1>5. CASE DecideFinish(c)
  <2>1. Kept
    BY <1>1, <1>2, <1>5, ZenonT(60) DEF DecideFinish, SavedSession, NativeTypeOK, Preview
  <2>. QED BY <1>1, <2>1, SessionAssumption DEF HasSession
<1>6. CASE ContinueFinish(c)
  <2>1. Kept
    BY <1>1, <1>2, <1>6 DEF ContinueFinish, SaveState, SavedSession, NativeTypeOK, Preview
  <2>. QED BY <1>1, <2>1, SessionAssumption DEF HasSession
<1>7. CASE RollbackFinish(c)
  <2>1. Kept
    BY <1>1, <1>2, <1>7 DEF RollbackFinish, SavedSession, NativeTypeOK, Preview
  <2>. QED BY <1>1, <2>1, SessionAssumption DEF HasSession
<1>8. CASE ApplyMark(c)
  <2>1. session' = [m EXCEPT !.applying = TRUE]
    BY <1>8 DEF ApplyMark, SaveState
  <2>2. Kept
    BY <1>1, <2>1 DEF SavedSession
  <2>. QED BY <1>1, <2>2, SessionAssumption DEF HasSession
<1>9. CASE ApplyVerify(c)
  <2>1. target[c] \in Files /\ result[c] \in Content
    BY <1>9 DEF ApplyVerify, Inv1, MemoryOK, Applying, Content
  <2>2. [m EXCEPT !.applying = FALSE, !.resolved = @ \cup {target[c]},
                   !.hash[target[c]] = result[c]] \in SavedSession
    BY <1>1, <2>1 DEF SavedSession
  <2>3. \/ session' = session
        \/ session' = [m EXCEPT !.applying = FALSE, !.resolved = @ \cup {target[c]},
                                !.hash[target[c]] = result[c]]
    BY <1>9 DEF ApplyVerify
  <2>4. Kept
    BY <1>1, <2>2, <2>3 DEF SavedSession
  <2>. QED BY <1>1, <2>4, SessionAssumption DEF HasSession
<1>. QED BY <1>3, <1>4, <1>5, <1>6, <1>7, <1>8, <1>9 DEF Resaving

\* No step leaves a merge of TortoiseSCM without a session.
LEMMA Inv2Step == Inv1 /\ Inv2 /\ [Next]_vars => Inv2'
<1> SUFFICES ASSUME Inv1, Inv1', Inv2, [Next]_vars PROVE Inv2'
  BY Inv1Step
<1> USE SessionAssumption DEF Inv1, Inv2, PlanMergesNothing, MergeIsTracked, HasSession, TypeOK, ControlTypeOK, StoreTypeOK, NoLostSave, MemoryOK, Holding, AfterSave
<1>1. CASE UNCHANGED vars
  BY <1>1 DEF vars, native, store, locals, history
<1>2. ASSUME NEW c \in Clients, Start(c) PROVE Inv2'
  <2>1. CASE BeginOpen(c)
    BY <2>1 DEF BeginOpen, Goto, store, history
  <2>2. CASE GetSession(c)
    BY <2>2 DEF GetSession, Retirable, DropIndex, Goto, NothingMerged, Clean
  <2>3. CASE DecideOpen(c)
    BY <2>3 DEF DecideOpen, ValidSession, SaveState, Goto, history
  <2>4. CASE ContinueOpen(c)
    BY <2>4 DEF ContinueOpen, ValidSession, SaveState, Goto, history
  <2>5. CASE CancelPlan(c)
    BY <2>5 DEF CancelPlan, DropIndex, Goto, NothingMerged, Clean
  <2>6. CASE ApplyOpen(c)
    BY <2>6 DEF ApplyOpen, ValidSession, Goto, store, history
  <2>7. CASE RollbackOpen(c)
    BY <2>7 DEF RollbackOpen, Goto, store, history
  <2>8. CASE UndoOpen(c)
    BY <2>8 DEF UndoOpen, Goto, store, history
  <2>9. CASE CheckinOpen(c)
    BY <2>9 DEF CheckinOpen, Retirable, DropIndex, Goto, NothingMerged, store, Clean
  <2>10. CASE FastReview(c)
    BY <2>10 DEF FastReview, Goto, store, history
  <2>11. CASE Update(c)
    BY <2>11 DEF Update, store, history
  <2>. QED BY <1>2, <2>1, <2>2, <2>3, <2>4, <2>5, <2>6, <2>7, <2>8, <2>9, <2>10, <2>11 DEF Start
<1>3. ASSUME NEW c \in Clients, Continue(c) PROVE Inv2'
  <2>1. CASE BeginRecord(c)
    BY <2>1 DEF BeginRecord, Goto, Release, NothingMerged, store
  <2>2. CASE PlanRecord(c)
    BY <2>2 DEF PlanRecord, SaveState, Goto, NothingMerged
  <2>3. CASE PlanMark(c)
    BY <2>3 DEF PlanMark, Goto, history
  <2>4. CASE PlanFinish(c)
    BY <2>4, ReleaseFrame DEF PlanFinish, history
  <2>5. CASE NativeMerge(c)
    BY <2>5 DEF NativeMerge, Release, Goto, store
  <2>6. CASE BeginFinish(c)
    <3>1. UNCHANGED ours
      BY <2>6 DEF BeginFinish, history
    <3>. QED BY <2>6, <3>1, Resaves DEF Resaving
  <2>7. CASE DecideFinish(c)
    <3>1. UNCHANGED ours
      BY <2>7 DEF DecideFinish, history
    <3>. QED BY <2>7, <3>1, Resaves DEF Resaving
  <2>8. CASE ContinueFinish(c)
    <3>1. UNCHANGED ours
      BY <2>8 DEF ContinueFinish, history
    <3>. QED BY <2>8, <3>1, Resaves DEF Resaving
  <2>9. CASE ApplyMark(c)
    <3>1. UNCHANGED ours
      BY <2>9 DEF ApplyMark, history
    <3>. QED BY <2>9, <3>1, Resaves DEF Resaving
  <2>10. CASE ApplyCheck(c)
    BY <2>10 DEF ApplyCheck, Goto, Release, store, history
  <2>11. CASE ApplyReplace(c)
    BY <2>11 DEF ApplyReplace, Goto, store
  <2>12. CASE ApplyNative(c)
    BY <2>12 DEF ApplyNative, Goto, store, history
  <2>13. CASE ApplyVerify(c)
    <3>1. UNCHANGED ours
      BY <2>13 DEF ApplyVerify
    <3>. QED BY <2>13, <3>1, Resaves DEF Resaving
  <2>14. CASE ApplyRestore(c)
    BY <2>14 DEF ApplyRestore, Goto, Release, store, history
  <2>15. CASE ApplyCopyBack(c)
    BY <2>15, ReleaseFrame DEF ApplyCopyBack, store
  <2>16. CASE RollbackRecord(c)
    BY <2>16 DEF RollbackRecord, Goto, Release, NothingMerged, store
  <2>17. CASE RollbackNative(c)
    BY <2>17 DEF RollbackNative, Goto, Release, store
  <2>18. CASE RollbackFinish(c)
    <3>1. UNCHANGED ours
      BY <2>18 DEF RollbackFinish, history
    <3>. QED BY <2>18, <3>1, Resaves DEF Resaving
  <2>19. CASE UndoFails(c)
    BY <2>19, ReleaseFrame DEF UndoFails, store, history
  <2>20. CASE UndoWorks(c)
    BY <2>20 DEF UndoWorks, NothingMerged, Goto, Release, store
  <2>21. CASE Retire(c)
    BY <2>21 DEF Retire, Retirable, DropIndex, Goto, Release, NothingMerged, Clean
  <2>22. CASE RetireMarker(c)
    BY <2>22 DEF RetireMarker, Release, Goto, history
  <2>23. CASE CheckinNative(c)
    BY <2>23 DEF CheckinNative, Published, NothingMerged, Release, Goto, store
  <2>24. CASE FastCheckin(c)
    BY <2>24, ReleaseFrame DEF FastCheckin, Published, NothingMerged, store
  <2>. QED BY <1>3, <2>1, <2>2, <2>3, <2>4, <2>5, <2>6, <2>7, <2>8, <2>9, <2>10, <2>11, <2>12, <2>13, <2>14, <2>15, <2>16, <2>17, <2>18, <2>19, <2>20, <2>21, <2>22, <2>23, <2>24 DEF Continue
<1>4. ASSUME Fault PROVE Inv2'
  <2>1. ASSUME NEW c \in Clients, Crash(c) PROVE Inv2'
    BY <2>1, ReleaseFrame DEF Crash, store, history
  <2>2. ASSUME NEW c \in Clients, CrashWriting(c) PROVE Inv2'
    BY <2>2, ReleaseFrame DEF CrashWriting, history
  <2>3. ASSUME NEW f \in Files, NEW e \in Edits, Edit(f, e) PROVE Inv2'
    BY <2>3 DEF Edit, store, history
  <2>4. ASSUME ForeignUndo PROVE Inv2'
    BY <2>4 DEF ForeignUndo, NothingMerged, store
  <2>5. ASSUME NEW f \in Files, ForeignResolve(f) PROVE Inv2'
    BY <2>5 DEF ForeignResolve, store
  <2>6. ASSUME NEW s \in Sources, ForeignMerge(s) PROVE Inv2'
    BY <2>6 DEF ForeignMerge, NothingMerged, store
  <2>. QED BY <1>4, <2>1, <2>2, <2>3, <2>4, <2>5, <2>6 DEF Fault
<1>. QED BY <1>1, <1>2, <1>3, <1>4 DEF Next

\* There is no merge in the initial state.
LEMMA Inv2Init == Init => Inv2
BY SessionAssumption DEF Init, Inv2, PlanMergesNothing, MergeIsTracked, HasSession

-----------------------------------------------------------------------------
(* What is ready is decided *)

\* A handler between two native calls knows what has been decided.
LEMMA HandlersStep == Inv1 /\ Inv2 /\ Inv3 /\ [Next]_vars => HandlersDecide'
<1> SUFFICES ASSUME Inv1 /\ Inv2 /\ Inv3, [Next]_vars PROVE HandlersDecide'
  OBVIOUS
<1> USE DEF Inv1, Inv2, Inv3, PlanMergesNothing, ReadyIsDecided, HandlersDecide, Decided, HasSession, TypeOK, ControlTypeOK, HistoryTypeOK, NativeTypeOK, GatesHeld, Gated, PCs, Applying
<1>1. CASE UNCHANGED vars
  BY <1>1 DEF vars, native, store, locals, history
<1>2. ASSUME NEW c \in Clients, Start(c) PROVE HandlersDecide'
  <2>1. CASE BeginOpen(c)
    <3>1. UNCHANGED <<conflicts, settled, ours, target>>
      BY <2>1 DEF BeginOpen, native, history
    <3>2. /\ pc'[c] \in {"begin_checked", "plan_checked"}
          /\ \A d \in Clients \ {c} : pc'[d] = pc[d]
      BY <2>1 DEF BeginOpen, Goto
    <3>. QED BY <3>1, <3>2
  <2>2. CASE GetSession(c)
    BY <2>2 DEF GetSession, Idle, HasSession, DropIndex, Goto, NothingMerged, locals, native
  <2>3. CASE DecideOpen(c)
    BY <2>3 DEF DecideOpen, Idle, ValidSession, HasSession, SaveState, Goto, native, history
  <2>4. CASE ContinueOpen(c)
    BY <2>4 DEF ContinueOpen, Idle, ValidSession, HasSession, SaveState, Goto, native, history
  <2>5. CASE CancelPlan(c)
    BY <2>5 DEF CancelPlan, Idle, HasSession, DropIndex, Goto, NothingMerged, locals, native
  <2>6. CASE ApplyOpen(c)
    BY <2>6 DEF ApplyOpen, Idle, ValidSession, HasSession, Goto, store, history, native
  <2>7. CASE RollbackOpen(c)
    BY <2>7 DEF RollbackOpen, Idle, Goto, store, history, native
  <2>8. CASE UndoOpen(c)
    BY <2>8 DEF UndoOpen, HasSession, Goto, store, history, native
  <2>9. CASE CheckinOpen(c)
    BY <2>9 DEF CheckinOpen, HasSession, DropIndex, Goto, NothingMerged, locals, store, native
  <2>10. CASE FastReview(c)
    BY <2>10 DEF FastReview, Goto, native, store, locals, history
  <2>11. CASE Update(c)
    BY <2>11 DEF Update, UpdateLoaded, store, locals, history
  <2>. QED BY <1>2, <2>1, <2>2, <2>3, <2>4, <2>5, <2>6, <2>7, <2>8, <2>9, <2>10, <2>11 DEF Start
<1>3. ASSUME NEW c \in Clients, Continue(c) PROVE HandlersDecide'
  <2>1. CASE BeginRecord(c)
    BY <2>1 DEF BeginRecord, Goto, Release, NothingMerged, locals, store, native
  <2>2. CASE PlanRecord(c)
    BY <2>2 DEF PlanRecord, SaveState, Goto, NothingMerged, native
  <2>3. CASE PlanMark(c)
    BY <2>3 DEF PlanMark, Goto, native, locals, history
  <2>4. CASE PlanFinish(c)
    BY <2>4, ReleaseFrame DEF PlanFinish, native, history
  <2>5. CASE NativeMerge(c)
    BY <2>5 DEF NativeMerge, MergeDone, MergeBroken, Release, Goto, store, locals, native
  <2>6. CASE BeginFinish(c)
    BY <2>6, ReleaseFrame DEF BeginFinish, native, history
  <2>7. CASE DecideFinish(c)
    <3>1. Release(c) /\ UNCHANGED <<conflicts, settled, ours>>
      BY <2>7 DEF DecideFinish, native, history
    <3>. QED BY <3>1, ReleaseFrame
  <2>8. CASE ContinueFinish(c)
    BY <2>8 DEF ContinueFinish, SaveState, Goto, native, history
  <2>9. CASE ApplyMark(c)
    BY <2>9 DEF ApplyMark, SaveState, Goto, native, history
  <2>10. CASE ApplyCheck(c)
    BY <2>10 DEF ApplyCheck, Goto, Release, native, store, history, locals
  <2>11. CASE ApplyReplace(c)
    BY <2>11 DEF ApplyReplace, Overwrite, Goto, store, locals
  <2>12. CASE ApplyNative(c)
    BY <2>12 DEF ApplyNative, KeepDestination, Goto, native, store, locals, history
  <2>13. CASE ApplyVerify(c)
    BY <2>13, ReleaseFrame DEF ApplyVerify, native
  <2>14. CASE ApplyRestore(c)
    BY <2>14 DEF ApplyRestore, Goto, Release, native, store, history, locals
  <2>15. CASE ApplyCopyBack(c)
    BY <2>15, ReleaseFrame DEF ApplyCopyBack, Overwrite, store
  <2>16. CASE RollbackRecord(c)
    BY <2>16 DEF RollbackRecord, Goto, Release, NothingMerged, locals, store, native
  <2>17. CASE RollbackNative(c)
    BY <2>17 DEF RollbackNative, RollbackEffect, Goto, Release, store, locals, native
  <2>18. CASE RollbackFinish(c)
    BY <2>18, ReleaseFrame DEF RollbackFinish, native, history
  <2>19. CASE UndoFails(c)
    BY <2>19, ReleaseFrame DEF UndoFails, native, store, history
  <2>20. CASE UndoWorks(c)
    BY <2>20 DEF UndoWorks, UndoAll, UndoFile, NothingMerged, Goto, Release, store, locals
  <2>21. CASE Retire(c)
    BY <2>21 DEF Retire, HasSession, DropIndex, Goto, Release, NothingMerged, locals, native
  <2>22. CASE RetireMarker(c)
    BY <2>22 DEF RetireMarker, Release, Goto, locals, native, history
  <2>23. CASE CheckinNative(c)
    BY <2>23 DEF CheckinNative, Published, Publish, NothingMerged, Release, Goto, store, locals, native
  <2>24. CASE FastCheckin(c)
    BY <2>24, ReleaseFrame DEF FastCheckin, Published, Publish, NothingMerged, store, native
  <2>. QED BY <1>3, <2>1, <2>2, <2>3, <2>4, <2>5, <2>6, <2>7, <2>8, <2>9, <2>10, <2>11, <2>12, <2>13, <2>14, <2>15, <2>16, <2>17, <2>18, <2>19, <2>20, <2>21, <2>22, <2>23, <2>24 DEF Continue
<1>4. ASSUME Fault PROVE HandlersDecide'
  <2>1. ASSUME NEW c \in Clients, Crash(c) PROVE HandlersDecide'
    BY <2>1, ReleaseFrame DEF Crash, native, store, history
  <2>2. ASSUME NEW c \in Clients, CrashWriting(c) PROVE HandlersDecide'
    BY <2>2, ReleaseFrame DEF CrashWriting, native, history
  <2>3. ASSUME NEW f \in Files, NEW e \in Edits, Edit(f, e) PROVE HandlersDecide'
    BY <2>3 DEF Edit, Save, store, locals, history
  <2>4. ASSUME ForeignUndo PROVE HandlersDecide'
    BY <2>4 DEF ForeignUndo, UndoAll, NothingMerged, store, locals
  <2>5. ASSUME NEW f \in Files, ForeignResolve(f) PROVE HandlersDecide'
    BY <2>5 DEF ForeignResolve, KeepDestination, store, locals
  <2>6. ASSUME NEW s \in Sources, ForeignMerge(s) PROVE HandlersDecide'
    BY <2>6 DEF ForeignMerge, MergeDone, NothingMerged, store, locals
  <2>. QED BY <1>4, <2>1, <2>2, <2>3, <2>4, <2>5, <2>6 DEF Fault
<1>. QED BY <1>1, <1>2, <1>3, <1>4 DEF Next

\* A session becomes ready, or stops applying, only when its files are decided.
LEMMA ReadyStep == Inv1 /\ Inv2 /\ Inv3 /\ [Next]_vars => ReadyIsDecided'
<1> SUFFICES ASSUME Inv1 /\ Inv2 /\ Inv3, [Next]_vars PROVE ReadyIsDecided'
  OBVIOUS
<1> USE DEF Inv1, Inv2, Inv3, PlanMergesNothing, ReadyIsDecided, HandlersDecide, Decided, HasSession, TypeOK, StoreTypeOK, HistoryTypeOK, NativeTypeOK, NoLostSave, AfterSave, MemoryOK, Applying
<1>1. CASE UNCHANGED vars
  BY <1>1 DEF vars, native, store, locals, history
<1>2. ASSUME NEW c \in Clients, Start(c) PROVE ReadyIsDecided'
  <2>1. CASE BeginOpen(c)
    <3>. UNCHANGED <<session, conflicts, settled, ours>>
      BY <2>1 DEF BeginOpen, native, store, history
    <3>. QED OBVIOUS
  <2>2. CASE GetSession(c)
    BY <2>2 DEF GetSession, HasSession, DropIndex, NothingMerged, native
  <2>3. CASE DecideOpen(c)
    BY <2>3 DEF DecideOpen, ValidSession, HasSession, SaveState, native, history
  <2>4. CASE ContinueOpen(c)
    BY <2>4 DEF ContinueOpen, ValidSession, HasSession, SaveState, native, history
  <2>5. CASE CancelPlan(c)
    BY <2>5 DEF CancelPlan, HasSession, DropIndex, NothingMerged, native
  <2>6. CASE ApplyOpen(c)
    BY <2>6 DEF ApplyOpen, ValidSession, HasSession, store, history, native
  <2>7. CASE RollbackOpen(c)
    BY <2>7 DEF RollbackOpen, store, history, native
  <2>8. CASE UndoOpen(c)
    BY <2>8 DEF UndoOpen, HasSession, store, history, native
  <2>9. CASE CheckinOpen(c)
    BY <2>9 DEF CheckinOpen, HasSession, DropIndex, NothingMerged, store, native
  <2>10. CASE FastReview(c)
    BY <2>10 DEF FastReview, native, store, history
  <2>11. CASE Update(c)
    BY <2>11 DEF Update, UpdateLoaded, store, history
  <2>. QED BY <1>2, <2>1, <2>2, <2>3, <2>4, <2>5, <2>6, <2>7, <2>8, <2>9, <2>10, <2>11 DEF Start
<1>3. ASSUME NEW c \in Clients, Continue(c) PROVE ReadyIsDecided'
  <2>1. CASE BeginRecord(c)
    BY <2>1 DEF BeginRecord, Release, NothingMerged, store, native
  <2>2. CASE PlanRecord(c)
    BY <2>2 DEF PlanRecord, SaveState, NothingMerged, native
  <2>3. CASE PlanMark(c)
    BY <2>3 DEF PlanMark, native, history
  <2>4. CASE PlanFinish(c)
    <3>1. session = mem[c] /\ mem[c].awaiting /\ mem[c] \in SavedSession /\ UNCHANGED ours
      BY <2>4 DEF PlanFinish, Holding, history
    <3>2. ~ours
      BY <3>1, SessionAssumption
    <3>. QED BY <3>1, <3>2
  <2>5. CASE NativeMerge(c)
    BY <2>5 DEF NativeMerge, MergeDone, MergeBroken, Release, store, native
  <2>6. CASE BeginFinish(c)
    BY <2>6, ReleaseFrame DEF BeginFinish, native, history
  <2>7. CASE DecideFinish(c)
    <3>1. session = mem[c] /\ mem[c].awaiting /\ mem[c] \in SavedSession /\ UNCHANGED ours
      BY <2>7 DEF DecideFinish, Holding, history
    <3>2. ~ours
      BY <3>1, SessionAssumption
    <3>. QED BY <3>1, <3>2
  <2>8. CASE ContinueFinish(c)
    BY <2>8 DEF ContinueFinish, SaveState, native, history
  <2>9. CASE ApplyMark(c)
    BY <2>9 DEF ApplyMark, SaveState, native, history
  <2>10. CASE ApplyCheck(c)
    BY <2>10 DEF ApplyCheck, Release, native, store, history
  <2>11. CASE ApplyReplace(c)
    BY <2>11 DEF ApplyReplace, Overwrite, store
  <2>12. CASE ApplyNative(c)
    BY <2>12 DEF ApplyNative, KeepDestination, native, store, history
  <2>13. CASE ApplyVerify(c)
    BY <2>13, ReleaseFrame DEF ApplyVerify, native
  <2>14. CASE ApplyRestore(c)
    BY <2>14 DEF ApplyRestore, Release, native, store, history
  <2>15. CASE ApplyCopyBack(c)
    BY <2>15, ReleaseFrame DEF ApplyCopyBack, Overwrite, store
  <2>16. CASE RollbackRecord(c)
    BY <2>16 DEF RollbackRecord, Release, NothingMerged, store, native
  <2>17. CASE RollbackNative(c)
    BY <2>17 DEF RollbackNative, RollbackEffect, Release, store, native
  <2>18. CASE RollbackFinish(c)
    BY <2>18, ReleaseFrame DEF RollbackFinish, native, history
  <2>19. CASE UndoFails(c)
    BY <2>19, ReleaseFrame DEF UndoFails, native, store, history
  <2>20. CASE UndoWorks(c)
    BY <2>20 DEF UndoWorks, UndoAll, UndoFile, NothingMerged, Release, store
  <2>21. CASE Retire(c)
    BY <2>21 DEF Retire, HasSession, DropIndex, Release, NothingMerged, native
  <2>22. CASE RetireMarker(c)
    BY <2>22 DEF RetireMarker, Release, native, history
  <2>23. CASE CheckinNative(c)
    BY <2>23 DEF CheckinNative, Published, Publish, NothingMerged, Release, store, native
  <2>24. CASE FastCheckin(c)
    BY <2>24, ReleaseFrame DEF FastCheckin, Published, Publish, NothingMerged, store, native
  <2>. QED BY <1>3, <2>1, <2>2, <2>3, <2>4, <2>5, <2>6, <2>7, <2>8, <2>9, <2>10, <2>11, <2>12, <2>13, <2>14, <2>15, <2>16, <2>17, <2>18, <2>19, <2>20, <2>21, <2>22, <2>23, <2>24 DEF Continue
<1>4. ASSUME Fault PROVE ReadyIsDecided'
  <2>1. ASSUME NEW c \in Clients, Crash(c) PROVE ReadyIsDecided'
    BY <2>1, ReleaseFrame DEF Crash, native, store, history
  <2>2. ASSUME NEW c \in Clients, CrashWriting(c) PROVE ReadyIsDecided'
    BY <2>2, ReleaseFrame DEF CrashWriting, native, history
  <2>3. ASSUME NEW f \in Files, NEW e \in Edits, Edit(f, e) PROVE ReadyIsDecided'
    BY <2>3 DEF Edit, Save, store, history
  <2>4. ASSUME ForeignUndo PROVE ReadyIsDecided'
    BY <2>4 DEF ForeignUndo, UndoAll, NothingMerged, store
  <2>5. ASSUME NEW f \in Files, ForeignResolve(f) PROVE ReadyIsDecided'
    BY <2>5 DEF ForeignResolve, KeepDestination, store
  <2>6. ASSUME NEW s \in Sources, ForeignMerge(s) PROVE ReadyIsDecided'
    BY <2>6 DEF ForeignMerge, MergeDone, NothingMerged, store
  <2>. QED BY <1>4, <2>1, <2>2, <2>3, <2>4, <2>5, <2>6 DEF Fault
<1>. QED BY <1>1, <1>2, <1>3, <1>4 DEF Next

\* Both facts about decisions are inductive.
LEMMA Inv3Step == Inv1 /\ Inv2 /\ Inv3 /\ [Next]_vars => Inv3'
BY HandlersStep, ReadyStep DEF Inv3

\* They hold in the initial state.
LEMMA Inv3Init == Init => Inv3
BY DEF Init, Inv3, ReadyIsDecided, HandlersDecide, Decided, Applying

-----------------------------------------------------------------------------
(* What the gate publishes *)

\* What moves the native merge, the last publication and the edits.
MovesMerge(c) ==
  NativeMerge(c) \/ ApplyNative(c) \/ RollbackNative(c) \/ UndoWorks(c)
    \/ CheckinNative(c) \/ FastCheckin(c)
ForeignMoves ==
  ForeignUndo \/ (\E f \in Files : ForeignResolve(f)) \/ (\E s \in Sources : ForeignMerge(s))
Frame ==
  /\ UNCHANGED <<progress, conflicts>> \/ (\E c \in Clients : MovesMerge(c)) \/ ForeignMoves
  /\ UNCHANGED last \/ \E c \in Clients : CheckinNative(c) \/ FastCheckin(c)
  /\ UNCHANGED lost \/ \E c \in Clients : ApplyReplace(c) \/ ApplyCopyBack(c)
  /\ \/ UNCHANGED late
     \/ \E c \in Clients : ApplyCheck(c) \/ ApplyRestore(c)
     \/ \E f \in Files, e \in Edits : Edit(f, e)

\* What the steps that are not native commands leave alone.
LEMMA StepFrame == [Next]_vars => Frame
<1> SUFFICES ASSUME [Next]_vars PROVE Frame
  OBVIOUS
<1> USE DEF Frame, MovesMerge, ForeignMoves
<1>1. CASE UNCHANGED vars
  BY <1>1 DEF vars, native, history
<1>2. ASSUME NEW c \in Clients, Start(c) PROVE Frame
  <2>1. CASE BeginOpen(c)
    BY <2>1 DEF BeginOpen, native, history
  <2>2. CASE GetSession(c)
    BY <2>2 DEF GetSession, native
  <2>3. CASE DecideOpen(c)
    BY <2>3 DEF DecideOpen, native, history
  <2>4. CASE ContinueOpen(c)
    BY <2>4 DEF ContinueOpen, native, history
  <2>5. CASE CancelPlan(c)
    BY <2>5 DEF CancelPlan, native
  <2>6. CASE ApplyOpen(c)
    BY <2>6 DEF ApplyOpen, history, native
  <2>7. CASE RollbackOpen(c)
    BY <2>7 DEF RollbackOpen, history, native
  <2>8. CASE UndoOpen(c)
    BY <2>8 DEF UndoOpen, history, native
  <2>9. CASE CheckinOpen(c)
    BY <2>9 DEF CheckinOpen, native
  <2>10. CASE FastReview(c)
    BY <2>10 DEF FastReview, native, history
  <2>11. CASE Update(c)
    BY <2>11 DEF Update, history, UpdateLoaded
  <2>. QED BY <1>2, <2>1, <2>2, <2>3, <2>4, <2>5, <2>6, <2>7, <2>8, <2>9, <2>10, <2>11 DEF Start
<1>3. ASSUME NEW c \in Clients, Continue(c) PROVE Frame
  <2>1. CASE BeginRecord(c)
    BY <2>1 DEF BeginRecord, native
  <2>2. CASE PlanRecord(c)
    BY <2>2 DEF PlanRecord, native
  <2>3. CASE PlanMark(c)
    BY <2>3 DEF PlanMark, native, history
  <2>4. CASE PlanFinish(c)
    BY <2>4 DEF PlanFinish, native, history
  <2>5. CASE NativeMerge(c)
    BY <2>5 DEF NativeMerge
  <2>6. CASE BeginFinish(c)
    BY <2>6 DEF BeginFinish, native, history
  <2>7. CASE DecideFinish(c)
    BY <2>7 DEF DecideFinish, native, history
  <2>8. CASE ContinueFinish(c)
    BY <2>8 DEF ContinueFinish, native, history
  <2>9. CASE ApplyMark(c)
    BY <2>9 DEF ApplyMark, native, history
  <2>10. CASE ApplyCheck(c)
    BY <2>10 DEF ApplyCheck, native, history
  <2>11. CASE ApplyReplace(c)
    BY <2>11 DEF ApplyReplace
  <2>12. CASE ApplyNative(c)
    BY <2>12 DEF ApplyNative, history
  <2>13. CASE ApplyVerify(c)
    BY <2>13 DEF ApplyVerify, native
  <2>14. CASE ApplyRestore(c)
    BY <2>14 DEF ApplyRestore, native, history
  <2>15. CASE ApplyCopyBack(c)
    BY <2>15 DEF ApplyCopyBack
  <2>16. CASE RollbackRecord(c)
    BY <2>16 DEF RollbackRecord, native
  <2>17. CASE RollbackNative(c)
    BY <2>17 DEF RollbackNative
  <2>18. CASE RollbackFinish(c)
    BY <2>18 DEF RollbackFinish, native, history
  <2>19. CASE UndoFails(c)
    BY <2>19 DEF UndoFails, native, history
  <2>20. CASE UndoWorks(c)
    BY <2>20 DEF UndoWorks
  <2>21. CASE Retire(c)
    BY <2>21 DEF Retire, native
  <2>22. CASE RetireMarker(c)
    BY <2>22 DEF RetireMarker, native, history
  <2>23. CASE CheckinNative(c)
    BY <2>23 DEF CheckinNative
  <2>24. CASE FastCheckin(c)
    BY <2>24 DEF FastCheckin
  <2>. QED BY <1>3, <2>1, <2>2, <2>3, <2>4, <2>5, <2>6, <2>7, <2>8, <2>9, <2>10, <2>11, <2>12, <2>13, <2>14, <2>15, <2>16, <2>17, <2>18, <2>19, <2>20, <2>21, <2>22, <2>23, <2>24 DEF Continue
<1>4. ASSUME Fault PROVE Frame
  <2>1. ASSUME NEW c \in Clients, Crash(c) PROVE Frame
    BY <2>1 DEF Crash, native, history
  <2>2. ASSUME NEW c \in Clients, CrashWriting(c) PROVE Frame
    BY <2>2 DEF CrashWriting, native, history
  <2>3. ASSUME NEW f \in Files, NEW e \in Edits, Edit(f, e) PROVE Frame
    BY <2>3 DEF Edit, history, Save
  <2>4. ASSUME ForeignUndo PROVE Frame
    BY <2>4 DEF ForeignUndo
  <2>5. ASSUME NEW f \in Files, ForeignResolve(f) PROVE Frame
    BY <2>5 DEF ForeignResolve
  <2>6. ASSUME NEW s \in Sources, ForeignMerge(s) PROVE Frame
    BY <2>6 DEF ForeignMerge
  <2>. QED BY <1>4, <2>1, <2>2, <2>3, <2>4, <2>5, <2>6 DEF Fault
<1>. QED BY <1>1, <1>2, <1>3, <1>4 DEF Next

\* Unresolved conflicts belong to the merge in progress.
LEMMA ConflictsStep == Inv1 /\ Inv4 /\ [Next]_vars => ConflictsOfMerge'
<1> SUFFICES ASSUME Inv1, Inv4, [Next]_vars PROVE ConflictsOfMerge'
  OBVIOUS
<1> USE DEF ConflictsOfMerge, Inv4
<1>1. CASE UNCHANGED <<progress, conflicts>>
  BY <1>1
<1>2. ASSUME NEW c \in Clients, MovesMerge(c) PROVE ConflictsOfMerge'
  <2>1. CASE NativeMerge(c)
    <3>1. mem[c].source \in Sources
      BY <2>1 DEF NativeMerge, Inv1, MemoryOK, Holding, AfterSave, SavedSession
    <3>. QED BY <2>1, <3>1 DEF NativeMerge, MergeDone, MergeBroken, native
  <2>2. CASE ApplyNative(c)
    BY <2>2 DEF ApplyNative, KeepDestination, native
  <2>3. CASE RollbackNative(c)
    BY <2>3, NativeAssumption DEF RollbackNative, RollbackEffect, native
  <2>4. CASE UndoWorks(c)
    BY <2>4 DEF UndoWorks, UndoAll, UndoFile
  <2>5. CASE CheckinNative(c) \/ FastCheckin(c)
    BY <2>5 DEF CheckinNative, FastCheckin, Published, Publish, native
  <2>. QED BY <1>2, <2>1, <2>2, <2>3, <2>4, <2>5 DEF MovesMerge
<1>3. CASE ForeignMoves
  BY <1>3 DEF ForeignMoves, ForeignUndo, ForeignResolve, ForeignMerge, UndoAll,
              KeepDestination, MergeDone
<1>. QED BY <1>1, <1>2, <1>3, StepFrame DEF Frame

\* A ready session is about the merge in the workspace.
LEMMA SessionOfMergeStep == Inv1 /\ Inv2 /\ Inv4 /\ [Next]_vars => SessionOfMerge'
<1> SUFFICES ASSUME Inv1, Inv2, Inv4, [Next]_vars PROVE SessionOfMerge'
  OBVIOUS
<1> USE DEF Inv1, Inv2, Inv4, PlanMergesNothing, SessionOfMerge, HasSession, StoreTypeOK, NoLostSave, AfterSave, MemoryOK, Holding
<1>1. CASE UNCHANGED vars
  BY <1>1 DEF vars, native, store, locals, history
<1>2. ASSUME NEW c \in Clients, Start(c) PROVE SessionOfMerge'
  <2>1. CASE BeginOpen(c)
    <3>. UNCHANGED <<session, progress, ours>>
      BY <2>1 DEF BeginOpen, native, store, history
    <3>. QED OBVIOUS
  <2>2. CASE GetSession(c)
    BY <2>2 DEF GetSession, HasSession, DropIndex, NothingMerged, native
  <2>3. CASE DecideOpen(c)
    BY <2>3 DEF DecideOpen, HasSession, SaveState, native, history
  <2>4. CASE ContinueOpen(c)
    BY <2>4 DEF ContinueOpen, HasSession, SaveState, native, history
  <2>5. CASE CancelPlan(c)
    BY <2>5 DEF CancelPlan, HasSession, DropIndex, NothingMerged, native
  <2>6. CASE ApplyOpen(c)
    BY <2>6 DEF ApplyOpen, HasSession, store, history, native
  <2>7. CASE RollbackOpen(c)
    BY <2>7 DEF RollbackOpen, store, history, native
  <2>8. CASE UndoOpen(c)
    BY <2>8 DEF UndoOpen, HasSession, store, history, native
  <2>9. CASE CheckinOpen(c)
    BY <2>9 DEF CheckinOpen, HasSession, DropIndex, NothingMerged, store, native
  <2>10. CASE FastReview(c)
    BY <2>10 DEF FastReview, native, store, history
  <2>11. CASE Update(c)
    BY <2>11 DEF Update, UpdateLoaded, store, history
  <2>. QED BY <1>2, <2>1, <2>2, <2>3, <2>4, <2>5, <2>6, <2>7, <2>8, <2>9, <2>10, <2>11 DEF Start
<1>3. ASSUME NEW c \in Clients, Continue(c) PROVE SessionOfMerge'
  <2>1. CASE BeginRecord(c)
    BY <2>1 DEF BeginRecord, Release, NothingMerged, store, native
  <2>2. CASE PlanRecord(c)
    BY <2>2 DEF PlanRecord, SaveState, NothingMerged, native
  <2>3. CASE PlanMark(c)
    BY <2>3 DEF PlanMark, native, history
  <2>4. CASE PlanFinish(c)
    <3>1. UNCHANGED <<progress, ours>>
      BY <2>4 DEF PlanFinish, native, history
    <3>. QED BY <2>4, <3>1, Resaves DEF Resaving
  <2>5. CASE NativeMerge(c)
    BY <2>5 DEF NativeMerge, MergeDone, MergeBroken, Release, store, native
  <2>6. CASE BeginFinish(c)
    <3>1. UNCHANGED <<progress, ours>>
      BY <2>6 DEF BeginFinish, native, history
    <3>. QED BY <2>6, <3>1, Resaves DEF Resaving
  <2>7. CASE DecideFinish(c)
    <3>1. UNCHANGED <<progress, ours>>
      BY <2>7 DEF DecideFinish, native, history
    <3>. QED BY <2>7, <3>1, Resaves DEF Resaving
  <2>8. CASE ContinueFinish(c)
    <3>1. UNCHANGED <<progress, ours>>
      BY <2>8 DEF ContinueFinish, native, history
    <3>. QED BY <2>8, <3>1, Resaves DEF Resaving
  <2>9. CASE ApplyMark(c)
    <3>1. UNCHANGED <<progress, ours>>
      BY <2>9 DEF ApplyMark, native, history
    <3>. QED BY <2>9, <3>1, Resaves DEF Resaving
  <2>10. CASE ApplyCheck(c)
    BY <2>10 DEF ApplyCheck, Release, native, store, history
  <2>11. CASE ApplyReplace(c)
    BY <2>11 DEF ApplyReplace, Overwrite, store
  <2>12. CASE ApplyNative(c)
    BY <2>12 DEF ApplyNative, KeepDestination, native, store, history
  <2>13. CASE ApplyVerify(c)
    <3>1. UNCHANGED <<progress, ours>>
      BY <2>13 DEF ApplyVerify, native
    <3>. QED BY <2>13, <3>1, Resaves DEF Resaving
  <2>14. CASE ApplyRestore(c)
    BY <2>14 DEF ApplyRestore, Release, native, store, history
  <2>15. CASE ApplyCopyBack(c)
    BY <2>15, ReleaseFrame DEF ApplyCopyBack, Overwrite, store
  <2>16. CASE RollbackRecord(c)
    BY <2>16 DEF RollbackRecord, Release, NothingMerged, store, native
  <2>17. CASE RollbackNative(c)
    <3>1. session = mem[c] /\ mem[c].rollback /\ UNCHANGED session
      BY <2>17 DEF RollbackNative, store
    <3>2. progress' \notin Sources \/ UNCHANGED <<progress, ours>>
      BY <2>17, NativeAssumption DEF RollbackNative, RollbackEffect, native
    <3>. QED BY <3>1, <3>2
  <2>18. CASE RollbackFinish(c)
    <3>1. UNCHANGED <<progress, ours>>
      BY <2>18 DEF RollbackFinish, native, history
    <3>. QED BY <2>18, <3>1, Resaves DEF Resaving
  <2>19. CASE UndoFails(c)
    BY <2>19, ReleaseFrame DEF UndoFails, native, store, history
  <2>20. CASE UndoWorks(c)
    BY <2>20 DEF UndoWorks, UndoAll, UndoFile, NothingMerged, Release, store
  <2>21. CASE Retire(c)
    BY <2>21 DEF Retire, HasSession, DropIndex, Release, NothingMerged, native
  <2>22. CASE RetireMarker(c)
    BY <2>22 DEF RetireMarker, Release, native, history
  <2>23. CASE CheckinNative(c)
    BY <2>23 DEF CheckinNative, Published, Publish, NothingMerged, Release, store, native
  <2>24. CASE FastCheckin(c)
    BY <2>24, ReleaseFrame DEF FastCheckin, Published, Publish, NothingMerged, store, native
  <2>. QED BY <1>3, <2>1, <2>2, <2>3, <2>4, <2>5, <2>6, <2>7, <2>8, <2>9, <2>10, <2>11, <2>12, <2>13, <2>14, <2>15, <2>16, <2>17, <2>18, <2>19, <2>20, <2>21, <2>22, <2>23, <2>24 DEF Continue
<1>4. ASSUME Fault PROVE SessionOfMerge'
  <2>1. ASSUME NEW c \in Clients, Crash(c) PROVE SessionOfMerge'
    BY <2>1, ReleaseFrame DEF Crash, native, store, history
  <2>2. ASSUME NEW c \in Clients, CrashWriting(c) PROVE SessionOfMerge'
    BY <2>2, ReleaseFrame DEF CrashWriting, native, history
  <2>3. ASSUME NEW f \in Files, NEW e \in Edits, Edit(f, e) PROVE SessionOfMerge'
    BY <2>3 DEF Edit, Save, store, history
  <2>4. ASSUME ForeignUndo PROVE SessionOfMerge'
    BY <2>4 DEF ForeignUndo, UndoAll, NothingMerged, store
  <2>5. ASSUME NEW f \in Files, ForeignResolve(f) PROVE SessionOfMerge'
    BY <2>5 DEF ForeignResolve, KeepDestination, store
  <2>6. ASSUME NEW s \in Sources, ForeignMerge(s) PROVE SessionOfMerge'
    BY <2>6 DEF ForeignMerge, MergeDone, NothingMerged, store
  <2>. QED BY <1>4, <2>1, <2>2, <2>3, <2>4, <2>5, <2>6 DEF Fault
<1>. QED BY <1>1, <1>2, <1>3, <1>4 DEF Next

\* What the guard verified before a check-in still holds when `cm checkin` runs.
LEMMA VerifiedStep == Inv1 /\ Inv2 /\ Inv3 /\ Inv4 /\ [Next]_vars => CheckinVerified'
<1> SUFFICES ASSUME Inv1 /\ Inv2 /\ Inv3 /\ Inv4, [Next]_vars PROVE CheckinVerified'
  OBVIOUS
<1> USE DEF Inv1, Inv2, Inv3, Inv4, TypeOK, ControlTypeOK, HistoryTypeOK, NativeTypeOK, GatesHeld, Gated, StructureGated, PCs, CheckinVerified
<1>1. CASE UNCHANGED vars
  BY <1>1 DEF vars, native, store, locals, history
<1>2. ASSUME NEW c \in Clients, Start(c) PROVE CheckinVerified'
  <2>1. CASE BeginOpen(c)
    BY <2>1 DEF BeginOpen, Idle, Goto, history
  <2>2. CASE GetSession(c)
    BY <2>2 DEF GetSession, Idle, HasSession, DropIndex, Goto, NothingMerged, locals, native
  <2>3. CASE DecideOpen(c)
    BY <2>3 DEF DecideOpen, Idle, ValidSession, HasSession, Goto, native, history
  <2>4. CASE ContinueOpen(c)
    BY <2>4 DEF ContinueOpen, Idle, ValidSession, HasSession, Goto, native, history
  <2>5. CASE CancelPlan(c)
    BY <2>5 DEF CancelPlan, Idle, HasSession, DropIndex, Goto, NothingMerged, locals, native
  <2>6. CASE ApplyOpen(c)
    BY <2>6 DEF ApplyOpen, Idle, ValidSession, HasSession, Goto, history, native
  <2>7. CASE RollbackOpen(c)
    BY <2>7 DEF RollbackOpen, Idle, Goto, history, native
  <2>8. CASE UndoOpen(c)
    BY <2>8 DEF UndoOpen, HasSession, Goto, history, native
  <2>9. CASE CheckinOpen(c)
    <3>1. \A d \in Clients \ {c} : pc'[d] = pc[d] /\ pc[d] \notin StructureGated
      <4>1. \A d \in Clients : pc[d] \notin StructureGated
        BY <2>9, SessionAssumption DEF CheckinOpen
      <4>2. \A d \in Clients \ {c} : pc'[d] = pc[d]
        BY <2>9 DEF CheckinOpen, Goto
      <4>. QED BY <4>1, <4>2
    <3>2. CASE HasSession /\ Retirable /\ DropIndex
      BY <2>9, <3>1, <3>2 DEF DropIndex, Retirable, NothingMerged
    <3>3. CASE pc'[c] = "checkin_free"
      BY <3>1, <3>3
    <3>4. CASE /\ HasSession /\ ValidSession(session)
               /\ session.rollback \/ Preview(session.source) = {}
               /\ UNCHANGED <<ours, settled>>
      <4>1. ASSUME ours PROVE settled = Files
        <5>1. Files \ conflicts \subseteq settled
          BY <3>4, <4>1 DEF Inv3, ReadyIsDecided, ValidSession
        <5>2. conflicts = {}
          BY <3>4, <4>1 DEF Inv4, SessionOfMerge, ConflictsOfMerge, Preview
        <5>. QED BY <5>1, <5>2
      <4>. QED BY <3>1, <3>4, <4>1
    <3>. QED BY <2>9, <3>2, <3>3, <3>4 DEF CheckinOpen, Goto
  <2>10. CASE FastReview(c)
    BY <2>10 DEF FastReview, Goto, native, locals, history
  <2>11. CASE Update(c)
    BY <2>11 DEF Update, UpdateLoaded, locals, history
  <2>. QED BY <1>2, <2>1, <2>2, <2>3, <2>4, <2>5, <2>6, <2>7, <2>8, <2>9, <2>10, <2>11 DEF Start
<1>3. ASSUME NEW c \in Clients, Continue(c) PROVE CheckinVerified'
  <2>1. CASE BeginRecord(c)
    BY <2>1 DEF BeginRecord, Goto, Release, NothingMerged, locals, native
  <2>2. CASE PlanRecord(c)
    BY <2>2 DEF PlanRecord, Goto, NothingMerged, native
  <2>3. CASE PlanMark(c)
    BY <2>3 DEF PlanMark, Goto, native, locals, history
  <2>4. CASE PlanFinish(c)
    BY <2>4, ReleaseFrame DEF PlanFinish, native, history
  <2>5. CASE NativeMerge(c)
    BY <2>5, ZenonT(60) DEF NativeMerge, MergeDone, MergeBroken, Release, Goto, locals, native
  <2>6. CASE BeginFinish(c)
    BY <2>6, ReleaseFrame DEF BeginFinish, native, history
  <2>7. CASE DecideFinish(c)
    <3>1. Release(c) /\ UNCHANGED <<settled, ours>>
      BY <2>7 DEF DecideFinish, history
    <3>. QED BY <3>1, ReleaseFrame
  <2>8. CASE ContinueFinish(c)
    BY <2>8 DEF ContinueFinish, Goto, native, history
  <2>9. CASE ApplyMark(c)
    BY <2>9 DEF ApplyMark, Goto, native, history
  <2>10. CASE ApplyCheck(c)
    BY <2>10 DEF ApplyCheck, Goto, Release, native, history, locals
  <2>11. CASE ApplyReplace(c)
    BY <2>11 DEF ApplyReplace, Overwrite, Goto, locals
  <2>12. CASE ApplyNative(c)
    BY <2>12 DEF ApplyNative, Goto, native, locals, history
  <2>13. CASE ApplyVerify(c)
    BY <2>13, ReleaseFrame DEF ApplyVerify, native
  <2>14. CASE ApplyRestore(c)
    BY <2>14 DEF ApplyRestore, Goto, Release, native, history, locals
  <2>15. CASE ApplyCopyBack(c)
    BY <2>15, ReleaseFrame DEF ApplyCopyBack, Overwrite
  <2>16. CASE RollbackRecord(c)
    BY <2>16 DEF RollbackRecord, Goto, Release, NothingMerged, locals, native
  <2>17. CASE RollbackNative(c)
    <3>1. pc'[c] \in {"rollback_finish", "idle"}
      BY <2>17, ReleaseFrame DEF RollbackNative, Goto
    <3>2. \A d \in Clients \ {c} : pc'[d] = pc[d] /\ pc[d] \notin Gated
      BY <2>17, ReleaseFrame DEF RollbackNative, Goto
    <3>. QED BY <3>1, <3>2
  <2>18. CASE RollbackFinish(c)
    BY <2>18, ReleaseFrame DEF RollbackFinish, native, history
  <2>19. CASE UndoFails(c)
    BY <2>19, ReleaseFrame DEF UndoFails, native, history
  <2>20. CASE UndoWorks(c)
    BY <2>20 DEF UndoWorks, UndoAll, UndoFile, NothingMerged, Goto, Release, locals
  <2>21. CASE Retire(c)
    BY <2>21 DEF Retire, HasSession, DropIndex, Goto, Release, NothingMerged, locals, native
  <2>22. CASE RetireMarker(c)
    BY <2>22 DEF RetireMarker, Release, Goto, locals, native, history
  <2>23. CASE CheckinNative(c)
    BY <2>23 DEF CheckinNative, Published, Publish, NothingMerged, Release, Goto, locals, native
  <2>24. CASE FastCheckin(c)
    BY <2>24, ReleaseFrame DEF FastCheckin, Published, Publish, NothingMerged, native
  <2>. QED BY <1>3, <2>1, <2>2, <2>3, <2>4, <2>5, <2>6, <2>7, <2>8, <2>9, <2>10, <2>11, <2>12, <2>13, <2>14, <2>15, <2>16, <2>17, <2>18, <2>19, <2>20, <2>21, <2>22, <2>23, <2>24 DEF Continue
<1>4. ASSUME Fault PROVE CheckinVerified'
  <2>1. ASSUME NEW c \in Clients, Crash(c) PROVE CheckinVerified'
    BY <2>1, ReleaseFrame DEF Crash, native, history
  <2>2. ASSUME NEW c \in Clients, CrashWriting(c) PROVE CheckinVerified'
    BY <2>2, ReleaseFrame DEF CrashWriting, native, history
  <2>3. ASSUME NEW f \in Files, NEW e \in Edits, Edit(f, e) PROVE CheckinVerified'
    BY <2>3 DEF Edit, locals, history
  <2>4. ASSUME ForeignUndo PROVE CheckinVerified'
    BY <2>4 DEF ForeignUndo, UndoAll, NothingMerged, locals
  <2>5. ASSUME NEW f \in Files, ForeignResolve(f) PROVE CheckinVerified'
    BY <2>5 DEF ForeignResolve, locals
  <2>6. ASSUME NEW s \in Sources, ForeignMerge(s) PROVE CheckinVerified'
    BY <2>6 DEF ForeignMerge, MergeDone, NothingMerged, locals
  <2>. QED BY <1>4, <2>1, <2>2, <2>3, <2>4, <2>5, <2>6 DEF Fault
<1>. QED BY <1>1, <1>2, <1>3, <1>4 DEF Next

\* A gated publication is whole because of what the guard verified.
LEMMA GatedStep == Inv4 /\ [Next]_vars => GatedCheckinWhole'
<1> SUFFICES ASSUME Inv4, [Next]_vars PROVE GatedCheckinWhole'
  OBVIOUS
<1> USE DEF Inv4, GatedCheckinWhole
<1>1. CASE UNCHANGED last
  BY <1>1
<1>2. ASSUME NEW c \in Clients, CheckinNative(c), pc[c] = "checkin_gated"
      PROVE  GatedCheckinWhole'
  <2>1. ours => settled = Files
    BY <1>2 DEF CheckinVerified
  <2>2. \/ last' = [path |-> "gated", whole |-> ours => settled = Files]
        \/ UNCHANGED last
    BY <1>2 DEF CheckinNative, Published
  <2>3. [path |-> "gated", whole |-> ours => settled = Files].whole
    BY <2>1
  <2>. QED BY <2>2, <2>3
<1>3. ASSUME NEW c \in Clients, CheckinNative(c), pc[c] = "checkin_free"
      PROVE  GatedCheckinWhole'
  BY <1>3 DEF CheckinNative, Published
<1>4. ASSUME NEW c \in Clients, FastCheckin(c) PROVE GatedCheckinWhole'
  BY <1>4 DEF FastCheckin, Published
<1>. QED BY <1>1, <1>2, <1>3, <1>4, StepFrame DEF Frame, CheckinNative

\* The facts behind the guarded check-in are inductive.
LEMMA Inv4Step == Inv1 /\ Inv2 /\ Inv3 /\ Inv4 /\ [Next]_vars => Inv4'
BY ConflictsStep, SessionOfMergeStep, VerifiedStep, GatedStep DEF Inv4

\* They hold in the initial state.
LEMMA Inv4Init == Init => Inv4
BY DEF Init, NativeInit, Inv4, ConflictsOfMerge, SessionOfMerge, CheckinVerified,
       GatedCheckinWhole

-----------------------------------------------------------------------------
(* What a write replaces *)

\* The bytes compared are the bytes overwritten, unless an editor saved others
\* in between.
LEMMA ComparedStep == Inv1 /\ Inv5 /\ [Next]_vars => Compared'
<1> SUFFICES ASSUME Inv1, Inv5, [Next]_vars PROVE Compared'
  OBVIOUS
<1> USE DEF Inv1, Inv5, Compared, TypeOK, ControlTypeOK, NativeTypeOK, GatesHeld, Gated, PCs, MemoryOK, Applying
<1>1. CASE UNCHANGED vars
  BY <1>1 DEF vars, native, store, locals, history
<1>2. ASSUME NEW c \in Clients, Start(c) PROVE Compared'
  <2>1. CASE BeginOpen(c)
    <3>1. UNCHANGED <<bytes, loaded, target, result, late>>
      BY <2>1 DEF BeginOpen, native, history
    <3>2. /\ pc'[c] \in {"begin_checked", "plan_checked"}
          /\ \A d \in Clients \ {c} : pc'[d] = pc[d] /\ mem'[d] = mem[d]
      BY <2>1 DEF BeginOpen, Goto
    <3>. QED BY <3>1, <3>2
  <2>2. CASE GetSession(c)
    BY <2>2 DEF GetSession, Idle, Goto, NothingMerged, locals, native, history
  <2>3. CASE DecideOpen(c)
    BY <2>3 DEF DecideOpen, Idle, SaveState, Goto, native, history
  <2>4. CASE ContinueOpen(c)
    BY <2>4 DEF ContinueOpen, Idle, SaveState, Goto, native, history
  <2>5. CASE CancelPlan(c)
    BY <2>5 DEF CancelPlan, Idle, Goto, NothingMerged, locals, native, history
  <2>6. CASE ApplyOpen(c)
    BY <2>6 DEF ApplyOpen, Idle, Goto, native, history
  <2>7. CASE RollbackOpen(c)
    BY <2>7 DEF RollbackOpen, Idle, Goto, native, history
  <2>8. CASE UndoOpen(c)
    BY <2>8 DEF UndoOpen, Goto, native, history
  <2>9. CASE CheckinOpen(c)
    BY <2>9 DEF CheckinOpen, Goto, NothingMerged, locals, native, history
  <2>10. CASE FastReview(c)
    BY <2>10 DEF FastReview, Goto, native, locals, history
  <2>11. CASE Update(c)
    BY <2>11 DEF Update, UpdateLoaded, locals, history
  <2>. QED BY <1>2, <2>1, <2>2, <2>3, <2>4, <2>5, <2>6, <2>7, <2>8, <2>9, <2>10, <2>11 DEF Start
<1>3. ASSUME NEW c \in Clients, Continue(c) PROVE Compared'
  <2>1. CASE BeginRecord(c)
    BY <2>1 DEF BeginRecord, Goto, Release, NothingMerged, locals, native, history
  <2>2. CASE PlanRecord(c)
    BY <2>2 DEF PlanRecord, SaveState, Goto, NothingMerged, native, history
  <2>3. CASE PlanMark(c)
    BY <2>3 DEF PlanMark, Goto, native, locals, history
  <2>4. CASE PlanFinish(c)
    <3>1. Release(c) /\ UNCHANGED <<bytes, loaded, late>>
      BY <2>4 DEF PlanFinish, native, history
    <3>. QED BY <3>1, ReleaseFrame
  <2>5. CASE NativeMerge(c)
    <3>1. UNCHANGED <<bytes, loaded, late>>
      BY <2>5 DEF NativeMerge, MergeDone, MergeBroken, native, history
    <3>2. pc'[c] \in {"begin_finish", "continue_finish", "idle"}
      BY <2>5, ReleaseFrame DEF NativeMerge, Goto
    <3>3. \A d \in Clients \ {c} : pc'[d] = pc[d] /\ pc[d] \notin Gated
      BY <2>5, ReleaseFrame DEF NativeMerge, Goto
    <3>. QED BY <3>1, <3>2, <3>3
  <2>6. CASE BeginFinish(c)
    <3>1. Release(c) /\ UNCHANGED <<bytes, loaded, late>>
      BY <2>6 DEF BeginFinish, native, history
    <3>. QED BY <3>1, ReleaseFrame
  <2>7. CASE DecideFinish(c)
    <3>1. Release(c) /\ UNCHANGED <<bytes, loaded, late>>
      BY <2>7 DEF DecideFinish, native, history
    <3>. QED BY <3>1, ReleaseFrame
  <2>8. CASE ContinueFinish(c)
    BY <2>8 DEF ContinueFinish, SaveState, Goto, native, history
  <2>9. CASE ApplyMark(c)
    BY <2>9 DEF ApplyMark, SaveState, Goto, native, history
  <2>10. CASE ApplyCheck(c)
    BY <2>10 DEF ApplyCheck, Compares, Goto, Release, native, locals, history
  <2>11. CASE ApplyReplace(c)
    BY <2>11 DEF ApplyReplace, Overwrite, Goto, locals
  <2>12. CASE ApplyNative(c)
    BY <2>12 DEF ApplyNative, KeepDestination, Goto, native, locals, history
  <2>13. CASE ApplyVerify(c)
    <3>1. Release(c) /\ UNCHANGED <<bytes, loaded, late>>
      BY <2>13 DEF ApplyVerify, native, history
    <3>. QED BY <3>1, ReleaseFrame
  <2>14. CASE ApplyRestore(c)
    BY <2>14 DEF ApplyRestore, Compares, Goto, Release, native, locals, history
  <2>15. CASE ApplyCopyBack(c)
    BY <2>15, ReleaseFrame DEF ApplyCopyBack, Overwrite
  <2>16. CASE RollbackRecord(c)
    BY <2>16 DEF RollbackRecord, Goto, Release, NothingMerged, locals, native, history
  <2>17. CASE RollbackNative(c)
    BY <2>17 DEF RollbackNative, RollbackEffect, Goto, Release, locals, native, history
  <2>18. CASE RollbackFinish(c)
    <3>1. Release(c) /\ UNCHANGED <<bytes, loaded, late>>
      BY <2>18 DEF RollbackFinish, native, history
    <3>. QED BY <3>1, ReleaseFrame
  <2>19. CASE UndoFails(c)
    <3>1. Release(c) /\ UNCHANGED <<bytes, loaded, late>>
      BY <2>19 DEF UndoFails, native, history
    <3>. QED BY <3>1, ReleaseFrame
  <2>20. CASE UndoWorks(c)
    BY <2>20 DEF UndoWorks, UndoAll, UndoFile, NothingMerged, Goto, Release, locals
  <2>21. CASE Retire(c)
    BY <2>21 DEF Retire, Goto, Release, NothingMerged, locals, native, history
  <2>22. CASE RetireMarker(c)
    BY <2>22 DEF RetireMarker, Release, Goto, locals, native, history
  <2>23. CASE CheckinNative(c)
    BY <2>23 DEF CheckinNative, Published, Publish, NothingMerged, Release, Goto, locals, native, history
  <2>24. CASE FastCheckin(c)
    BY <2>24, ReleaseFrame DEF FastCheckin, Published, Publish, NothingMerged, native, history
  <2>. QED BY <1>3, <2>1, <2>2, <2>3, <2>4, <2>5, <2>6, <2>7, <2>8, <2>9, <2>10, <2>11, <2>12, <2>13, <2>14, <2>15, <2>16, <2>17, <2>18, <2>19, <2>20, <2>21, <2>22, <2>23, <2>24 DEF Continue
<1>4. ASSUME Fault PROVE Compared'
  <2>1. ASSUME NEW c \in Clients, Crash(c) PROVE Compared'
    BY <2>1, ReleaseFrame DEF Crash, native, history
  <2>2. ASSUME NEW c \in Clients, CrashWriting(c) PROVE Compared'
    BY <2>2, ReleaseFrame DEF CrashWriting, native, history
  <2>3. ASSUME NEW f \in Files, NEW e \in Edits, Edit(f, e) PROVE Compared'
    BY <2>3 DEF Edit, Save, Relies, locals
  <2>4. ASSUME ForeignUndo PROVE Compared'
    BY <2>4 DEF ForeignUndo, UndoAll, NothingMerged, locals
  <2>5. ASSUME NEW f \in Files, ForeignResolve(f) PROVE Compared'
    BY <2>5 DEF ForeignResolve, KeepDestination, locals
  <2>6. ASSUME NEW s \in Sources, ForeignMerge(s) PROVE Compared'
    BY <2>6 DEF ForeignMerge, MergeDone, NothingMerged, locals
  <2>. QED BY <1>4, <2>1, <2>2, <2>3, <2>4, <2>5, <2>6 DEF Fault
<1>. QED BY <1>1, <1>2, <1>3, <1>4 DEF Next

\* Overwriting compared bytes loses no edit.
LEMMA SurviveStep == Inv1 /\ Inv5 /\ [Next]_vars => EditsSurvive'
<1> SUFFICES ASSUME Inv1, Inv5, [Next]_vars PROVE EditsSurvive'
  OBVIOUS
<1> USE DEF Inv5, Compared, EditsSurvive
<1>1. CASE UNCHANGED lost
  BY <1>1
<1>2. ASSUME NEW c \in Clients, ApplyReplace(c) PROVE EditsSurvive'
  BY <1>2 DEF ApplyReplace, Overwrite
<1>3. ASSUME NEW c \in Clients, ApplyCopyBack(c) PROVE EditsSurvive'
  <2>1. result[c] \notin Edits
    BY <1>3, SessionAssumption DEF ApplyCopyBack, Inv1, MemoryOK, Applying
  <2>. QED BY <1>3, <2>1 DEF ApplyCopyBack, Overwrite
<1>. QED BY <1>1, <1>2, <1>3, StepFrame DEF Frame

\* Both facts about edits are inductive.
LEMMA Inv5Step == Inv1 /\ Inv5 /\ [Next]_vars => Inv5'
BY ComparedStep, SurviveStep DEF Inv5

\* They hold in the initial state.
LEMMA Inv5Init == Init => Inv5
BY DEF Init, Inv5, Compared, EditsSurvive

-----------------------------------------------------------------------------
(* Theorems *)

\* The inductive invariant behind the theorems below.
LEMMA Invariance == Spec => []IInv
<1>1. Init => IInv
  BY Inv1Init, Inv2Init, Inv3Init, Inv4Init DEF IInv
<1>2. IInv /\ [Next]_vars => IInv'
  BY Inv1Step, Inv2Step, Inv3Step, Inv4Step DEF IInv
<1>. QED BY <1>1, <1>2, PTL DEF Spec

\* Nothing the program writes or holds leaves its type.
THEOREM TypeCorrect == Spec => []TypeOK
<1>1. IInv => TypeOK
  BY DEF IInv, Inv1
<1>. QED BY <1>1, Invariance, PTL

\* A handler that goes on after saving its session still holds the merge gate,
\* and nobody has overwritten what it saved.
THEOREM NoSaveIsLost == Spec => []NoLostSave
<1>1. IInv => NoLostSave
  BY DEF IInv, Inv1
<1>. QED BY <1>1, Invariance, PTL

\* A merge or rollback that the program began always has a session: neither a
\* failure, a crash, another client nor a retirement leaves it without one.
THEOREM NoMergeIsLost == Spec => []MergeIsTracked
<1>1. IInv => MergeIsTracked
  BY DEF IInv, Inv2
<1>. QED BY <1>1, Invariance, PTL

\* A session that admits work vouches for every file that Plastic no longer
\* reports, whatever failed or was interrupted before.
THEOREM ReadyMeansDecided == Spec => []ReadyIsDecided
<1>1. IInv => ReadyIsDecided
  BY DEF IInv, Inv3
<1>. QED BY <1>1, Invariance, PTL

\* A check-in through the merge gate never publishes a merge that is undecided,
\* half applied or stopped half way.
THEOREM GateProtectsCheckin == Spec => []GatedCheckinWhole
<1>1. IInv => GatedCheckinWhole
  BY DEF IInv, Inv4
<1>. QED BY <1>1, Invariance, PTL

\* Bytes of an editor that no copy holds are never overwritten, unless they were
\* saved between the comparison of a hash and the write that relies on it: what
\* is there to be compared is kept, in any merge and whatever fails.
THEOREM NoEditIsDestroyed == Spec => []EditsSurvive
<1>1. Inv5 /\ IInv /\ [Next]_vars => Inv5'
  BY Inv5Step DEF IInv
<1>2. Init => Inv5
  BY Inv5Init
<1>3. Inv5 => EditsSurvive
  BY DEF Inv5
<1>. QED BY <1>1, <1>2, <1>3, Invariance, PTL DEF Spec
=============================================================================
