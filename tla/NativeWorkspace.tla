--------------------------- MODULE NativeWorkspace ---------------------------
(***************************************************************************)
(* A Standard Plastic SCM workspace as TortoiseSCM sees it: the bytes of   *)
(* its files, the revision it has loaded and the state of a native merge   *)
(* (.plastic/plastic.mergeprogress and the conflicts that `cm merge`       *)
(* previews).  The native client `cm` is not part of the repository: its   *)
(* commands are described by what the code in Core/ relies on when it      *)
(* runs them, and every outcome the code must cope with is allowed.        *)
(***************************************************************************)
EXTENDS Naturals, FiniteSets

CONSTANTS
  Files,          \* versioned files of the workspace
  Sources,        \* changesets that can be merged into it
  FileConflicts,  \* [Sources -> SUBSET Files]: conflicts of a fresh preview
  Items,          \* directory (structure) conflicts
  DirConflicts,   \* [Sources -> SUBSET Items]
  Results,        \* reviewed merge results
  Edits,          \* bytes that only an editor writes
  Original,       \* bytes of the first loaded revision
  NoMerge,        \* progress: no plastic.mergeprogress file
  RollbackMark,   \* progress: left by a native subtractive merge
  MaxChangesets   \* bound: changesets made or loaded in a behaviour

Content == {Original} \cup Results \cup Edits

ASSUME NativeAssumption ==
  /\ Sources # {}
  /\ FileConflicts \in [Sources -> SUBSET Files]
  /\ DirConflicts \in [Sources -> SUBSET Items]
  /\ NoMerge \notin Sources /\ RollbackMark \notin Sources
  /\ NoMerge # RollbackMark
  /\ MaxChangesets \in Nat

VARIABLES
  bytes,      \* [Files -> Content]: what is on disk
  loaded,     \* [Files -> Content]: content of the loaded changeset
  changeset,  \* number of the loaded changeset
  progress,   \* the native merge in progress
  conflicts,  \* its unresolved file conflicts
  merged      \* sources already integrated by a published merge

native == <<bytes, loaded, changeset, progress, conflicts, merged>>

NativeTypeOK ==
  /\ bytes \in [Files -> Content]
  /\ loaded \in [Files -> Content]
  /\ changeset \in 0..MaxChangesets
  /\ progress \in Sources \cup {NoMerge, RollbackMark}
  /\ conflicts \subseteq Files
  /\ merged \subseteq Sources

NativeInit ==
  /\ bytes = [f \in Files |-> Original]
  /\ loaded = bytes
  /\ changeset = 0
  /\ progress = NoMerge
  /\ conflicts = {}
  /\ merged = {}

\* Items of `cm status`; the workspace is clean when there are none and no
\* merge is in progress.
Pending == {f \in Files : bytes[f] # loaded[f]}
Clean == Pending = {} /\ progress = NoMerge

\* File conflicts that `cm merge cs:s` previews.
Preview(s) ==
  IF progress = s THEN conflicts
  ELSE IF s \in merged THEN {} ELSE FileConflicts[s]

\* Directory conflicts that it previews; an applied plan has none left.
DirectoryPreview(s) == IF s \in merged \cup {progress} THEN {} ELSE DirConflicts[s]

-----------------------------------------------------------------------------
\* `cm merge cs:s --merge`.  A completed merge leaves the conflicting files at
\* their destination bytes; a failed one may have stopped anywhere.
MergeDone(s) ==
  /\ progress = NoMerge
  /\ progress' = s
  /\ conflicts' = FileConflicts[s]
  /\ UNCHANGED <<bytes, loaded, changeset, merged>>

MergeBroken(s) ==
  /\ progress = NoMerge
  /\ progress' = s
  /\ conflicts' \in SUBSET FileConflicts[s]
  /\ UNCHANGED <<bytes, loaded, changeset, merged>>

\* `cm merge --subtractive --merge` back to the first revision; Reverted is the
\* set of files it reached.
RollbackEffect(Reverted) ==
  /\ progress = NoMerge
  /\ bytes' = [f \in Files |-> IF f \in Reverted THEN Original ELSE bytes[f]]
  /\ progress' \in {NoMerge, RollbackMark}
  /\ UNCHANGED <<loaded, changeset, conflicts, merged>>

\* `cm merge cs:s path --merge --keepdestination`.
KeepDestination(f) ==
  /\ conflicts' = conflicts \ {f}
  /\ UNCHANGED <<bytes, loaded, changeset, progress, merged>>

\* `cm undo` of the workspace root.
UndoAll ==
  /\ bytes' = loaded
  /\ progress' = NoMerge
  /\ conflicts' = {}
  /\ UNCHANGED <<loaded, changeset, merged>>

\* `cm undo` of one file; a merged file may become a conflict again.
UndoFile(f) ==
  /\ bytes' = [bytes EXCEPT ![f] = loaded[f]]
  /\ \/ conflicts' = conflicts
     \/ /\ progress \in Sources
        /\ f \in FileConflicts[progress]
        /\ conflicts' = conflicts \cup {f}
  /\ UNCHANGED <<loaded, changeset, progress, merged>>

\* `cm checkin` of the workspace root: publishes whatever is pending.  Plastic
\* may or may not refuse an unfinished merge; the code does not rely on it.
Publish ==
  /\ ~Clean
  /\ changeset < MaxChangesets
  /\ loaded' = bytes
  /\ changeset' = changeset + 1
  /\ merged' = merged \cup ({progress} \cap Sources)
  /\ progress' = NoMerge
  /\ conflicts' = {}
  /\ UNCHANGED bytes

\* `cm update` to a newer changeset of the branch.
UpdateLoaded ==
  /\ progress = NoMerge
  /\ changeset < MaxChangesets
  /\ changeset' = changeset + 1
  /\ UNCHANGED <<bytes, loaded, progress, conflicts, merged>>

\* A program other than TortoiseSCM saves f.
Save(f, e) ==
  /\ bytes' = [bytes EXCEPT ![f] = e]
  /\ UNCHANGED <<loaded, changeset, progress, conflicts, merged>>
=============================================================================
