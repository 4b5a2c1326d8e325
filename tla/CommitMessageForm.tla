--------------------------- MODULE CommitMessageForm ---------------------------
(***************************************************************************)
(* The windows over the commit message library of one repository: the main *)
(* window, which records the message of a successful check-in, and the     *)
(* library window (CommitMessageLibraryForm.cs), in which templates are    *)
(* listed, edited, saved and deleted.  A window calls the store of         *)
(* CommitMessageStore.tla and waits for it; windows of other processes go  *)
(* on meanwhile.  A confirmation the user declines is no step.             *)
(***************************************************************************)
EXTENDS CommitMessageStore

CONSTANT MaxWrites   \* bound: calls, and other programs, that change the library

VARIABLES
  form,     \* [Procs -> Form]
  listed,   \* history: templates listed when the editor was last filled, and before
  writes    \* history: those calls and changes, so far

vars == <<storeVars, form, listed, writes>>

\* What the window of a process shows.  `task` is the button whose handler is
\* running (none, open, record, refresh, save, saved, delete, deleted or clear),
\* `reviewed` the evidence the next save is checked against.

NoTemplates == <<>>
Closed == [open |-> FALSE, library |-> Library!Empty, reviewed |-> NoTemplates,
           name |-> Absent, text |-> Absent, selected |-> Absent, task |-> "none"]

Init ==
  /\ StoreInit
  /\ form = [p \in Procs |-> Closed]
  /\ listed = [p \in Procs |-> {}]
  /\ writes = 0

Listing(templates) == {<<n, templates[n]>> : n \in DOMAIN templates}

\* The handler of a button starts with a call of the store.
Start(p, task, o) ==
  /\ form[p].task = "none"
  /\ o # Load => writes < MaxWrites
  /\ Call(p, o)
  /\ form' = [form EXCEPT ![p].task = task]
  /\ writes' = IF o = Load THEN writes ELSE writes + 1
  /\ UNCHANGED listed

Returned(p, task) == form[p].task = task /\ At(p, "idle")
Succeeded(p, task) == Returned(p, task) /\ outcome[p] = "done"

\* Reload after a call of Load, with the template n selected if it is there.
Reload(p, n) ==
  LET loaded == copy[p]
      found == n \in DOMAIN loaded.templates
  IN  /\ form' = [form EXCEPT ![p] =
            [open |-> TRUE, library |-> loaded, reviewed |-> loaded.templates,
             name |-> IF found THEN n ELSE Absent,
             text |-> Library!TextOf(loaded.templates, n),
             selected |-> IF found THEN n ELSE Absent, task |-> "none"]]
      /\ listed' = [listed EXCEPT ![p] = @ \cup Listing(loaded.templates)]
      /\ UNCHANGED <<storeVars, writes>>

\* A handler that threw leaves the window as it is.
Fails(p) ==
  /\ form[p].task # "none"
  /\ At(p, "idle")
  /\ outcome[p] \in {"refused", "failed"}
  /\ form' = [form EXCEPT ![p].task = "none"]
  /\ UNCHANGED <<storeVars, listed, writes>>

\* The check-in of the main window succeeded; whether its message is kept does
\* not matter to it.
Record(p, message) ==
  ~form[p].open /\ Start(p, "record", [kind |-> "record", message |-> message])

Recorded(p) ==
  /\ Succeeded(p, "record")
  /\ form' = [form EXCEPT ![p].task = "none"]
  /\ UNCHANGED <<storeVars, listed, writes>>

Open(p) == ~form[p].open /\ Start(p, "open", Load)
Opened(p) == Succeeded(p, "open") /\ Reload(p, Absent)

Close(p) ==
  /\ form[p].open /\ form[p].task = "none"
  /\ form' = [form EXCEPT ![p] = Closed]
  /\ listed' = [listed EXCEPT ![p] = {}]
  /\ UNCHANGED <<storeVars, writes>>

\* Variant: the refreshed list becomes the evidence of the edit.
RefreshReviewed(p) ==
  /\ Succeeded(p, "refresh")
  /\ form' = [form EXCEPT ![p].library = copy[p], ![p].selected = Absent,
                          ![p].reviewed = copy[p].templates, ![p].task = "none"]
  /\ UNCHANGED <<storeVars, listed, writes>>

\* Variant: a plain reload.
RefreshAll(p) == Succeeded(p, "refresh") /\ Reload(p, Absent)

\* ReloadPreservingEditor: new lists, but the editor and its evidence stay.
Refresh(p) == form[p].open /\ Start(p, "refresh", Load)
Refreshed(p) ==
  /\ Succeeded(p, "refresh")
  /\ form' = [form EXCEPT ![p].library = copy[p], ![p].selected = Absent,
                          ![p].task = "none"]
  /\ UNCHANGED <<storeVars, listed, writes>>

\* Clearing the history ends with the same reload.
Clear(p) ==
  /\ form[p].open
  /\ form[p].library.recent # <<>>
  /\ Start(p, "clear", [kind |-> "clear"])

Cleared(p) ==
  /\ Succeeded(p, "clear")
  /\ Call(p, Load)
  /\ form' = [form EXCEPT ![p].task = "refresh"]
  /\ UNCHANGED <<listed, writes>>

\* Selecting a template fills the editor with it and reviews it.
Select(p, n) ==
  /\ form[p].open /\ form[p].task = "none"
  /\ n \in DOMAIN form[p].library.templates \ {form[p].selected}
  /\ LET templates == form[p].library.templates
         reviewed == form[p].reviewed
     IN  /\ form' = [form EXCEPT
              ![p].selected = n, ![p].name = n, ![p].text = templates[n],
              ![p].reviewed = [m \in DOMAIN reviewed \cup {n} |->
                                 IF m = n THEN templates[n] ELSE reviewed[m]]]
         /\ listed' = [listed EXCEPT ![p] = @ \cup {<<n, templates[n]>>}]
  /\ UNCHANGED <<storeVars, writes>>

\* A new template starts empty or from the draft of the main window.
StartTemplate(p, text) ==
  /\ form[p].open /\ form[p].task = "none"
  /\ form' = [form EXCEPT ![p].selected = Absent, ![p].name = Absent, ![p].text = text,
                          ![p].reviewed = form[p].library.templates]
  /\ listed' = [listed EXCEPT ![p] = @ \cup Listing(form[p].library.templates)]
  /\ UNCHANGED <<storeVars, writes>>

\* The user types.
Edit(p, n, text) ==
  /\ form[p].open /\ form[p].task = "none"
  /\ form' = [form EXCEPT ![p].name = n, ![p].text = text]
  /\ UNCHANGED <<storeVars, listed, writes>>

\* A name that was not listed is expected to be new, a listed one to be as listed.
Save(p) ==
  /\ form[p].open
  /\ form[p].name # Absent /\ form[p].text # Absent
  /\ Start(p, "save", [kind |-> "save", name |-> form[p].name, text |-> form[p].text,
                       expected |-> Library!TextOf(form[p].reviewed, form[p].name)])

Saved(p) ==
  /\ Succeeded(p, "save")
  /\ Call(p, Load)
  /\ form' = [form EXCEPT ![p].task = "saved"]
  /\ UNCHANGED <<listed, writes>>

ShowSaved(p) == Succeeded(p, "saved") /\ Reload(p, form[p].name)

Delete(p) ==
  /\ form[p].open
  /\ form[p].selected # Absent
  /\ Start(p, "delete", [kind |-> "delete", name |-> form[p].selected,
                         expected |-> form[p].library.templates[form[p].selected]])

Deleted(p) ==
  /\ Succeeded(p, "delete")
  /\ Call(p, Load)
  /\ form' = [form EXCEPT ![p].task = "deleted"]
  /\ UNCHANGED <<listed, writes>>

ShowDeleted(p) == Succeeded(p, "deleted") /\ Reload(p, Absent)

\* The store works for a window that waits.
Serve(p) == (Work(p) \/ TimeOut(p)) /\ UNCHANGED <<form, listed, writes>>

Die(p) ==
  /\ Crash(p)
  /\ form' = [form EXCEPT ![p] = Closed]
  /\ listed' = [listed EXCEPT ![p] = {}]
  /\ UNCHANGED writes

\* Another program damages or deletes the library.
Disturb ==
  /\ Interfere
  /\ writes < MaxWrites
  /\ writes' = writes + 1
  /\ UNCHANGED <<form, listed>>

Use(p) ==
  \/ Open(p) \/ Opened(p) \/ Close(p) \/ Refresh(p) \/ Refreshed(p) \/ Clear(p) \/ Cleared(p)
  \/ Save(p) \/ Saved(p) \/ ShowSaved(p) \/ Delete(p) \/ Deleted(p) \/ ShowDeleted(p)
  \/ Recorded(p) \/ Fails(p)
  \/ \E message \in Messages : Record(p, message)
  \/ \E n \in Names : Select(p, n)
  \/ \E text \in Texts \cup {Absent} : StartTemplate(p, text)
  \/ \E n \in Names, text \in Texts : Edit(p, n, text)

Next ==
  \/ \E p \in Procs : Use(p) \/ Serve(p) \/ Die(p)
  \/ Disturb

Spec == Init /\ [][Next]_vars

-----------------------------------------------------------------------------
(* Properties.                                                             *)

\* A window never overwrites or deletes a template text that it had not listed
\* by the time the user began the edit, or selected since: neither a change
\* another window makes while the confirmation is open, nor one that a refresh
\* of the list brings in behind a half-finished edit, is lost
\* (CommitMessageLibraryForm.cs:162-188).
NoUnseenOverwrite ==
  [][\A p \in Procs : Replace(p) =>
       \A n \in DOMAIN file.templates :
         Library!TextOf(file'.templates, n) # file.templates[n]
           => <<n, file.templates[n]>> \in listed[p]]_vars

\* What the user typed is lost only to a handler that succeeded: while a failed
\* or refused call, a refresh of the lists or a step of another window goes on,
\* the editor keeps its name and text (lines 162-168 and 215-219).
EditorIsKept ==
  [][\A p \in Procs : form[p].task \notin {"none", "saved", "deleted"} /\ form'[p].open =>
       form'[p].name = form[p].name /\ form'[p].text = form[p].text]_vars
=============================================================================
