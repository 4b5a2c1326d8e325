------------------------ MODULE CommitMessageFormProofs ------------------------
(***************************************************************************)
(* Proofs that the windows over the commit message library lose neither    *)
(* what another window has saved nor what the user types, for any set of   *)
(* processes, messages, names and texts and any limits.                    *)
(*                                                                         *)
(* The store is used through its invariant (CommitMessageStoreProofs): a   *)
(* window is one more client of it, so HistoryInv holds here as well.      *)
(***************************************************************************)
EXTENDS CommitMessageForm, CommitMessageStoreProofs

\* What the task of a window can be, and the fields of a window.
Tasks == {"none", "open", "record", "refresh", "clear", "save", "saved", "delete", "deleted"}
FormFields == {"open", "library", "reviewed", "name", "text", "selected", "task"}

\* A list of templates that a window may hold.
Typed(templates) ==
  /\ templates \in [DOMAIN templates -> Texts]
  /\ DOMAIN templates \subseteq Names

\* Windows: a closed one is empty, and only a closed one is about to open.
FormOK(f) ==
  /\ DOMAIN f = FormFields
  /\ f.open \in BOOLEAN /\ f.task \in Tasks
  /\ f.name \in Names \cup {Absent} /\ f.text \in Texts \cup {Absent}
  /\ Typed(f.library.templates) /\ Typed(f.reviewed)
  /\ f.selected \in DOMAIN f.library.templates \cup {Absent}
  /\ ~f.open => f.name = Absent /\ f.text = Absent
  /\ f.task = "open" => ~f.open

\* The evidence of an edit, and the selected template, were listed.
Seen(f, l) ==
  /\ \A n \in DOMAIN f.reviewed : <<n, f.reviewed[n]>> \in l
  /\ f.selected # Absent => <<f.selected, f.library.templates[f.selected]>> \in l

\* A call that changes a template was made with what the window had listed.
Expected(o, l) ==
  o.kind \in {"save", "delete"} =>
    /\ o.expected # Unchecked
    /\ o.expected # Absent => <<o.name, o.expected>> \in l

\* A window f that listed l and is at a place in a call of o.
Window(f, l, o, place) ==
  /\ FormOK(f)
  /\ Seen(f, l)
  /\ Expected(o, l)
  /\ f.task = "none" => place = "idle"
  /\ place = "idle" => o = Load

\* Every window is one of these.
FormInv ==
  /\ form = [p \in Procs |-> form[p]]
  /\ listed = [p \in Procs |-> listed[p]]
  /\ \A p \in Procs : Window(form[p], listed[p], op[p], pc[p])

\* A step of one process leaves the windows of the others alone.
LEMMA WindowSteps ==
  ASSUME HistoryInv, FormInv, NEW p \in Procs, NEW f, NEW l, NEW o, NEW place,
         form' = [form EXCEPT ![p] = f], listed' = [listed EXCEPT ![p] = l],
         op' = [op EXCEPT ![p] = o], pc' = [pc EXCEPT ![p] = place],
         Window(f, l, o, place)
  PROVE  FormInv'
<1>1. /\ \A q \in Procs : form'[q] = IF q = p THEN f ELSE form[q]
      /\ \A q \in Procs : listed'[q] = IF q = p THEN l ELSE listed[q]
      /\ \A q \in Procs : op'[q] = IF q = p THEN o ELSE op[q]
      /\ \A q \in Procs : pc'[q] = IF q = p THEN place ELSE pc[q]
      /\ form' = [q \in Procs |-> form'[q]] /\ listed' = [q \in Procs |-> listed'[q]]
  BY DEF FormInv, HistoryInv, StoreInv, Shape
<1>2. ASSUME NEW q \in Procs
      PROVE  Window(form'[q], listed'[q], op'[q], pc'[q])
  <2>1. CASE q = p
    BY <1>1, <2>1, Zenon
  <2>2. CASE q # p
    BY <1>1, <2>2, Zenon DEF FormInv
  <2>. QED BY <2>1, <2>2
<1>. QED BY <1>1, <1>2, Zenon DEF FormInv

\* A window stays one with another task.
LEMMA TaskOK ==
  ASSUME NEW f, FormOK(f), NEW l, Seen(f, l), NEW task \in Tasks, task = "open" => ~f.open,
         NEW g, g = [f EXCEPT !.task = task]
  PROVE  FormOK(g) /\ Seen(g, l) /\ g.task = task
<1>1. DOMAIN f = FormFields
  BY Zenon DEF FormOK
<1>2. /\ g.open = f.open /\ g.library = f.library /\ g.reviewed = f.reviewed
      /\ g.name = f.name /\ g.text = f.text /\ g.selected = f.selected /\ g.task = task
      /\ DOMAIN g = FormFields
  BY <1>1 DEF FormFields
<1>. QED BY <1>2, Zenon DEF FormOK, Seen

\* A handler calls the store and goes on as another task.
LEMMA CallWindow ==
  ASSUME HistoryInv, FormInv, NEW p \in Procs, NEW task \in Tasks \ {"none"}, NEW o,
         Call(p, o), form' = [form EXCEPT ![p].task = task], listed' = listed,
         task = "open" => ~form[p].open, Expected(o, listed[p])
  PROVE  FormInv'
<1>1. Window(form[p], listed[p], op[p], pc[p])
  BY DEF FormInv
<1>2. PICK f : form' = [form EXCEPT ![p] = f] /\ f = [form[p] EXCEPT !.task = task]
  BY Zenon
<1>3. FormOK(f) /\ Seen(f, listed[p]) /\ f.task = task
  BY <1>1, <1>2, TaskOK DEF Window
<1>4. Window(f, listed[p], o, "waiting")
  BY <1>3 DEF Window
<1>5. /\ op' = [op EXCEPT ![p] = o] /\ pc' = [pc EXCEPT ![p] = "waiting"]
      /\ listed' = [listed EXCEPT ![p] = listed[p]]
  BY DEF Call, Move, FormInv
<1>. QED BY <1>2, <1>4, <1>5, WindowSteps

\* A handler is over.
LEMMA EndWindow ==
  ASSUME HistoryInv, FormInv, NEW p \in Procs, At(p, "idle"),
         form' = [form EXCEPT ![p].task = "none"], UNCHANGED <<storeVars, listed>>
  PROVE  FormInv'
<1>1. Window(form[p], listed[p], op[p], pc[p])
  BY DEF FormInv
<1>2. PICK f : form' = [form EXCEPT ![p] = f] /\ f = [form[p] EXCEPT !.task = "none"]
  BY Zenon
<1>3. FormOK(f) /\ Seen(f, listed[p]) /\ f.task = "none"
  BY <1>1, <1>2, TaskOK DEF Window, Tasks
<1>4. Window(f, listed[p], op[p], pc[p])
  BY <1>1, <1>3 DEF Window, At
<1>5. /\ op' = [op EXCEPT ![p] = op[p]] /\ pc' = [pc EXCEPT ![p] = pc[p]]
      /\ listed' = [listed EXCEPT ![p] = listed[p]]
  BY DEF storeVars, FormInv, HistoryInv, StoreInv, Shape
<1>. QED BY <1>2, <1>4, <1>5, WindowSteps

\* The library that a call of Load returned.
LEMMA LoadedIsTyped ==
  ASSUME HistoryInv, NEW p \in Procs
  PROVE  Typed(copy[p].templates)
BY Zenon DEF HistoryInv, LibrariesOK, LibraryOK, TemplatesOK, Typed

\* A reload lists all templates that it reviews and selects one of them at most.
LEMMA ReloadWindow ==
  ASSUME HistoryInv, FormInv, NEW p \in Procs, NEW n, At(p, "idle"), Reload(p, n)
  PROVE  FormInv'
<1>1. PICK loaded : loaded = copy[p]
  OBVIOUS
<1>2. PICK t : t = loaded.templates
  OBVIOUS
<1>3. t \in [DOMAIN t -> Texts] /\ DOMAIN t \subseteq Names
  BY <1>1, <1>2, LoadedIsTyped DEF Typed
<1>4. PICK selected : selected = IF n \in DOMAIN t THEN n ELSE Absent
  OBVIOUS
<1>5. PICK text : text = Library!TextOf(t, n)
  OBVIOUS
<1>6. PICK f : f = [open |-> TRUE, library |-> loaded, reviewed |-> t, name |-> selected,
                    text |-> text, selected |-> selected, task |-> "none"]
  OBVIOUS
<1>7. PICK l : l = listed[p] \cup Listing(t)
  OBVIOUS
<1>8. /\ form' = [form EXCEPT ![p] = f] /\ listed' = [listed EXCEPT ![p] = l]
      /\ UNCHANGED storeVars
  BY <1>1, <1>2, <1>4, <1>5, <1>6, <1>7, Zenon DEF Reload
<1>9. /\ f.open = TRUE /\ f.library = loaded /\ f.reviewed = t /\ f.name = selected
      /\ f.text = text /\ f.selected = selected /\ f.task = "none" /\ DOMAIN f = FormFields
  BY <1>6 DEF FormFields
<1>10. text \in Texts \cup {Absent} /\ selected \in DOMAIN t \cup {Absent}
  BY <1>3, <1>4, <1>5 DEF Library!TextOf
<1>11. FormOK(f)
  <2>1. DOMAIN f = FormFields
    BY <1>9
  <2>2. Typed(t)
    BY <1>3 DEF Typed
  <2>3. selected \in Names \cup {Absent}
    BY <1>3, <1>10
  <2>4. f.open \in BOOLEAN /\ f.open /\ f.task \in Tasks /\ f.task # "open"
    BY <1>9 DEF Tasks
  <2>. QED BY <1>2, <1>9, <1>10, <2>1, <2>2, <2>3, <2>4, Zenon DEF FormOK
<1>12. Seen(f, l)
  <2>1. \A m \in DOMAIN t : <<m, t[m]>> \in l
    BY <1>7 DEF Listing
  <2>2. selected # Absent => selected \in DOMAIN t
    BY <1>10
  <2>. QED BY <1>2, <1>9, <2>1, <2>2, Zenon DEF Seen
<1>13. Window(f, l, op[p], pc[p])
  <2>1. pc[p] = "idle" /\ op[p] = Load
    BY DEF FormInv, Window, At
  <2>2. Expected(Load, l)
    BY DEF Load, Expected
  <2>. QED BY <1>11, <1>12, <2>1, <2>2 DEF Window
<1>14. op' = [op EXCEPT ![p] = op[p]] /\ pc' = [pc EXCEPT ![p] = pc[p]]
  BY <1>8 DEF storeVars, HistoryInv, StoreInv, Shape
<1>. QED BY <1>8, <1>13, <1>14, WindowSteps

\* A closed window holds and lists nothing.
LEMMA ClosedIs == Window(Closed, {}, Load, "idle")
<1>1. PICK f, t : f = Closed /\ t = NoTemplates
  OBVIOUS
<1>2. /\ f.open = FALSE /\ f.library = Library!Empty /\ f.reviewed = t /\ f.name = Absent
      /\ f.text = Absent /\ f.selected = Absent /\ f.task = "none"
      /\ DOMAIN f = FormFields
  BY <1>1 DEF Closed, FormFields
<1>3. Typed(t) /\ Typed(Library!Empty.templates) /\ DOMAIN t = {}
  BY <1>1 DEF Typed, NoTemplates, Library!Empty
<1>4. FormOK(f)
  <2>1. f.open \in BOOLEAN /\ ~f.open /\ f.task \in Tasks /\ f.task # "open"
    BY <1>2 DEF Tasks
  <2>. QED BY <1>2, <1>3, <2>1, Zenon DEF FormOK
<1>5. Seen(f, {}) /\ Expected(Load, {})
  BY <1>2, <1>3 DEF Seen, Expected, Load
<1>. QED BY <1>1, <1>4, <1>5, Zenon DEF Window

\* A window is closed, by its user or because its process died.
LEMMA CloseWindow ==
  ASSUME HistoryInv, FormInv, NEW p \in Procs, Close(p) \/ Die(p)
  PROVE  FormInv'
<1>1. form' = [form EXCEPT ![p] = Closed] /\ listed' = [listed EXCEPT ![p] = {}]
  BY DEF Close, Die
<1>2. op' = [op EXCEPT ![p] = Load] /\ pc' = [pc EXCEPT ![p] = "idle"]
  <2>1. CASE Close(p)
    <3>1. op[p] = Load /\ pc[p] = "idle"
      BY <2>1 DEF Close, FormInv, Window
    <3>2. op' = op /\ pc' = pc
      BY <2>1 DEF Close, storeVars
    <3>. QED BY <3>1, <3>2 DEF HistoryInv, StoreInv, Shape
  <2>2. CASE Die(p)
    BY <2>2 DEF Die, Crash, Return, Move
  <2>. QED BY <2>1, <2>2
<1>. QED BY <1>1, <1>2, ClosedIs, WindowSteps

\* A refreshed window has new lists and no selection; its editor and what that
\* was checked against stay.
LEMMA RefreshWindow ==
  ASSUME HistoryInv, FormInv, NEW p \in Procs, Refreshed(p)
  PROVE  FormInv'
<1>1. PICK g, loaded : g = form[p] /\ loaded = copy[p]
  OBVIOUS
<1>2. Window(g, listed[p], op[p], pc[p])
  BY <1>1, Zenon DEF FormInv
<1>3. PICK f : f = [g EXCEPT !.library = loaded, !.selected = Absent, !.task = "none"]
  OBVIOUS
<1>4. form' = [form EXCEPT ![p] = f]
  <2>1. form' = [form EXCEPT ![p].library = loaded, ![p].selected = Absent, ![p].task = "none"]
    BY <1>1, Zenon DEF Refreshed
  <2>2. form = [q \in Procs |-> form[q]]
    BY Zenon DEF FormInv
  <2>. QED BY <1>1, <1>3, <2>1, <2>2
<1>5. /\ f.open = g.open /\ f.library = loaded /\ f.reviewed = g.reviewed /\ f.name = g.name
      /\ f.text = g.text /\ f.selected = Absent /\ f.task = "none" /\ DOMAIN f = FormFields
  <2>1. DOMAIN g = FormFields
    BY <1>2, Zenon DEF Window, FormOK
  <2>. QED BY <1>3, <2>1 DEF FormFields
<1>6. FormOK(f)
  <2>1. DOMAIN f = FormFields
    BY <1>5
  <2>2. Typed(loaded.templates)
    BY <1>1, LoadedIsTyped
  <2>3. f.task \in Tasks /\ f.task # "open"
    BY <1>5 DEF Tasks
  <2>. QED BY <1>2, <1>5, <2>1, <2>2, <2>3, Zenon DEF Window, FormOK
<1>7. Seen(f, listed[p])
  BY <1>2, <1>5, Zenon DEF Window, Seen
<1>8. Window(f, listed[p], op[p], pc[p])
  BY <1>2, <1>6, <1>7 DEF Window, Refreshed, Succeeded, Returned, At
<1>9. /\ op' = [op EXCEPT ![p] = op[p]] /\ pc' = [pc EXCEPT ![p] = pc[p]]
      /\ listed' = [listed EXCEPT ![p] = listed[p]]
  BY DEF Refreshed, storeVars, FormInv, HistoryInv, StoreInv, Shape
<1>. QED BY <1>4, <1>8, <1>9, WindowSteps

\* A selected template is listed and fills the editor.
LEMMA SelectWindow ==
  ASSUME HistoryInv, FormInv, NEW p \in Procs, NEW n \in Names, Select(p, n)
  PROVE  FormInv'
<1>1. PICK g, t, v : g = form[p] /\ t = g.library.templates /\ v = g.reviewed
  OBVIOUS
<1>2. Window(g, listed[p], op[p], pc[p])
  BY <1>1, Zenon DEF FormInv
<1>3. PICK w : w = [m \in DOMAIN v \cup {n} |-> IF m = n THEN t[n] ELSE v[m]]
  OBVIOUS
<1>4. PICK f, l :
        /\ f = [g EXCEPT !.selected = n, !.name = n, !.text = t[n], !.reviewed = w]
        /\ l = listed[p] \cup {<<n, t[n]>>}
  OBVIOUS
<1>5. form' = [form EXCEPT ![p] = f] /\ listed' = [listed EXCEPT ![p] = l]
  <2>1. form' = [form EXCEPT ![p].selected = n, ![p].name = n, ![p].text = t[n],
                             ![p].reviewed = w]
    BY <1>1, <1>3, Zenon DEF Select
  <2>2. form = [q \in Procs |-> form[q]]
    BY Zenon DEF FormInv
  <2>3. form' = [form EXCEPT ![p] = f]
    BY <1>1, <1>4, <2>1, <2>2
  <2>4. listed' = [listed EXCEPT ![p] = l]
    BY <1>1, <1>4, Zenon DEF Select
  <2>. QED BY <2>3, <2>4
<1>6. /\ f.open = g.open /\ f.library = g.library /\ f.reviewed = w /\ f.name = n
      /\ f.text = t[n] /\ f.selected = n /\ f.task = g.task /\ DOMAIN f = FormFields
  <2>1. DOMAIN g = FormFields
    BY <1>2, Zenon DEF Window, FormOK
  <2>. QED BY <1>4, <2>1 DEF FormFields
<1>7. /\ n \in DOMAIN t /\ g.open /\ g.task = "none"
      /\ t \in [DOMAIN t -> Texts]
      /\ v \in [DOMAIN v -> Texts] /\ DOMAIN v \subseteq Names
  BY <1>1, <1>2, Zenon DEF Select, Window, FormOK, Typed
<1>8. Typed(w)
  BY <1>3, <1>7 DEF Typed
<1>9. FormOK(f)
  <2>1. DOMAIN f = FormFields
    BY <1>6
  <2>2. /\ f.open /\ f.open \in BOOLEAN /\ f.task \in Tasks /\ f.task # "open"
        /\ Typed(f.library.templates)
    BY <1>2, <1>6, <1>7, Zenon DEF Window, FormOK
  <2>3. /\ f.name \in Names \cup {Absent} /\ f.text \in Texts \cup {Absent}
        /\ f.selected \in DOMAIN t \cup {Absent}
    BY <1>6, <1>7
  <2>. QED BY <1>1, <1>6, <1>8, <2>1, <2>2, <2>3, Zenon DEF FormOK
<1>10. Seen(f, l)
  <2>1. \A m \in DOMAIN v : <<m, v[m]>> \in listed[p]
    BY <1>1, <1>2, Zenon DEF Window, Seen
  <2>2. \A m \in DOMAIN w : <<m, w[m]>> \in l
    BY <1>3, <1>4, <2>1
  <2>3. <<n, t[n]>> \in l
    BY <1>4
  <2>. QED BY <1>1, <1>6, <2>2, <2>3, Zenon DEF Seen
<1>11. Window(f, l, op[p], pc[p])
  <2>1. pc[p] = "idle" /\ op[p] = Load
    BY <1>2, <1>7 DEF Window
  <2>2. Expected(Load, l)
    BY DEF Load, Expected
  <2>. QED BY <1>9, <1>10, <2>1, <2>2 DEF Window
<1>12. op' = [op EXCEPT ![p] = op[p]] /\ pc' = [pc EXCEPT ![p] = pc[p]]
  BY DEF Select, storeVars, HistoryInv, StoreInv, Shape
<1>. QED BY <1>5, <1>11, <1>12, WindowSteps

\* A new template is checked against the lists as they are.
LEMMA StartWindow ==
  ASSUME HistoryInv, FormInv, NEW p \in Procs, NEW text \in Texts \cup {Absent},
         StartTemplate(p, text)
  PROVE  FormInv'
<1>1. PICK g, t : g = form[p] /\ t = g.library.templates
  OBVIOUS
<1>2. Window(g, listed[p], op[p], pc[p])
  BY <1>1, Zenon DEF FormInv
<1>3. PICK f, l :
        /\ f = [g EXCEPT !.selected = Absent, !.name = Absent, !.text = text, !.reviewed = t]
        /\ l = listed[p] \cup Listing(t)
  OBVIOUS
<1>4. form' = [form EXCEPT ![p] = f] /\ listed' = [listed EXCEPT ![p] = l]
  <2>1. form' = [form EXCEPT ![p].selected = Absent, ![p].name = Absent, ![p].text = text,
                             ![p].reviewed = t]
    BY <1>1, Zenon DEF StartTemplate
  <2>2. form = [q \in Procs |-> form[q]]
    BY Zenon DEF FormInv
  <2>3. form' = [form EXCEPT ![p] = f]
    BY <1>1, <1>3, <2>1, <2>2
  <2>4. listed' = [listed EXCEPT ![p] = l]
    BY <1>1, <1>3, Zenon DEF StartTemplate
  <2>. QED BY <2>3, <2>4
<1>5. /\ f.open = g.open /\ f.library = g.library /\ f.reviewed = t /\ f.name = Absent
      /\ f.text = text /\ f.selected = Absent /\ f.task = g.task /\ DOMAIN f = FormFields
  <2>1. DOMAIN g = FormFields
    BY <1>2, Zenon DEF Window, FormOK
  <2>. QED BY <1>3, <2>1 DEF FormFields
<1>6. g.open /\ g.task = "none" /\ Typed(t)
  BY <1>1, <1>2, Zenon DEF StartTemplate, Window, FormOK
<1>7. FormOK(f)
  <2>1. DOMAIN f = FormFields
    BY <1>5
  <2>2. f.open /\ f.open \in BOOLEAN /\ f.task \in Tasks /\ f.task # "open"
    BY <1>2, <1>5, <1>6, Zenon DEF Window, FormOK
  <2>. QED BY <1>1, <1>5, <1>6, <2>1, <2>2, Zenon DEF FormOK
<1>8. Seen(f, l)
  <2>1. \A m \in DOMAIN t : <<m, t[m]>> \in l
    BY <1>3 DEF Listing
  <2>. QED BY <1>5, <2>1, Zenon DEF Seen
<1>9. Window(f, l, op[p], pc[p])
  <2>1. pc[p] = "idle" /\ op[p] = Load
    BY <1>2, <1>6 DEF Window
  <2>2. Expected(Load, l)
    BY DEF Load, Expected
  <2>. QED BY <1>7, <1>8, <2>1, <2>2 DEF Window
<1>10. op' = [op EXCEPT ![p] = op[p]] /\ pc' = [pc EXCEPT ![p] = pc[p]]
  BY DEF StartTemplate, storeVars, HistoryInv, StoreInv, Shape
<1>. QED BY <1>4, <1>9, <1>10, WindowSteps

\* Typing changes the editor only.
LEMMA EditWindow ==
  ASSUME HistoryInv, FormInv, NEW p \in Procs, NEW n \in Names, NEW text \in Texts,
         Edit(p, n, text)
  PROVE  FormInv'
<1>1. PICK g : g = form[p]
  OBVIOUS
<1>2. Window(g, listed[p], op[p], pc[p])
  BY <1>1, Zenon DEF FormInv
<1>3. PICK f : f = [g EXCEPT !.name = n, !.text = text]
  OBVIOUS
<1>4. form' = [form EXCEPT ![p] = f]
  <2>1. form' = [form EXCEPT ![p].name = n, ![p].text = text]
    BY Zenon DEF Edit
  <2>2. form = [q \in Procs |-> form[q]]
    BY Zenon DEF FormInv
  <2>. QED BY <1>1, <1>3, <2>1, <2>2
<1>5. /\ f.open = g.open /\ f.library = g.library /\ f.reviewed = g.reviewed /\ f.name = n
      /\ f.text = text /\ f.selected = g.selected /\ f.task = g.task /\ DOMAIN f = FormFields
  <2>1. DOMAIN g = FormFields
    BY <1>2, Zenon DEF Window, FormOK
  <2>. QED BY <1>3, <2>1 DEF FormFields
<1>6. g.open
  BY <1>1, Zenon DEF Edit
<1>7. FormOK(f)
  <2>1. DOMAIN f = FormFields
    BY <1>5
  <2>2. f.name \in Names \cup {Absent} /\ f.text \in Texts \cup {Absent}
    BY <1>5
  <2>. QED BY <1>2, <1>5, <1>6, <2>1, <2>2, Zenon DEF Window, FormOK
<1>8. Window(f, listed[p], op[p], pc[p])
  BY <1>2, <1>5, <1>7, Zenon DEF Window, Seen
<1>9. /\ op' = [op EXCEPT ![p] = op[p]] /\ pc' = [pc EXCEPT ![p] = pc[p]]
      /\ listed' = [listed EXCEPT ![p] = listed[p]]
  BY DEF Edit, storeVars, FormInv, HistoryInv, StoreInv, Shape
<1>. QED BY <1>4, <1>8, <1>9, WindowSteps

\* The store gives a call back when it is over.
LEMMA ServeWindow ==
  ASSUME HistoryInv, FormInv, NEW p \in Procs, Serve(p)
  PROVE  FormInv'
<1>1. Window(form[p], listed[p], op[p], pc[p])
  BY DEF FormInv
<1>2. form[p].task # "none"
  BY <1>1 DEF Window, Serve, Work, Acquire, Read, Replace, WriteFails, Release, TimeOut, At
<1>3. \E o, place : /\ op' = [op EXCEPT ![p] = o] /\ pc' = [pc EXCEPT ![p] = place]
                    /\ \/ place = "idle" /\ o = Load
                       \/ place # "idle" /\ o = op[p]
  <2>1. CASE Release(p) \/ TimeOut(p)
    <3>1. op' = [op EXCEPT ![p] = Load] /\ pc' = [pc EXCEPT ![p] = "idle"]
      BY <2>1, Zenon DEF Release, TimeOut, Return, Move
    <3>. QED BY <3>1, Zenon
  <2>2. CASE Acquire(p) \/ Read(p) \/ Replace(p) \/ WriteFails(p)
    <3>1. \/ pc' = [pc EXCEPT ![p] = "reading"]
          \/ pc' = [pc EXCEPT ![p] = "writing"]
          \/ pc' = [pc EXCEPT ![p] = "releasing"]
      BY <2>2, Zenon DEF Acquire, Read, Replace, WriteFails, Finish, Move
    <3>2. op' = op
      BY <2>2 DEF Acquire, Read, Replace, WriteFails, locals
    <3>3. op' = [op EXCEPT ![p] = op[p]]
      BY <3>2 DEF HistoryInv, StoreInv, Shape
    <3>4. "reading" # "idle" /\ "writing" # "idle" /\ "releasing" # "idle"
      OBVIOUS
    <3>. QED BY <3>1, <3>3, <3>4, Zenon
  <2>. QED BY <2>1, <2>2 DEF Serve, Work
<1>4. PICK o, place : /\ op' = [op EXCEPT ![p] = o] /\ pc' = [pc EXCEPT ![p] = place]
                      /\ \/ place = "idle" /\ o = Load
                         \/ place # "idle" /\ o = op[p]
  BY <1>3
<1>5. Expected(Load, listed[p])
  BY DEF Load, Expected
<1>6. Window(form[p], listed[p], o, place)
  BY <1>1, <1>2, <1>4, <1>5, Zenon DEF Window
<1>7. form' = [form EXCEPT ![p] = form[p]] /\ listed' = [listed EXCEPT ![p] = listed[p]]
  BY DEF Serve, FormInv
<1>. QED BY <1>4, <1>6, <1>7, WindowSteps

\* The save and delete handlers expect what the window had listed.
LEMMA SaveWindow ==
  ASSUME HistoryInv, FormInv, NEW p \in Procs, Save(p) \/ Delete(p)
  PROVE  FormInv'
<1>1. PICK g, t, v : g = form[p] /\ t = g.library.templates /\ v = g.reviewed
  OBVIOUS
<1>2. Window(g, listed[p], op[p], pc[p])
  BY <1>1, Zenon DEF FormInv
<1>3. /\ t \in [DOMAIN t -> Texts] /\ v \in [DOMAIN v -> Texts]
      /\ g.selected \in DOMAIN t \cup {Absent}
  BY <1>1, <1>2, Zenon DEF Window, FormOK, Typed
<1>4. /\ \A n \in DOMAIN v : <<n, v[n]>> \in listed[p]
      /\ g.selected # Absent => <<g.selected, t[g.selected]>> \in listed[p]
  BY <1>1, <1>2, Zenon DEF Window, Seen
<1>5. Unchecked \notin Texts \cup {Absent}
  BY StoreAssumption DEF StoreAssumption
<1>6. CASE Save(p)
  <2>1. PICK o : o = [kind |-> "save", name |-> g.name, text |-> g.text,
                      expected |-> Library!TextOf(v, g.name)]
    OBVIOUS
  <2>2. Start(p, "save", o)
    BY <1>1, <1>6, <2>1, Zenon DEF Save
  <2>3. o.kind = "save" /\ o.name = g.name /\ o.expected = Library!TextOf(v, g.name)
    BY <2>1
  <2>4. o.expected # Unchecked /\ (o.expected # Absent => <<o.name, o.expected>> \in listed[p])
    BY <1>3, <1>4, <1>5, <2>3 DEF Library!TextOf
  <2>5. Expected(o, listed[p])
    BY <2>4 DEF Expected
  <2>6. "save" \in Tasks \ {"none"} /\ "save" # "open"
    BY DEF Tasks
  <2>. QED BY <2>2, <2>5, <2>6, CallWindow, Zenon DEF Start
<1>7. CASE Delete(p)
  <2>1. PICK o : o = [kind |-> "delete", name |-> g.selected, expected |-> t[g.selected]]
    OBVIOUS
  <2>2. Start(p, "delete", o) /\ g.selected # Absent
    BY <1>1, <1>7, <2>1, Zenon DEF Delete
  <2>3. o.kind = "delete" /\ o.name = g.selected /\ o.expected = t[g.selected]
    BY <2>1
  <2>4. o.expected # Unchecked /\ (o.expected # Absent => <<o.name, o.expected>> \in listed[p])
    BY <1>3, <1>4, <1>5, <2>2, <2>3
  <2>5. Expected(o, listed[p])
    BY <2>4 DEF Expected
  <2>6. "delete" \in Tasks \ {"none"} /\ "delete" # "open"
    BY DEF Tasks
  <2>. QED BY <2>2, <2>5, <2>6, CallWindow, Zenon DEF Start
<1>. QED BY <1>6, <1>7

\* Every use of a window leaves windows as they should be.
LEMMA UseWindow ==
  ASSUME HistoryInv, FormInv, NEW p \in Procs, Use(p)
  PROVE  FormInv'
<1>0. /\ Tasks \ {"none"} = {"open", "record", "refresh", "clear", "save", "saved", "delete",
                             "deleted"}
      /\ \A o, l : o.kind \notin {"save", "delete"} => Expected(o, l)
  BY DEF Tasks, Expected
<1>1. Load.kind \notin {"save", "delete"}
  BY DEF Load
<1>2. ASSUME NEW task \in Tasks \ {"none"}, Start(p, task, Load), task = "open" => ~form[p].open
      PROVE  FormInv'
  BY <1>0, <1>1, <1>2, CallWindow, Zenon DEF Start
<1>3. CASE Open(p)
  BY <1>0, <1>2, <1>3 DEF Open
<1>4. CASE Refresh(p)
  BY <1>0, <1>2, <1>4 DEF Refresh
<1>5. CASE Clear(p)
  <2>1. PICK o : o = [kind |-> "clear"]
    OBVIOUS
  <2>2. o.kind \notin {"save", "delete"}
    BY <2>1
  <2>3. "clear" \in Tasks \ {"none"} /\ "clear" # "open"
    BY <1>0
  <2>4. Start(p, "clear", o)
    BY <1>5, <2>1, Zenon DEF Clear
  <2>. QED BY <1>0, <2>2, <2>3, <2>4, CallWindow, Zenon DEF Start
<1>6. ASSUME NEW message \in Messages, Record(p, message) PROVE FormInv'
  <2>1. PICK o : o = [kind |-> "record", message |-> message]
    OBVIOUS
  <2>2. o.kind \notin {"save", "delete"}
    BY <2>1
  <2>3. "record" \in Tasks \ {"none"} /\ "record" # "open"
    BY <1>0
  <2>4. Start(p, "record", o)
    BY <1>6, <2>1, Zenon DEF Record
  <2>. QED BY <1>0, <2>2, <2>3, <2>4, CallWindow, Zenon DEF Start
<1>7. ASSUME NEW task \in Tasks \ {"none"}, task # "open",
             Call(p, Load), form' = [form EXCEPT ![p].task = task], listed' = listed
      PROVE  FormInv'
  BY <1>0, <1>1, <1>7, CallWindow, Zenon
<1>8. CASE Cleared(p)
  BY <1>0, <1>7, <1>8 DEF Cleared
<1>9. CASE Saved(p)
  BY <1>0, <1>7, <1>9 DEF Saved
<1>10. CASE Deleted(p)
  BY <1>0, <1>7, <1>10 DEF Deleted
<1>11. CASE Save(p) \/ Delete(p)
  BY <1>11, SaveWindow
<1>12. CASE Opened(p) \/ ShowSaved(p) \/ ShowDeleted(p)
  BY <1>12, ReloadWindow, Zenon DEF Opened, ShowSaved, ShowDeleted, Succeeded, Returned
<1>13. CASE Close(p)
  BY <1>13, CloseWindow
<1>14. CASE Refreshed(p)
  BY <1>14, RefreshWindow
<1>15. CASE Recorded(p) \/ Fails(p)
  BY <1>15, EndWindow, Zenon DEF Recorded, Fails, Succeeded, Returned
<1>16. CASE \E n \in Names : Select(p, n)
  BY <1>16, SelectWindow
<1>17. CASE \E text \in Texts \cup {Absent} : StartTemplate(p, text)
  BY <1>17, StartWindow
<1>18. CASE \E n \in Names, text \in Texts : Edit(p, n, text)
  BY <1>18, EditWindow
<1>. QED BY <1>3, <1>4, <1>5, <1>6, <1>8, <1>9, <1>10, <1>11, <1>12, <1>13, <1>14, <1>15,
            <1>16, <1>17, <1>18, Zenon DEF Use

\* FormInv is inductive.
LEMMA StepForm == HistoryInv /\ FormInv /\ [Next]_vars => FormInv'
<1> SUFFICES ASSUME HistoryInv, FormInv, [Next]_vars PROVE FormInv'
  OBVIOUS
<1>1. ASSUME UNCHANGED <<form, listed, op, pc>> PROVE FormInv'
  BY <1>1, Zenon DEF FormInv
<1>2. CASE UNCHANGED vars
  BY <1>1, <1>2 DEF vars, storeVars
<1>3. CASE Disturb
  BY <1>1, <1>3 DEF Disturb, Interfere, locals
<1>4. ASSUME NEW p \in Procs, Use(p) \/ Serve(p) \/ Die(p) PROVE FormInv'
  BY <1>4, UseWindow, ServeWindow, CloseWindow
<1>. QED BY <1>2, <1>3, <1>4 DEF Next

\* A window is one more client of the store.
LEMMA StepIsStoreStep == FormInv /\ [Next]_vars => [StoreNext]_storeVars
<1> SUFFICES ASSUME FormInv, [Next]_vars PROVE [StoreNext]_storeVars
  OBVIOUS
<1>1. CASE UNCHANGED vars
  BY <1>1 DEF vars
<1>2. CASE Disturb
  BY <1>2 DEF Disturb, StoreNext
<1>3. ASSUME NEW p \in Procs, Serve(p) \/ Die(p) PROVE StoreNext
  BY <1>3 DEF Serve, Die, StoreNext
<1>4. ASSUME NEW p \in Procs, NEW o \in Library!Operations, Call(p, o) PROVE StoreNext
  BY <1>4 DEF StoreNext
<1>5. ASSUME NEW p \in Procs, Use(p) PROVE UNCHANGED storeVars \/ StoreNext
  <2>1. CASE Open(p) \/ Refresh(p) \/ Cleared(p) \/ Saved(p) \/ Deleted(p)
    BY <1>4, <2>1, LoadIsOperation, Zenon DEF Open, Refresh, Cleared, Saved, Deleted, Start
  <2>2. CASE Clear(p)
    <3>1. [kind |-> "clear"] \in Library!Operations
      BY DEF Library!Operations
    <3>. QED BY <1>4, <2>2, <3>1, Zenon DEF Clear, Start
  <2>3. ASSUME NEW message \in Messages, Record(p, message) PROVE StoreNext
    <3>1. [kind |-> "record", message |-> message] \in Library!Operations
      BY DEF Library!Operations
    <3>. QED BY <1>4, <2>3, <3>1, Zenon DEF Record, Start
  <2>4. PICK g, t, v : g = form[p] /\ t = g.library.templates /\ v = g.reviewed
    OBVIOUS
  <2>5. /\ t \in [DOMAIN t -> Texts] /\ v \in [DOMAIN v -> Texts] /\ DOMAIN t \subseteq Names
        /\ g.selected \in DOMAIN t \cup {Absent}
        /\ g.name \in Names \cup {Absent} /\ g.text \in Texts \cup {Absent}
    BY <2>4, Zenon DEF FormInv, Window, FormOK, Typed
  <2>6. CASE Save(p)
    <3>1. PICK e : e = Library!TextOf(v, g.name)
      OBVIOUS
    <3>2. e \in Texts \cup {Absent, Unchecked}
      BY <2>5, <3>1 DEF Library!TextOf
    <3>3. g.name \in Names /\ g.text \in Texts
      BY <2>4, <2>5, <2>6 DEF Save
    <3>4. [kind |-> "save", name |-> g.name, text |-> g.text, expected |-> e] \in Library!Operations
      BY <3>2, <3>3 DEF Library!Operations
    <3>. QED BY <1>4, <2>4, <2>6, <3>1, <3>4, Zenon DEF Save, Start
  <2>7. CASE Delete(p)
    <3>1. g.selected \in Names /\ t[g.selected] \in Texts
      BY <2>4, <2>5, <2>7 DEF Delete
    <3>2. [kind |-> "delete", name |-> g.selected, expected |-> t[g.selected]] \in Library!Operations
      BY <3>1 DEF Library!Operations
    <3>. QED BY <1>4, <2>4, <2>7, <3>2, Zenon DEF Delete, Start
  <2>8. CASE Opened(p) \/ ShowSaved(p) \/ ShowDeleted(p)
    BY <2>8, Zenon DEF Opened, ShowSaved, ShowDeleted, Reload, storeVars
  <2>9. CASE Close(p) \/ Refreshed(p) \/ Recorded(p) \/ Fails(p)
    BY <2>9 DEF Close, Refreshed, Recorded, Fails
  <2>10. CASE \/ \E n \in Names : Select(p, n)
              \/ \E text \in Texts \cup {Absent} : StartTemplate(p, text)
              \/ \E n \in Names, text \in Texts : Edit(p, n, text)
    BY <2>10 DEF Select, StartTemplate, Edit
  <2>. QED BY <1>5, <2>1, <2>2, <2>3, <2>6, <2>7, <2>8, <2>9, <2>10, Zenon DEF Use
<1>. QED BY <1>1, <1>2, <1>3, <1>4, <1>5 DEF Next

\* No window is open at first.
LEMMA InitForm == Init => HistoryInv /\ FormInv
<1> SUFFICES ASSUME Init PROVE FormInv
  BY InitHistory DEF Init
<1>1. /\ form = [p \in Procs |-> Closed] /\ listed = [p \in Procs |-> {}]
      /\ op = [p \in Procs |-> Load] /\ pc = [p \in Procs |-> "idle"]
  BY Zenon DEF Init, StoreInit
<1>2. ASSUME NEW p \in Procs PROVE Window(form[p], listed[p], op[p], pc[p])
  <2>1. form[p] = Closed /\ listed[p] = {} /\ op[p] = Load /\ pc[p] = "idle"
    BY <1>1
  <2>. QED BY <2>1, ClosedIs, Zenon
<1>3. form = [p \in Procs |-> form[p]] /\ listed = [p \in Procs |-> listed[p]]
  BY <1>1
<1>. QED BY <1>2, <1>3, Zenon DEF FormInv

\* What the windows and the store under them are, at any time.
THEOREM Windows == Spec => [](HistoryInv /\ FormInv)
<1>1. HistoryInv /\ FormInv /\ [Next]_vars => (HistoryInv /\ FormInv)'
  BY StepForm, StepIsStoreStep, StepHistory
<1>. QED BY InitForm, <1>1, PTL DEF Spec
-----------------------------------------------------------------------------
(* What no window loses *)

\* The templates of a library whose templates or messages are replaced.
LEMMA TemplatesAreReplaced ==
  ASSUME NEW lib, LibraryOK(lib), NEW t, NEW lib2
  PROVE  /\ lib2 = [lib EXCEPT !.templates = t] => lib2.templates = t
         /\ lib2 = [lib EXCEPT !.recent = t] => lib2.templates = lib.templates
<1>1. lib = [recent |-> lib.recent, templates |-> lib.templates]
  BY Zenon DEF LibraryOK
<1>2. DOMAIN lib = {"recent", "templates"}
  BY ONLY <1>1
<1>. QED BY ONLY <1>2

\* An operation that changes the text of a template was called for it, and finds
\* the text that it expects.
LEMMA OnlyTheNamed ==
  ASSUME NEW lib, LibraryOK(lib), NEW o \in Library!Operations, ~Library!Refuses(o, lib),
         NEW n \in DOMAIN lib.templates,
         Library!TextOf(Library!After(o, lib).templates, n) # lib.templates[n]
  PROVE  /\ o.kind \in {"save", "delete"}
         /\ o.name = n
         /\ o.expected # Unchecked => o.expected = lib.templates[n]
<1>0. PICK lib2 : lib2 = Library!After(o, lib)
  OBVIOUS
<1>1. PICK t : t = lib2.templates
  OBVIOUS
<1>2. ~(n \in DOMAIN t /\ t[n] = lib.templates[n])
  BY <1>0, <1>1 DEF Library!TextOf
<1>3. ASSUME t = lib.templates PROVE FALSE
  BY <1>2, <1>3
<1>4. CASE o.kind = "load"
  BY <1>0, <1>1, <1>3, <1>4 DEF Library!After
<1>5. CASE o.kind = "clear"
  <2>1. lib2 = [lib EXCEPT !.recent = <<>>]
    BY <1>0, <1>5 DEF Library!After, Library!ClearRecent
  <2>. QED BY <1>1, <1>3, <2>1, TemplatesAreReplaced
<1>6. CASE o.kind = "record"
  <2>1. lib2 = Library!RecordSuccess(lib, o.message)
    BY <1>0, <1>6 DEF Library!After
  <2>2. PICK r : Library!RecordSuccess(lib, o.message) = [lib EXCEPT !.recent = r]
    BY Zenon DEF Library!RecordSuccess
  <2>3. lib2 = [lib EXCEPT !.recent = r]
    BY <2>1, <2>2, Zenon
  <2>. QED BY <1>1, <1>3, <2>3, TemplatesAreReplaced
<1>7. o.kind \in {"save", "delete"} /\ o.expected # Unchecked
        => Library!TextOf(lib.templates, o.name) = o.expected
  BY Zenon DEF Library!Refuses
<1>8. CASE o.kind = "save"
  <2>1. PICK s : s = [m \in DOMAIN lib.templates \cup {o.name} |->
                        IF m = o.name THEN o.text ELSE lib.templates[m]]
    OBVIOUS
  <2>2. lib2 = [lib EXCEPT !.templates = s]
    BY <1>0, <1>8, <2>1 DEF Library!After, Library!SaveTemplate
  <2>3. t = s
    BY <1>1, <2>2, TemplatesAreReplaced
  <2>4. o.name = n
    BY <1>2, <2>1, <2>3
  <2>. QED BY <1>7, <1>8, <2>4 DEF Library!TextOf
<1>9. CASE o.kind = "delete"
  <2>1. PICK s : s = [m \in DOMAIN lib.templates \ {o.name} |-> lib.templates[m]]
    OBVIOUS
  <2>2. lib2 = [lib EXCEPT !.templates = s]
    BY <1>0, <1>9, <2>1 DEF Library!After, Library!DeleteTemplate
  <2>3. t = s
    BY <1>1, <2>2, TemplatesAreReplaced
  <2>4. o.name = n
    BY <1>2, <2>1, <2>3
  <2>. QED BY <1>7, <1>9, <2>4 DEF Library!TextOf
<1>10. o.kind \in {"load", "clear", "record", "save", "delete"}
  BY DEF Library!Operations
<1>. QED BY <1>4, <1>5, <1>6, <1>8, <1>9, <1>10

\* CommitMessageLibraryForm.cs:162-188: what a window overwrites or deletes it has
\* listed, whatever other windows save while its confirmation is open and
\* whatever a refresh brings in behind its editor.
THEOREM OverwriteTheorem == Spec => NoUnseenOverwrite
<1>1. ASSUME HistoryInv, FormInv
      PROVE  \A p \in Procs : Replace(p) =>
               \A n \in DOMAIN file.templates :
                 Library!TextOf(file'.templates, n) # file.templates[n]
                   => <<n, file.templates[n]>> \in listed[p]
  <2> SUFFICES ASSUME NEW p \in Procs, Replace(p), NEW n \in DOMAIN file.templates,
                      Library!TextOf(file'.templates, n) # file.templates[n]
               PROVE  <<n, file.templates[n]>> \in listed[p]
    OBVIOUS
  <2> USE <1>1
  <2>1. PICK o, lib, lib2 : o = op[p] /\ lib = file /\ lib2 = file'
    OBVIOUS
  <2>2. /\ lib # Damaged /\ ~Library!Refuses(o, lib) /\ o \in Library!Operations
        /\ lib2 = Library!After(o, lib)
    BY <2>1 DEF Replace, HistoryInv, StoreInv, CopyIsCurrent, Shape
  <2>3. LibraryOK(lib)
    BY <2>1, <2>2, Zenon DEF HistoryInv, LibrariesOK
  <2>4. n \in DOMAIN lib.templates /\ Library!TextOf(lib2.templates, n) # lib.templates[n]
    BY <2>1 DEF Library!TextOf
  <2>5. /\ o.kind \in {"save", "delete"} /\ o.name = n
        /\ o.expected # Unchecked => o.expected = lib.templates[n]
    <3>1. Library!TextOf(Library!After(o, lib).templates, n) # lib.templates[n]
      BY <2>2, <2>4, Zenon
    <3>2. n \in DOMAIN lib.templates
      BY <2>4
    <3>. QED BY ONLY <2>2, <2>3, <3>1, <3>2, OnlyTheNamed
  <2>6. Expected(o, listed[p])
    BY <2>1, Zenon DEF FormInv, Window
  <2>7. lib.templates[n] # Absent
    <3>1. lib.templates[n] \in Texts
      BY <2>3, <2>4 DEF LibraryOK, TemplatesOK
    <3>. QED BY <3>1, StoreAssumption DEF StoreAssumption
  <2>. QED BY <2>1, <2>5, <2>6, <2>7, Zenon DEF Expected
<1>. QED BY <1>1, Windows, PTL DEF NoUnseenOverwrite

\* CommitMessageLibraryForm.cs:162-168 and 215-219: a handler that is still running,
\* or fails, leaves the editor as it is; so do the other windows.
THEOREM EditorTheorem == Spec => EditorIsKept
<1>1. ASSUME HistoryInv, FormInv, [Next]_vars
      PROVE  \A p \in Procs : form[p].task \notin {"none", "saved", "deleted"} /\ form'[p].open =>
               form'[p].name = form[p].name /\ form'[p].text = form[p].text
  <2> SUFFICES ASSUME NEW p \in Procs, form[p].task \notin {"none", "saved", "deleted"},
                      form'[p].open
               PROVE  form'[p].name = form[p].name /\ form'[p].text = form[p].text
    OBVIOUS
  <2> USE <1>1
  <2>1. PICK g : g = form[p]
    OBVIOUS
  <2>2. DOMAIN g = FormFields /\ form = [q \in Procs |-> form[q]]
    BY <2>1, Zenon DEF FormInv, Window, FormOK
  <2>3. ASSUME NEW q \in Procs, q # p, NEW f, form' = [form EXCEPT ![q] = f]
        PROVE  form'[p] = form[p]
    BY <2>2, <2>3
  <2>4. ASSUME form'[p] = form[p]
        PROVE  form'[p].name = form[p].name /\ form'[p].text = form[p].text
    BY <2>4
  <2>5. ASSUME NEW task, form' = [form EXCEPT ![p].task = task]
        PROVE  form'[p].name = form[p].name /\ form'[p].text = form[p].text
    <3>1. form'[p] = [g EXCEPT !.task = task]
      BY <2>1, <2>2, <2>5
    <3>. QED BY <2>1, <2>2, <3>1 DEF FormFields
  <2>6. ASSUME Reload(p, Absent), g.task = "open"
        PROVE  form'[p].name = form[p].name /\ form'[p].text = form[p].text
    <3>1. g.name = Absent /\ g.text = Absent
      BY <2>1, <2>6, Zenon DEF FormInv, Window, FormOK
    <3>2. PICK t : t = copy[p].templates
      OBVIOUS
    <3>3. Absent \notin DOMAIN t
      BY <3>2, LoadedIsTyped, StoreAssumption DEF Typed, StoreAssumption
    <3>4. PICK f : f = [open |-> TRUE, library |-> copy[p], reviewed |-> t, name |-> Absent,
                        text |-> Absent, selected |-> Absent, task |-> "none"]
      OBVIOUS
    <3>5. form' = [form EXCEPT ![p] = f]
      BY <2>6, <3>2, <3>3, <3>4, Zenon DEF Reload, Library!TextOf
    <3>6. form'[p] = f
      BY <2>2, <3>5
    <3>7. f.name = Absent /\ f.text = Absent
      BY <3>4
    <3>. QED BY <2>1, <3>1, <3>6, <3>7, Zenon
  <2>7. CASE UNCHANGED vars \/ Disturb
    BY <2>4, <2>7 DEF vars, Disturb
  <2>8. ASSUME NEW q \in Procs, Serve(q) PROVE form' = form
    BY <2>8 DEF Serve
  <2>9. ASSUME NEW q \in Procs, Use(q) \/ Die(q)
        PROVE  \E f : form' = [form EXCEPT ![q] = f]
    <3>1. ASSUME NEW task, form' = [form EXCEPT ![q].task = task]
          PROVE  \E f : form' = [form EXCEPT ![q] = f]
      BY <3>1, Zenon
    <3>2. CASE \/ Open(q) \/ Refresh(q) \/ Clear(q) \/ Save(q) \/ Delete(q)
               \/ \E message \in Messages : Record(q, message)
      BY <3>1, <3>2, Zenon DEF Open, Refresh, Clear, Save, Delete, Record, Start
    <3>3. CASE Cleared(q) \/ Saved(q) \/ Deleted(q) \/ Recorded(q) \/ Fails(q)
      BY <3>1, <3>3, Zenon DEF Cleared, Saved, Deleted, Recorded, Fails
    <3>4. CASE Opened(q) \/ ShowSaved(q) \/ ShowDeleted(q)
      BY <3>4, Zenon DEF Opened, ShowSaved, ShowDeleted, Reload
    <3>5. CASE Close(q) \/ Die(q)
      BY <3>5, Zenon DEF Close, Die
    <3>6. CASE Refreshed(q)
      BY <3>6, Zenon DEF Refreshed
    <3>7. ASSUME NEW n \in Names, Select(q, n) PROVE \E f : form' = [form EXCEPT ![q] = f]
      BY <3>7, Zenon DEF Select
    <3>8. ASSUME NEW text \in Texts \cup {Absent}, StartTemplate(q, text)
          PROVE  \E f : form' = [form EXCEPT ![q] = f]
      BY <3>8, Zenon DEF StartTemplate
    <3>9. ASSUME NEW n \in Names, NEW text \in Texts, Edit(q, n, text)
          PROVE  \E f : form' = [form EXCEPT ![q] = f]
      BY <3>9, Zenon DEF Edit
    <3>. QED BY <2>9, <3>2, <3>3, <3>4, <3>5, <3>6, <3>7, <3>8, <3>9, Zenon DEF Use
  <2>10. CASE Use(p)
    <3>1. CASE \/ Open(p) \/ Refresh(p) \/ Clear(p) \/ Save(p) \/ Delete(p)
               \/ \E message \in Messages : Record(p, message)
      BY <2>5, <3>1, Zenon DEF Open, Refresh, Clear, Save, Delete, Record, Start
    <3>2. CASE Cleared(p) \/ Saved(p) \/ Deleted(p) \/ Recorded(p) \/ Fails(p)
      BY <2>5, <3>2, Zenon DEF Cleared, Saved, Deleted, Recorded, Fails
    <3>3. CASE Opened(p)
      BY <2>1, <2>6, <3>3, Zenon DEF Opened, Succeeded, Returned
    <3>4. CASE ShowSaved(p) \/ ShowDeleted(p)
      BY <3>4 DEF ShowSaved, ShowDeleted, Succeeded, Returned
    <3>5. CASE Refreshed(p)
      <4>1. form'[p] = [g EXCEPT !.library = copy[p], !.selected = Absent, !.task = "none"]
        <5>1. form' = [form EXCEPT ![p].library = copy[p], ![p].selected = Absent,
                                   ![p].task = "none"]
          BY <3>5, Zenon DEF Refreshed
        <5>. QED BY <2>1, <2>2, <5>1
      <4>. QED BY <2>1, <2>2, <4>1 DEF FormFields
    <3>6. CASE \/ Close(p)
               \/ \E n \in Names : Select(p, n)
               \/ \E text \in Texts \cup {Absent} : StartTemplate(p, text)
               \/ \E n \in Names, text \in Texts : Edit(p, n, text)
      BY <3>6 DEF Close, Select, StartTemplate, Edit
    <3>. QED BY <2>10, <3>1, <3>2, <3>3, <3>4, <3>5, <3>6, Zenon DEF Use
  <2>11. CASE Die(p)
    <3>1. form' = [form EXCEPT ![p] = Closed]
      BY <2>11, Zenon DEF Die
    <3>2. form'[p] = Closed /\ Closed.open = FALSE
      BY <2>2, <3>1 DEF Closed
    <3>. QED BY <3>2
  <2>12. ASSUME NEW q \in Procs, Use(q) \/ Serve(q) \/ Die(q)
         PROVE  form'[p].name = form[p].name /\ form'[p].text = form[p].text
    <3>1. CASE Serve(q)
      BY <2>4, <2>8, <3>1
    <3>2. CASE q = p
      BY <2>10, <2>11, <2>12, <3>1, <3>2
    <3>3. CASE q # p /\ (Use(q) \/ Die(q))
      BY <2>3, <2>4, <2>9, <3>3
    <3>. QED BY <2>12, <3>1, <3>2, <3>3
  <2>. QED BY <2>7, <2>12 DEF Next
<1>. QED BY <1>1, Windows, PTL DEF Spec, EditorIsKept
=============================================================================
