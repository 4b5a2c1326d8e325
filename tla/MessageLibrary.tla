---------------------------- MODULE MessageLibrary ----------------------------
(***************************************************************************)
(* What the commit message library of a repository promises: it changes    *)
(* by one whole operation at a time.  The operators are the bodies that    *)
(* Core/CommitMessageStore.cs runs under its mutex; the specification is   *)
(* the atomic object that CommitMessageStore.tla is shown to implement.    *)
(*                                                                         *)
(* A template list never holds a name twice, so it is a function; messages *)
(* and texts are values that pass ValidateText, and writing the library as *)
(* XML and reading it back gives the same library.                         *)
(***************************************************************************)
EXTENDS Naturals, Sequences, FiniteSets

CONSTANTS
  Messages,      \* commit messages
  Names,         \* template names
  Texts,         \* template texts
  Absent,        \* no template
  Unchecked,     \* no expectation of a template
  Damaged,       \* a file that Read refuses
  MaxRecent,     \* messages a library keeps
  MaxTemplates   \* templates a library keeps

VARIABLE library

Empty == [recent |-> <<>>, templates |-> <<>>]

Operations ==
  [kind : {"load", "clear"}]
    \cup [kind : {"record"}, message : Messages]
    \cup [kind : {"save"}, name : Names, text : Texts,
          expected : Texts \cup {Absent, Unchecked}]
    \cup [kind : {"delete"}, name : Names, expected : Texts \cup {Unchecked}]

TextOf(templates, n) == IF n \in DOMAIN templates THEN templates[n] ELSE Absent

\* Variant: only a checked save meets the limit.
RefusesChecked(op, lib) ==
  /\ op.kind \in {"save", "delete"}
  /\ op.expected # Unchecked
  /\ \/ TextOf(lib.templates, op.name) # op.expected
     \/ /\ op.kind = "save"
        /\ op.name \notin DOMAIN lib.templates
        /\ Cardinality(DOMAIN lib.templates) >= MaxTemplates

\* The exceptions that the change throws when it sees the library.
Refuses(op, lib) ==
  \/ /\ op.kind \in {"save", "delete"}
     /\ op.expected # Unchecked
     /\ TextOf(lib.templates, op.name) # op.expected
  \/ /\ op.kind = "save"
     /\ op.name \notin DOMAIN lib.templates
     /\ Cardinality(DOMAIN lib.templates) >= MaxTemplates

\* Variant: the same message is kept again.
RecordAgain(lib, message) ==
  LET all == <<message>> \o lib.recent
  IN  [lib EXCEPT !.recent = IF Len(all) > MaxRecent THEN SubSeq(all, 1, MaxRecent)
                                                     ELSE all]

\* A library holds no message twice: Read refuses one that does, and a message
\* that is recorded again leaves its old place.
RecordSuccess(lib, message) ==
  LET old == lib.recent
      others == IF \E i \in DOMAIN old : old[i] = message
                THEN LET at == CHOOSE i \in DOMAIN old : old[i] = message
                     IN  SubSeq(old, 1, at - 1) \o SubSeq(old, at + 1, Len(old))
                ELSE old
      all == <<message>> \o others
  IN  [lib EXCEPT !.recent = IF Len(all) > MaxRecent THEN SubSeq(all, 1, MaxRecent)
                                                     ELSE all]

SaveTemplate(lib, n, text) ==
  [lib EXCEPT !.templates =
     [m \in DOMAIN lib.templates \cup {n} |-> IF m = n THEN text ELSE lib.templates[m]]]

\* Variant: the text goes, the name stays.
DeleteText(lib, n) ==
  [lib EXCEPT !.templates =
     [m \in DOMAIN lib.templates |-> IF m = n THEN Absent ELSE lib.templates[m]]]

DeleteTemplate(lib, n) ==
  [lib EXCEPT !.templates = [m \in DOMAIN lib.templates \ {n} |-> lib.templates[m]]]

ClearRecent(lib) == [lib EXCEPT !.recent = <<>>]

\* The library that an operation leaves when it is not refused.
After(op, lib) ==
  CASE op.kind = "load" -> lib
    [] op.kind = "clear" -> ClearRecent(lib)
    [] op.kind = "record" -> RecordSuccess(lib, op.message)
    [] op.kind = "save" -> SaveTemplate(lib, op.name, op.text)
    [] op.kind = "delete" -> DeleteTemplate(lib, op.name)

\* One whole operation; no operation touches a file it cannot read.
Operate(op) ==
  /\ library # Damaged
  /\ ~Refuses(op, library)
  /\ library' = After(op, library)

\* Other programs: the file is damaged, or somebody deletes it.
Interfere == library' \in {Damaged, Empty}

Next == (\E op \in Operations : Operate(op)) \/ Interfere

LibrarySpec == library = Empty /\ [][Next]_library
=============================================================================
