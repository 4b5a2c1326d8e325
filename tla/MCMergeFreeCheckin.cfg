SPECIFICATION Spec
CONSTANTS
  a = a  b = b  f1 = f1  f2 = f2  s1 = s1  s2 = s2  i1 = i1
  Clients = {a, b}
  Files = {f1}
  Sources = {s1, s2}
  Items = {i1}
  FileConflicts <- MCFileConflicts
  DirConflicts <- MCDirConflicts
  Results = {"r"}
  Edits = {"e"}
  Original = "o"
  NoMerge = NoMerge
  RollbackMark = RollbackMark
  NoSession = NoSession
  Torn = Torn
  None = None
  MaxChangesets = 2
  MaxFaults = 0
SYMMETRY ClientSymmetry
INVARIANT FreeCheckinWhole
CHECK_DEADLOCK FALSE
