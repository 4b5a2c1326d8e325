SPECIFICATION Spec
CONSTANTS
  a = a  b = b  m1 = m1  n1 = n1  n2 = n2  t1 = t1  t2 = t2
  Procs = {a, b}
  Messages = {m1}
  Names = {n1, n2}
  Texts = {t1, t2}
  Absent = Absent
  Unchecked = Unchecked
  Damaged = Damaged
  Nobody = Nobody
  MaxRecent = 1
  MaxTemplates = 1
  MaxRecords = 1
  MaxWrites = 3
  Interference = TRUE
SYMMETRY FullSymmetry
PROPERTIES NoUnseenOverwrite EditorIsKept
CHECK_DEADLOCK FALSE
