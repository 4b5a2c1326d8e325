SPECIFICATION StoreSpec
CONSTANTS
  a = a  b = b  m1 = m1  m2 = m2  m3 = m3  n1 = n1  n2 = n2  t1 = t1
  Procs = {a, b}
  Messages = {m1, m2, m3}
  Names = {n1, n2}
  Texts = {t1}
  Absent = Absent
  Unchecked = Unchecked
  Damaged = Damaged
  Nobody = Nobody
  MaxRecent = 2
  MaxTemplates = 1
  MaxRecords = 3
  Interference = TRUE
INVARIANTS StoreTypeOK RecentIsNewest OwnFilesAreReadable MutexIsInUse
PROPERTIES CallsAreAtomic
CHECK_DEADLOCK FALSE
