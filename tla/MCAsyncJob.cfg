SPECIFICATION FairSpec
CONSTANTS
  j1 = j1  j2 = j2  ui = ui
  Jobs = {j1, j2}
  OwnerOf <- MCOwnerOf
  Uses <- MCUses
  Threads = 2
INVARIANTS TypeOK ExecutedOnce NothingEndsEarly
PROPERTIES ResultIsComplete CallsEnd
CHECK_DEADLOCK FALSE
