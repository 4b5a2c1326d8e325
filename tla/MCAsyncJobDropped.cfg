SPECIFICATION Spec
CONSTANTS
  j1 = j1  j2 = j2  ui = ui
  Jobs = {j1, j2}
  OwnerOf <- MCOwnerOf
  Uses <- MCUses
  Threads = 2
INVARIANTS DestroyedIsDeletable
CHECK_DEADLOCK FALSE
