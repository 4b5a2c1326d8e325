SPECIFICATION FairSpec
CONSTANTS
  root = root  sub = sub  None = None
  Root = root
  Subfolders = {sub}
  MaxChanges = 1
  MaxLocks = 1
  MaxFaults = 1
  MaxAsks = 1
INVARIANTS TypeOK WakeIsNotLost SettledIsCurrent
PROPERTIES Settles
CHECK_DEADLOCK FALSE
