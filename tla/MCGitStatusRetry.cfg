SPECIFICATION FairSpec
CONSTANTS
  root = root  sub = sub  None = None
  Root = root
  Subfolders = {sub}
  MaxChanges = 0
  MaxLocks = 0
  MaxFaults = 1
  MaxAsks = 1
PROPERTIES FailedIsRepeated
CHECK_DEADLOCK FALSE
