SPECIFICATION FairSpec
CONSTANTS
  a = a  b = b  f1 = f1  f2 = f2  e1 = e1  r1 = r1
  Clients = {a, b}
  Files = {f1, f2}
  Edits = {e1}
  Results = {r1}
  Torn = Torn
  None = None
  MaxRevision = 2
  MaxFaults = 2
INVARIANTS TypeOK LoadedIsSaved GuardedCheckinReviewed InterruptionIsRecoverable ResolvedIsOnIncoming EditsSurvive
PROPERTIES UndoDetaches
CHECK_DEADLOCK FALSE
