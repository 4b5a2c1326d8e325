SPECIFICATION FairSpec
CONSTANTS
  host = host  c = c  r1 = r1  r2 = r2
  Roots = {r1, r2}
  Watchable = {r1}
  Host = host
  Clis = {c}
  None = None
  FragmentLife = 1
  ReaderLife = 2
  MaxChanges = 1
  MaxRefreshes = 1
  MaxFaults = 1
INVARIANTS TypeOK StaleIsNoticed AgesAreKept
PROPERTIES EndsUpCurrent
