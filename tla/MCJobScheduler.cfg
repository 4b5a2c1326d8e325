SPECIFICATION FairSpec
CONSTANTS
  own = own  default = default  caller = caller
  Schedulers = {own, default}
  Threads = {1, 2}
  Callers = {caller}
  ThreadCount <- MCThreadCount
  SharedThreads <- MCSharedThreads
  MaxCount = 1
  Watermarks = {0}
  MaxJobs = 5
  MaxStops = 1
  None = None
INVARIANTS TypeOK NoThreadIsLost DestroyedIsForgotten SomebodyWorks
PROPERTIES QueuesDrain
CHECK_DEADLOCK FALSE
