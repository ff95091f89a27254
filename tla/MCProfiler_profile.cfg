\* Two processes on one CPU, profiled by pid and by comm: what the map says of them, and
\* what is concluded from an entry that changes while it is copied.
SPECIFICATION FairSpec
CONSTANTS
  t1 = t1  t2 = t2
  Threads = {t1, t2}
  Cpus = {0}
  Callers = {t1}
  Swapper = Swapper
  Proc <- MCProc
  Name <- MCName
  Pids = {0, 1, 2}
  Matching = {"one"}
  MaxEntries = 2
  NetHigh = 1
  NetLow = 0
  DiskLow = 0
  EventBurst = 1
  BatchBurst = 0
  CompactBurst = 1
  MaxClock = 4
  MaxCalls = 1
  MaxWakeups = 1
INVARIANTS TypeOK RunIsExact SleepIsEnough CallsAreCounted
PROPERTIES NoInteractiveDemoted 
CONSTRAINT ReadsOne
