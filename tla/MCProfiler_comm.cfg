\* Two processes on one CPU: whose name a thread is reported under.
SPECIFICATION Spec
CONSTANTS
  t1 = t1  t2 = t2
  Threads = {t1, t2}
  Cpus = {0}
  Callers = {t1}
  Swapper = Swapper
  Proc <- MCProc
  Name <- MCName
  Pids = {0, 1}
  Matching = {"one"}
  MaxEntries = 2
  NetHigh = 1
  NetLow = 0
  DiskLow = 0
  EventBurst = 1
  BatchBurst = 0
  CompactBurst = 1
  MaxClock = 4
  MaxCalls = 1
  MaxWakeups = 1
INVARIANTS OwnName
