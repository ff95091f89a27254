\* Liveness on two CPUs, one of them past the arrays: a worker and two hogs.
SPECIFICATION FairSpec
CONSTANTS
  n1 = n1  n2 = n2  h1 = h1  h2 = h2  x1 = x1  x2 = x2
  Tasks = {n1, h1, h2}
  Nginx = {n1}
  Hogs = {h1, h2}
  Execers = {}
  Failing = {}
  NCpu = 2
  NoTask = NoTask
  MaxCpus = 1
  BgMinRun = 0
  TimeMod = 4
  MaxClock = 0
PROPERTIES NormalServed HogServedWhenQuiet
