\* Two CPUs, one of them past the arrays, a worker and two threads that exec stress-ng,
\* one of which may be refused task storage: safety.
SPECIFICATION Spec
CONSTANTS
  n1 = n1  n2 = n2  h1 = h1  h2 = h2  x1 = x1  x2 = x2
  Tasks = {n1, x1, x2}
  Nginx = {n1}
  Hogs = {}
  Execers = {x1, x2}
  Failing = {x2}
  NCpu = 2
  NoTask = NoTask
  MaxCpus = 1
  BgMinRun = 1
  TimeMod = 4
  MaxClock = 1
INVARIANTS FlagMatchesClass
PROPERTIES AnyPolicy
