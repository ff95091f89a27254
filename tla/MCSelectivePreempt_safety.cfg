\* Two CPUs, two threads that may take a background name as they run, and one that
\* bears it from the start: safety.
SPECIFICATION Spec
CONSTANTS
  f1 = f1  f2 = f2  b1 = b1  b2 = b2
  Tasks = {f1, f2, b1}
  Background = {b1}
  Renamers = {f1, f2}
  NCpu = 2
  NoTask = NoTask
  MaxCpus = 2
  BgMinRun = 0
  TimeMod = 4
  MaxClock = 0
SYMMETRY Symmetry
INVARIANTS TypeOK OnePlace NoStall FlagTrusted
PROPERTIES AnyPolicy
