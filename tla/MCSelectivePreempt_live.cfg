\* One CPU, two foreground threads, one of which takes a background name while it runs,
\* and one background thread, kicked when old enough: liveness.
SPECIFICATION FairSpec
CONSTANTS
  f1 = f1  f2 = f2  b1 = b1  b2 = b2
  Tasks = {f1, f2, b1}
  Background = {b1}
  Renamers = {f2}
  NCpu = 1
  NoTask = NoTask
  MaxCpus = 1
  BgMinRun = 1
  TimeMod = 4
  MaxClock = 1
PROPERTIES ForegroundServed BackgroundServedWhenQuiet
