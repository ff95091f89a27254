\* How long a background thread ran before a kick was decided.
SPECIFICATION Spec
CONSTANTS
  f1 = f1  f2 = f2  b1 = b1  b2 = b2
  Tasks = {f1, b1, b2}
  Background = {b1, b2}
  Renamers = {}
  NCpu = 2
  NoTask = NoTask
  MaxCpus = 2
  BgMinRun = 2
  TimeMod = 8
  MaxClock = 2
PROPERTIES KickOnlyAged
