\* Seven manifests, two of them made from profiles, every choice of the policy, three
\* threads on one CPU.
SPECIFICATION Spec
CONSTANTS
  t1 = t1  t2 = t2  t3 = t3
  Tasks = {t1, t2, t3}
  NCpu = 1
  NoTask = NoTask
  MaxCpus = 2
  BgMinRun = 1
  TimeMod = 4
  MaxClock = 1
  Null = Null
  HostCpus = 2
  Comm <- MCComm
  NewNames <- MCNewNames
  Failing = {t1}
  Written <- MCWritten
  Profiles <- MCProfiles
  ThreadArgs = {Null, 2, 3, 4}
  CpuArgs = {Null, 0, 1, 2}
INVARIANTS CommManifestsRun ProfiledThreadsKept
PROPERTIES RefinesDbAware RefinesRedisAware RefinesNginxAware
