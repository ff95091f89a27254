\* Every program of the repository that runs benchmarks, under every outcome of the
\* tools, the schedulers and the signals.
SPECIFICATION FairSpec
CONSTANTS
  Null = Null
  Cut = Cut
  Default = "default"
  Other = "other"
  Schedulers <- MCSchedulers
  Sizes <- MCSizes
  TotalsColumns = 9
  KindColumns = 9
  ArchiveTests = 2
  RedisTests = 1
  NumRuns = 2
  MaxRuns = 3
INVARIANTS
  SchedulerStopped ServerStopped ProgressSaved AnalysisShowsMeasured RunsAccountedFor
PROPERTIES
  ResultsKeepPromise SessionEnds
