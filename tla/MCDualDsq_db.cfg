\* A query thread and two compaction threads on two CPUs: safety and liveness.
SPECIFICATION FairSpec
CONSTANTS
  q1 = q1  k1 = k1  k2 = k2
  Tasks = {q1, k1, k2}
  Queries = {q1}
  NCpu = 2
  NoTask = NoTask
INVARIANTS CoreInv
PROPERTIES AnyPolicy QueryServed CompactServedWhenQuiet
