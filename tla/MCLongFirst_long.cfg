\* One CPU, a process with two threads and another process, room for one entry:
\* safety and liveness.
SPECIFICATION FairSpec
CONSTANTS
  m1 = m1  w1 = w1  m2 = m2
  Tasks = {m1, w1, m2}
  Leader <- MCLeader
  NCpu = 1
  NoTask = NoTask
  MaxEntries = 1
INVARIANTS TypeOK 
PROPERTIES AnyPolicy LongServed
