------------------------------- MODULE MCProfiler -------------------------------
(***************************************************************************)
(* TLC instance of Profiler: thread t1 of process 1 and t2 of process 2.   *)
(***************************************************************************)
EXTENDS Profiler, TLC

CONSTANTS t1, t2

MCProc == [t \in Threads |-> IF t = t1 THEN 1 ELSE 2]
MCName == [t \in Threads |-> IF t = t1 THEN "one" ELSE "two"]

\* Reading is followed only where --pid is that of t1, t1 alone has an entry and t2 is off
\* the CPU, so that what is copied is an entry that changes meanwhile.
ReadsOne ==
  phase = "reading" => pid = 1 /\ Tracked \subseteq {t1} /\ \A c \in Cpus : cur[c] # t2

===============================================================================
