------------------------------- MODULE SchedBench -------------------------------
(***************************************************************************)
(* rocksdb_sched_bench.py and db_sim_bench.py: each configuration in turn  *)
(* is tested under its scheduler, which is stopped in a finally clause;    *)
(* all results are saved at the end.  Their run_test is the actions from   *)
(* Populate to Store.  The archived rocksdb_benchmark.py starts no         *)
(* scheduler: it runs its tests and saves their results.  None of the      *)
(* three catches an exception while it saves or shows them.                *)
(***************************************************************************)
EXTENDS BenchHost

CONSTANT ArchiveTests   \* how many tests the archived benchmark has

AB == driver \in {"rocksdb_sched_bench", "db_sim_bench"}
ABOrder ==
  <<Config(Default, 1)>> \o
    IF driver = "rocksdb_sched_bench"
      THEN [k \in DOMAIN Schedulers |-> Config(Schedulers[k], 1)]
      ELSE <<Config(Schedulers[1], 1)>>
This == ABOrder[i]

\* cleanup_db and populate_db: on a failure run_test returns None; a timeout is an
\* exception that nobody catches.
Populate ==
  /\ AB /\ UNCHANGED <<proc, file, verdict, records, measuring, tests>> /\ Held
  /\ \/ Here("test", "start") /\ UNCHANGED result
     \/ driver = "rocksdb_sched_bench" /\ Here("test", "store") /\ result' = "failed"
     \/ driver = "rocksdb_sched_bench" /\ Here("test", "aborted") /\ UNCHANGED result

\* start_custom_scheduler and start_builtin_scheduler up to the wait of three seconds.
StartScheduler ==
  /\ AB /\ UNCHANGED tests /\ Held /\ Stored
  /\ \/ /\ Here("start", "run") /\ This.label = Default
        /\ measuring' = This /\ UNCHANGED <<proc, result>>
     \/ /\ Here("start", "store") /\ This.label # Default  \* a file is missing
        /\ result' = "failed" /\ UNCHANGED <<proc, measuring>>
     \/ /\ Here("start", "wait") /\ This.label # Default
        /\ proc' = Spawned(This.label) /\ UNCHANGED <<measuring, result>>

\* Mutant: the process is not looked at after the wait.
PollNot ==
  /\ AB /\ UNCHANGED <<proc, i, tests, result>> /\ Stored
  /\ Here("wait", "run") /\ held' = This.label /\ measuring' = This

Poll ==
  /\ AB /\ UNCHANGED <<proc, i, tests>> /\ Stored
  /\ \/ /\ Here("wait", "run") /\ Alive(This.label)
        /\ held' = This.label /\ measuring' = This /\ UNCHANGED result
     \/ /\ Here("wait", "store") /\ ~Alive(This.label)
        /\ result' = "failed" /\ UNCHANGED <<held, measuring>>

\* run_readwhilewriting and run_db_sim, and what is made of the output: db_sim has to
\* succeed, db_bench has not.
Run ==
  /\ AB /\ Here("run", "stop")
  /\ \E out \in Outputs \cup {TimedOut} :
       result' = IF driver = "rocksdb_sched_bench" THEN parse_db_bench_output(out)
                 ELSE IF TestMetrics(out) THEN "ok" ELSE "failed"
  /\ UNCHANGED <<proc, measuring, tests>> /\ Held /\ Stored

\* Mutant: the scheduler is stopped only after a result.
StopSchedulerOnResult ==
  /\ AB /\ Here("stop", "store")
  /\ proc' = IF result = "ok" THEN Killed({held} \ {Null}) ELSE proc
  /\ held' = Null
  /\ UNCHANGED <<i>> /\ Measured /\ Stored

\* stop_scheduler: SIGTERM, then SIGKILL, then it does not matter.
StopScheduler ==
  /\ AB /\ Here("stop", "store")
  /\ proc' = Killed({held} \ {Null})
  /\ held' = Null
  /\ UNCHANGED <<i>> /\ Measured /\ Stored

\* Mutant: main stays with a configuration that has failed.
StoreRetry ==
  /\ AB /\ pc = "store"
  /\ records' = [records EXCEPT ![This] = result]
  /\ i' = IF result = "failed" THEN i ELSE i + 1
  /\ Here("store", IF i' > Len(ABOrder) THEN "save" ELSE "test")
  /\ measuring' = Null /\ result' = Null
  /\ UNCHANGED <<proc, held, tests, file, verdict>>

\* all_results[label] = result, and on to the next configuration.
Store ==
  /\ AB /\ pc = "store"
  /\ records' = [records EXCEPT ![This] = result]
  /\ i' = i + 1
  /\ Here("store", IF i < Len(ABOrder) THEN "test" ELSE "save")
  /\ measuring' = Null /\ result' = Null
  /\ UNCHANGED <<proc, held, tests, file, verdict>>

-------------------------------------------------------------------------------
(***************************************************************************)
(* archive/rocksdb_benchmark.py                                            *)
(***************************************************************************)
Archive == driver = "rocksdb_benchmark"

\* run_comprehensive_benchmark and run_db_bench: no timeout, and no exception caught.
run_db_bench ==
  /\ Archive /\ pc \in {"test", "tests"}
  /\ Len(tests) < ArchiveTests
  /\ \E out \in Outputs : tests' = Append(tests, out)
  /\ measuring' = Config(Default, 1)
  /\ Here(pc, "tests")
  /\ UNCHANGED <<proc, result>> /\ Held /\ Stored

\* The results that run_comprehensive_benchmark returns.
ReturnTests ==
  /\ Archive /\ Len(tests) = ArchiveTests
  /\ Here("tests", "save")
  /\ records' = [records EXCEPT ![Config(Default, 1)] =
                   IF \E k \in DOMAIN tests : TestMetrics(tests[k]) THEN "ok" ELSE "empty"]
  /\ measuring' = Null
  /\ UNCHANGED <<proc, tests, result, file, verdict>> /\ Held

-------------------------------------------------------------------------------
(***************************************************************************)
(* The end of all three: the json file, with None for what has failed, and *)
(* then the table and the chart, or the summary.                           *)
(***************************************************************************)
\* open(json_path, "w") empties the file that an earlier session has left, or fails; that of
\* the archived benchmark has the time in its name and is new.
OpenResults ==
  /\ AB \/ Archive
  /\ \/ Here("save", "write") /\ file' = Cut
     \/ Here("save", "aborted") /\ UNCHANGED file
  /\ UNCHANGED <<proc, records, verdict>> /\ Held /\ Measured

\* json.dump and the close, which may fail half-way.
WriteResults ==
  /\ AB \/ Archive
  /\ \/ Here("write", "chart") /\ file' = records
     \/ Here("write", "aborted") /\ UNCHANGED file
  /\ UNCHANGED <<proc, records, verdict>> /\ Held /\ Measured

Show ==
  /\ AB \/ Archive
  /\ Here("chart", "done") \/ Here("chart", "aborted")
  /\ UNCHANGED proc /\ Held /\ Measured /\ Stored

\* Ctrl-C: the finally clause stops a scheduler that start_fn has returned, unless the
\* interrupt meets it there; SIGTERM ends the program at once.
InterruptAB(signal) ==
  /\ AB \/ Archive
  /\ pc \notin Ended
  /\ \/ signal = "INT" /\ held # Null /\ proc' = Killed({held})
     \/ (signal = "TERM" \/ held = Null \/ pc = "stop") /\ UNCHANGED proc
  /\ pc' = "interrupted" /\ at' = <<pc, signal>> /\ measuring' = Null
  /\ UNCHANGED <<deaf, driver, mode, tests, result>> /\ Held /\ Stored

SchedBenchStep ==
  \/ Populate \/ StartScheduler \/ Poll \/ Run \/ StopScheduler \/ Store
  \/ run_db_bench \/ ReturnTests
  \/ OpenResults \/ WriteResults \/ Show

===============================================================================
