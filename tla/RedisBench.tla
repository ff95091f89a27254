------------------------------- MODULE RedisBench -------------------------------
(***************************************************************************)
(* The archived Redis drivers.  RedisBenchmark and MemtierBenchmark start a *)
(* Redis server, run their tests and stop it; RedisBenchmarkTester and      *)
(* MemtierBenchmarkTester, which are copies of each other, do so under one *)
(* scheduler after the other.  Constructing one of the former installs a   *)
(* signal handler that stops the server and leaves by SystemExit.  The     *)
(* scheduler package that starts and stops schedulers is external.         *)
(***************************************************************************)
EXTENDS BenchHost

CONSTANT RedisTests   \* how many tests RedisBenchmark runs; MemtierBenchmark runs one

VARIABLES
  server,   \* the redis-server that this session has started: "none" or "up"
  handle,   \* whether self.redis_process names it
  handler   \* whether _signal_handler is installed

serverVars == <<server, handle, handler>>

Redis == driver \in {"redis_bench_start", "redis_benchmark"}
Memtier == driver \in {"memtier_bench_start", "memtier_benchmark"}
Tester == driver \in {"redis_bench_start", "memtier_bench_start"}

OverSizes(label) == [k \in DOMAIN Sizes |-> Config(label, Sizes[k])]
Orders ==
  [all     |-> <<Config(Default, 1)>> \o [k \in DOMAIN Schedulers |-> Config(Schedulers[k], 1)],
   single  |-> <<Config(Schedulers[1], 1)>>,
   sweep   |-> OverSizes(Default) \o OverSizes(Schedulers[1]),
   suite   |-> <<Config(Default, 1)>>,
   quick   |-> <<Config(Default, 1)>>,
   explore |-> OverSizes(Default)]
Order == Orders[mode]
Target == Order[i]
TestCount == IF Memtier \/ mode \in {"quick", "explore"} THEN 1 ELSE RedisTests

ServerInit == server = "none" /\ handle = FALSE /\ handler = FALSE

-------------------------------------------------------------------------------
(***************************************************************************)
(* Under a scheduler                                                       *)
(***************************************************************************)
\* kill_scheduler_processes, after stop_all_schedulers
kill_scheduler_processes == proc' = Killed(Labels)

StopAllSchedulers ==
  /\ \/ /\ Here("test", "start") /\ Target.label # Default
        /\ kill_scheduler_processes /\ UNCHANGED measuring
     \/ /\ Here("test", "server") /\ Target.label = Default
        /\ measuring' = Target /\ UNCHANGED proc
  /\ UNCHANGED <<serverVars, tests, result>> /\ Held /\ Stored

\* An old process of the same scheduler that cannot be stopped stands in the way.
RunnerStart ==
  /\ \/ Here("start", "record") /\ UNCHANGED proc
     \/ /\ Here("start", "wait")
        /\ proc' = IF Alive(Target.label) THEN proc ELSE Spawned(Target.label)
  /\ UNCHANGED serverVars /\ Held /\ Measured /\ Stored

RunnerPoll ==
  /\ \/ /\ Here("wait", "server") /\ Alive(Target.label)
        /\ held' = Target.label /\ measuring' = Target
     \/ /\ Here("wait", "record")
        /\ ~Alive(Target.label) \/ Target.label \in deaf
        /\ UNCHANGED <<held, measuring>>
  /\ UNCHANGED <<proc, i, serverVars, tests, result>> /\ Stored

\* runner.stop_scheduler after the benchmark; its exceptions are swallowed.
RunnerStop ==
  /\ Here("unload", "record")
  /\ \E S \in {{}, {held}} : proc' = Killed(S \ {Null})
  /\ held' = Null
  /\ UNCHANGED <<i, serverVars>> /\ Measured /\ Stored

-------------------------------------------------------------------------------
(***************************************************************************)
(* The server and its tests                                                *)
(***************************************************************************)
\* __init__ installs the handler; start_redis first stops every server and then writes
\* the configuration, which may fail.
Construct ==
  /\ Here("server", "popen") \/ Here("server", "cleanup")
  /\ handler' = TRUE /\ server' = "none"
  /\ UNCHANGED <<proc, handle>> /\ Held /\ Measured /\ Stored

\* Popen has made the process before redis_process is assigned.
Popen ==
  /\ \/ Here("popen", "remember") /\ server' = "up"
     \/ Here("popen", "cleanup") /\ UNCHANGED server
  /\ UNCHANGED <<proc, handle, handler>> /\ Held /\ Measured /\ Stored

Remember ==
  /\ Here("remember", "ping") /\ handle' = TRUE
  /\ UNCHANGED <<proc, server, handler>> /\ Held /\ Measured /\ Stored

\* Ten pings; a server that answers none is killed by RedisBenchmark only.
Ping ==
  /\ \/ Here("ping", "tests") /\ UNCHANGED server
     \/ Here("ping", "cleanup") /\ server' = IF Redis THEN "none" ELSE server
  /\ UNCHANGED <<proc, handle, handler>> /\ Held /\ Measured /\ Stored

\* run_benchmark: what the tool has printed, or that it timed out.
run_benchmark ==
  /\ Here("tests", "tests") /\ Len(tests) < TestCount
  /\ \E out \in Outputs \cup {TimedOut} : tests' = Append(tests, out)
  /\ UNCHANGED <<proc, serverVars, measuring, result>> /\ Held /\ Stored

\* stop_redis in the finally clause of run_comprehensive_benchmark
stop_redis ==
  /\ Here("tests", "cleanup") /\ Len(tests) = TestCount
  /\ server' = "none" /\ handle' = FALSE
  /\ UNCHANGED <<proc, handler>> /\ Held /\ Measured /\ Stored

\* The testers call cleanup themselves; of the others atexit takes care.
cleanup ==
  /\ Here("cleanup", IF held # Null THEN "unload" ELSE "record")
  /\ \/ Tester /\ server' = (IF handle THEN "none" ELSE server) /\ handle' = FALSE
     \/ ~Tester /\ UNCHANGED <<server, handle>>
  /\ UNCHANGED <<proc, handler>> /\ Held /\ Measured /\ Stored

-------------------------------------------------------------------------------
(***************************************************************************)
(* Results                                                                 *)
(***************************************************************************)
Extracted == IF Memtier THEN ExtractedMemtier(tests) ELSE ExtractedRedis(tests)
Outcome ==
  IF tests = <<>> \/ (mode \in {"quick", "explore"} /\ tests[1].rc # 0) THEN "failed"
  ELSE IF Extracted = {} THEN "empty" ELSE "ok"

To(next) ==
  IF next <= Len(Order) THEN "test" ELSE IF mode = "sweep" THEN "csv" ELSE "finish"

\* The result of a configuration becomes known; get_available_schedulers may raise.
RecordResult ==
  /\ pc = "record"
  /\ records' = [records EXCEPT ![Target] = Outcome]
  /\ \/ /\ i' = i + 1
        /\ Here("record", IF \/ mode = "all" /\ Target.label # Default
                             \/ mode = "suite" /\ Outcome # "failed"
                          THEN "save" ELSE To(i'))
     \/ mode = "all" /\ i = 1 /\ i' = Len(Order) + 1 /\ Here("record", "finish")
  /\ measuring' = Null /\ tests' = <<>>
  /\ UNCHANGED <<proc, held, serverVars, result, file, verdict>>

\* Mutant: what was saved is what had been there before.
save_resultsBefore ==
  /\ \/ pc = "save" /\ file' = Cut /\ Here("save", "write")
     \/ pc = "save" /\ UNCHANGED file /\ Here("save", To(i))
     \/ pc = "write" /\ UNCHANGED file /\ Here("write", To(i))
     \/ pc = "write" /\ Here("write", To(i))
        /\ file' = [records EXCEPT ![Order[i - 1]] = Null]
  /\ UNCHANGED <<proc, serverVars, records, verdict>> /\ Held /\ Measured

\* save_results: opening the file empties it; failures are printed and forgotten.
save_results ==
  /\ \/ pc = "save" /\ file' = Cut /\ Here("save", "write")
     \/ pc = "save" /\ UNCHANGED file /\ Here("save", To(i))
     \/ pc = "write" /\ UNCHANGED file /\ Here("write", To(i))
     \/ pc = "write" /\ file' = records /\ Here("write", To(i))
  /\ UNCHANGED <<proc, serverVars, records, verdict>> /\ Held /\ Measured

\* main's except clause of a sweep: sys.exit(1), past the final clean-up; atexit stops a
\* server that is still there.
Abandon(from) ==
  /\ Here(from, "aborted")
  /\ server' = (IF handle THEN "none" ELSE server) /\ handle' = FALSE
  /\ UNCHANGED handler

\* The end of a sweep, which is saved only now, if it has any row, and then plotted.
\* get_available_schedulers, to_csv and the plot may raise; to_csv first opens the file.
SweepEnds ==
  /\ mode = "sweep"
  /\ \/ i = 1 /\ Abandon("test") /\ UNCHANGED file
     \/ IF \E c \in Configs : records[c] \in {"ok", "failed"}
        THEN \/ Here("csv", "rows") /\ file' = Cut /\ UNCHANGED serverVars
             \/ Abandon("csv") /\ UNCHANGED file
        ELSE Here("csv", "finish") /\ UNCHANGED <<file, serverVars>>
     \/ Here("rows", "plot") /\ file' = records /\ UNCHANGED serverVars
     \/ Abandon("rows") /\ UNCHANGED file
     \/ Here("plot", "finish") /\ UNCHANGED <<file, serverVars>>
     \/ Abandon("plot") /\ UNCHANGED file
  /\ UNCHANGED <<proc, records, verdict>> /\ Held /\ Measured

\* The end of main: the testers kill what is left of servers and schedulers, and atexit
\* stops the server of the others.
Finish ==
  /\ Here("finish", "done")
  /\ proc' = IF Tester THEN Killed(Labels) ELSE proc
  /\ server' = IF Tester \/ handle THEN "none" ELSE server
  /\ handle' = FALSE
  /\ UNCHANGED handler /\ Held /\ Measured /\ Stored

\* Mutant: the handler only leaves.
_signal_handlerExit(signal) ==
  /\ handler
  /\ UNCHANGED <<proc, server, handle>>

\* cleanup and SystemExit, which no except clause above catches.
_signal_handler(signal) ==
  /\ handler
  /\ server' = (IF handle THEN "none" ELSE server) /\ handle' = FALSE
  /\ UNCHANGED proc

\* Before there is a handler: KeyboardInterrupt, or the default action of SIGTERM.
Unhandled(signal) ==
  /\ ~handler
  /\ proc' = IF Tester /\ signal = "INT" THEN Killed(Labels) ELSE proc
  /\ UNCHANGED <<server, handle>>

InterruptServer(signal) ==
  /\ Redis \/ Memtier
  /\ pc \notin Ended
  /\ _signal_handler(signal) \/ Unhandled(signal)
  /\ pc' = "interrupted" /\ at' = <<pc, signal>> /\ measuring' = Null
  /\ UNCHANGED <<deaf, driver, mode, handler, tests, result>> /\ Held /\ Stored

RunStep == StopAllSchedulers \/ RunnerStart \/ RunnerPoll \/ RunnerStop \/ RecordResult
SuiteStep == Construct \/ Popen \/ Remember \/ Ping \/ run_benchmark \/ stop_redis \/ cleanup

run_redis_benchmark == Redis /\ RunStep
run_memtier_benchmark == Memtier /\ RunStep
RedisBenchmark == Redis /\ SuiteStep
MemtierBenchmark == Memtier /\ SuiteStep

RedisBenchStep ==
  \/ run_redis_benchmark \/ run_memtier_benchmark
  \/ RedisBenchmark \/ MemtierBenchmark
  \/ (Redis \/ Memtier) /\ (save_results \/ SweepEnds \/ Finish)

===============================================================================
