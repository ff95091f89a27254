---------------------------------- MODULE Bench ----------------------------------
(***************************************************************************)
(* The benchmark sessions of the repository, one program at a time, on the *)
(* machine of BenchHost, and stage 4, which reads what they have left.     *)
(***************************************************************************)
EXTENDS SchedBench, RedisBench, CompareScripts

VARIABLES   \* history of this session:
  failed,   \* whether save_results has ever failed
  stuck     \* whether stop_scheduler has ever left a scheduler running
historyVars == <<failed, stuck>>
vars == <<hostVars, serverVars, filesVars, historyVars>>

Modes ==
  { <<"rocksdb_sched_bench", "ab">>, <<"db_sim_bench", "ab">>, <<"rocksdb_benchmark", "suite">>,
    <<"bench_compare", "ab">>, <<"redis_bench_compare", "ab">>, <<"nginx_bench_compare", "ab">>,
    <<"redis_benchmark", "suite">>, <<"redis_benchmark", "quick">>,
    <<"redis_benchmark", "explore">>, <<"memtier_benchmark", "suite">> }
  \cup ({"redis_bench_start", "memtier_bench_start"} \X {"all", "single", "sweep"})

TypeOK ==
  /\ HostTypeOK
  /\ <<driver, mode>> \in Modes
  /\ server \in {"none", "up"} /\ handle \in BOOLEAN /\ handler \in BOOLEAN
  /\ left \subseteq 1 .. NumRuns /\ ran \subseteq {"cfs", "custom"} \X (1 .. NumRuns)

Init ==
  /\ \E program \in Modes : driver = program[1] /\ mode = program[2]
  /\ HostInit /\ ServerInit /\ FilesInit
  /\ Compare => deaf \subseteq {Other}   \* sudo kill, and loaders of the same user
  /\ failed = FALSE /\ stuck = FALSE

\* stage4_validate.py --workload, after the session
Validate ==
  /\ pc \in Ended /\ verdict = "none"
  /\ \/ driver = "db_sim_bench"
        /\ verdict' \in parse_db_sim(file, Config(Default, 1), Config(Schedulers[1], 1))
     \/ driver = "bench_compare" /\ verdict' = parse_rocksdb(files)
     \/ driver = "redis_bench_compare" /\ verdict' = parse_redis(files)
     \/ driver = "nginx_bench_compare" /\ verdict' = parse_nginx(files)
  /\ UNCHANGED <<procVars, driver, mode, pc, i, held, measuring, tests, result, records, file,
                 at, serverVars, filesVars, historyVars>>

Remembered ==
  /\ failed' = (failed \/ (pc = "save" /\ pc' # "write") \/ (pc = "write" /\ file' = Cut))
  /\ stuck' = (stuck \/ (pc = "unload" /\ held # Null /\ proc'[held] # "none"))

Driver ==
  \/ SchedBenchStep /\ UNCHANGED <<serverVars, filesVars, historyVars>>
  \/ RedisBenchStep /\ Remembered /\ UNCHANGED filesVars
  \/ CompareStep /\ UNCHANGED <<serverVars, historyVars>>

Interrupt ==
  \E signal \in {"INT", "TERM"} :
    \/ InterruptAB(signal) /\ UNCHANGED <<serverVars, filesVars, historyVars>>
    \/ InterruptServer(signal) /\ UNCHANGED <<filesVars, historyVars>>
    \/ InterruptCompare(signal) /\ UNCHANGED <<serverVars, historyVars>>

Next ==
  \/ Driver \/ Interrupt \/ Validate
  \/ Machine /\ UNCHANGED <<serverVars, filesVars, historyVars>>
  \/ pc \in Ended /\ UNCHANGED vars

Spec == Init /\ [][Next]_vars

\* Every call of a driver returns: tools and waits have timeouts (the archived RocksDB
\* benchmark and the scripts rely on the tools' own --duration).
FairSpec == Spec /\ WF_vars(Driver)

-------------------------------------------------------------------------------
(***************************************************************************)
(* Properties                                                              *)
(***************************************************************************)
\* What every session promises, stated by Experiment.  The three scripts check neither
\* that a scheduler lives nor record anything as measured, so of their sessions this
\* says nothing; RunsAccountedFor does.
Promise ==
  INSTANCE Experiment WITH alive <- {s \in Labels : Alive(s)}, Baseline <- Default
ResultsKeepPromise == Promise!Spec

\* A scheduler of the session that can be stopped outlives the session only in these
\* ways.  Without a signal: stop_scheduler has once left one running, and then the sweep
\* could not be saved or plotted, after which main leaves without the final kill.  By a
\* signal: SIGTERM, for which the A/B programs have no handler; Ctrl-C while the A/B
\* program waits in start_fn or is stopping the scheduler; any once the handler of the
\* Redis drivers is there, whose SystemExit passes by the clean-up of __main__; or any in
\* bench_compare.sh.
SchedulerStopped ==
  \A s \in Labels \ (deaf \cup {Other}) :
    pc \in Ended /\ Alive(s) =>
      \/ pc = "aborted" /\ mode = "sweep" /\ stuck
      \/ /\ pc = "interrupted"
         /\ \/ at[2] = "TERM" /\ ~handler
            \/ AB /\ at[1] \in {"wait", "stop"}
            \/ handler
            \/ driver = "bench_compare"

\* The server of a session never outlives it, unless a signal came after the process
\* was made and before redis_process named it.
ServerStopped ==
  pc \in Ended /\ server = "up" => pc = "interrupted" /\ at[1] = "remember"

\* The A/B programs leave what an earlier session has saved alone until they have tried
\* every configuration.  Then they save everything, unless a failure or a signal comes
\* while the file is being written, which loses the earlier results as well.  The testers,
\* if no save fails, lose by an interrupt the result that was not yet saved, and the
\* baseline before the first save; if it comes while the file is being written,
\* everything.
ProgressSaved ==
  /\ AB =>
       /\ file \in {Null, Cut, records}
       /\ file # Null => \A k \in DOMAIN ABOrder : records[ABOrder[k]] # Null
       /\ file = Cut /\ pc \in Ended => pc = "aborted" \/ at[1] = "write"
       /\ pc = "done" => file = records
  /\ mode = "all" /\ pc \in Ended /\ ~failed =>
       \/ file = Cut /\ pc = "interrupted" /\ at[1] = "write"
       \/ file = Null /\ {c \in Configs : records[c] # Null} \subseteq {Order[1], Order[2]}
       \/ /\ file \notin {Null, Cut}
          /\ {c \in Configs : records[c] # file[c]} \subseteq {Order[i - 1]}
          /\ pc = "done" => file = records

\* In the analysis of the memtier results a test has a throughput if and only if it was
\* run and printed results, although its line of totals is never read.
AnalysisShowsMeasured ==
  Memtier /\ pc = "record" =>
    \A case \in TestCases :
      load_results(CsvRow(tests, case)) <=>
        case = "advanced_gaussian_random" /\ tests # <<>> /\ tests[1].rows

\* Whose measurements stage 4 uses.  An improvement of db_sim takes two of this session
\* if the session has saved its results; one that ended before it opened the file leaves
\* those of an earlier session, of which an improvement may then be told.  Of a script's
\* runs those of an earlier session are averaged only where this one has made none, also
\* when it ended early; if it came to its end that is beyond its number of runs, or where
\* bench_compare.sh has left one out.
RunsAccountedFor ==
  /\ verdict = "improvement" /\ driver = "db_sim_bench" =>
       IF file = Null THEN pc # "done"
       ELSE /\ file = records
            /\ {records[Config(Default, 1)], records[Config(Schedulers[1], 1)]} = {"ok"}
  /\ Compare /\ pc \in Ended =>
       \A side \in {"cfs", "custom"} :
         /\ \A k \in Averaged(files[side]) : files[side][k] = "old" => <<side, k>> \notin ran
         /\ pc = "done" => \A k \in 1 .. NumRuns :
              <<side, k>> \in ran \/ (side = "custom" /\ PerRun /\ k \in left)

\* Every session comes to an end.
SessionEnds == <>(pc \in Ended)

===============================================================================
