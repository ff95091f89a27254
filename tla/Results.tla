--------------------------------- MODULE Results ---------------------------------
(***************************************************************************)
(* What the benchmark tools print and what the drivers and stage 4 make of *)
(* it.  The output of one test is abstracted to its exit status and to     *)
(* whether it holds lines of results; a number to whether it is positive;  *)
(* a file of results to which of the tools' sessions wrote it.             *)
(***************************************************************************)
EXTENDS Integers, FiniteSets, Sequences

CONSTANTS
  Null,
  Cut,            \* a file that was opened for writing and not written to the end
  TotalsColumns,  \* fields of the line "Totals" of memtier_benchmark
  KindColumns     \* fields of its lines "Gets" and "Sets"

ASSUME ResultsAssumption == TotalsColumns \in Nat /\ KindColumns \in Nat

-------------------------------------------------------------------------------
(***************************************************************************)
(* One test                                                                *)
(***************************************************************************)
\* A tool that fails may still have printed results; one that is killed after the
\* timeout leaves none, because subprocess.run throws its output away.
Outputs == [rc : {0, 1}, rows : BOOLEAN]
TimedOut == [rc |-> -1, rows |-> FALSE]

\* redis-benchmark --csv: a header and at least one row, whatever the exit status.
parse_csv_output(out) == out.rows

\* The same rows, read by parse_benchmark_output, but only after a success.
TestMetrics(out) == out.rc = 0 /\ out.rows

\* The metrics of memtier_benchmark: a line is read if it has enough fields.
parse_memtier_output(out) ==
  IF ~out.rows THEN {}
  ELSE (IF TotalsColumns >= 11 THEN {"ops"} ELSE {})
         \cup (IF KindColumns >= 8 THEN {"gets", "sets"} ELSE {})

\* The summary line of db_bench; run_test looks at the output, not at the status.
parse_db_bench_output(out) == IF out.rows THEN "ok" ELSE "empty"

\* extract_metrics_from_results: parsed_metrics, or else metrics, of every test.
ExtractedRedis(tests) == {k \in DOMAIN tests : parse_csv_output(tests[k]) \/ TestMetrics(tests[k])}
ExtractedMemtier(tests) == {k \in DOMAIN tests : parse_memtier_output(tests[k]) # {}}

-------------------------------------------------------------------------------
(***************************************************************************)
(* memtier_scheduler_results.csv and its analysis                          *)
(***************************************************************************)
\* The test that is run, and one of the five that are commented out.
TestCases == {"mixed_1_10", "advanced_gaussian_random"}

\* The row of a test: what is greater than zero in it.
CsvRow(tests, case) ==
  IF case = "advanced_gaussian_random" /\ tests # <<>> THEN parse_memtier_output(tests[1]) ELSE {}

\* Mutant: the columns are taken as they are.
load_resultsRaw(row) == "ops" \in row

\* The total throughput of a row is positive: its own or else the sum of the two kinds.
load_results(row) == "ops" \in row \/ "gets" \in row \/ "sets" \in row

-------------------------------------------------------------------------------
(***************************************************************************)
(* Stage 4                                                                 *)
(***************************************************************************)
\* A missing label counts as {}; one that is there with null has no attribute get, and a
\* file that was cut is no json.  Without a file of this session it is that of an earlier
\* one which is read, whatever it holds, if there is one.  The verdicts there may be:
parse_db_sim(file, cfs, custom) ==
  IF file = Null THEN {"no results", "exception", "improvement"}
  ELSE IF file = Cut \/ "failed" \in {file[cfs], file[custom]} THEN {"exception"}
  ELSE {"improvement"}

\* parse_run, parse_csv_run, parse_wrk2_run: the file is there and has results in it.
Usable(file) == file \notin {"absent", "bad"}

\* The runs of one side that are averaged: all of 1 to 9, whoever wrote them.
Averaged(side) == {k \in DOMAIN side : Usable(side[k])}

parse_rocksdb(files) ==
  IF {} \in {Averaged(files.cfs), Averaged(files.custom)} THEN "no results" ELSE "improvement"

parse_redis(files) ==
  IF {} \in {Averaged(files.cfs), Averaged(files.custom)} THEN "no results" ELSE "improvement"

parse_nginx(files) ==
  IF {} \in {Averaged(files.cfs), Averaged(files.custom)} THEN "no results" ELSE "improvement"

===============================================================================
