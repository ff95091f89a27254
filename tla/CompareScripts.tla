----------------------------- MODULE CompareScripts -----------------------------
(***************************************************************************)
(* bench_compare.sh of RocksDB, redis_bench_compare.sh and                 *)
(* nginx_bench_compare.sh: a number of runs without and then with the      *)
(* scheduler, each into a file of its own.  The script of RocksDB starts   *)
(* the scheduler anew for each run and leaves the run out if the kernel    *)
(* has none; the other two start it once, only warn, and end, by set -e,   *)
(* at the first command that fails.                                        *)
(***************************************************************************)
EXTENDS BenchHost

CONSTANTS
  NumRuns,  \* the runs of a session on each side
  MaxRuns   \* stage 4 reads the files 1 to MaxRuns (9 in the code)

ASSUME CompareAssumption == MaxRuns \in Nat /\ NumRuns \in 1 .. MaxRuns

VARIABLES
  files,   \* the file of each run: absent, bad, from an "old" session, "fresh", or
           \* "stray": of this session, but the scheduler was not attached when it began
  left,    \* the runs with the scheduler that were left out
  ran      \* history: the runs <<side, number>> that this session has made

filesVars == <<files, left, ran>>

Compare == driver \in {"bench_compare", "redis_bench_compare", "nginx_bench_compare"}
PerRun == driver = "bench_compare"
Own == Schedulers[1]

\* Earlier sessions may have had more runs; the other programs have no such files.
FilesInit ==
  /\ \E old \in IF Compare THEN {0, NumRuns, MaxRuns} ELSE {0} :
       files = [side \in {"cfs", "custom"} |->
                  [k \in 1 .. MaxRuns |-> IF k <= old THEN "old" ELSE "absent"]]
  /\ left = {} /\ ran = {}

\* The shell has emptied the file of the run before the tool writes to it.
Writes(side, kinds) ==
  /\ \E kind \in kinds : files' = [files EXCEPT ![side][i] = kind]
  /\ ran' = ran \cup {<<side, i>>}

\* Mutant: a tool that fails leaves the file as it was.
RunIntoKeep(side, kind, next) ==
  /\ \/ Writes(side, {kind}) /\ next
     \/ /\ UNCHANGED files /\ ran' = ran \cup {<<side, i>>}
        /\ IF PerRun THEN next ELSE pc' = "trap" /\ UNCHANGED <<i, deaf, driver, mode, at>>
  /\ UNCHANGED left

\* One run.  A tool that fails may leave a file without results, and ends two scripts.
RunInto(side, kind, next) ==
  /\ \/ Writes(side, {kind}) /\ next
     \/ /\ Writes(side, {kind, "bad"})
        /\ IF PerRun THEN next ELSE pc' = "trap" /\ UNCHANGED <<i, deaf, driver, mode, at>>
  /\ UNCHANGED left

\* The next run, or after the last one the next part of the script.
Step(from, again, then) ==
  IF i < NumRuns THEN Here(from, again) /\ i' = i + 1 ELSE Here(from, then) /\ i' = 1

CfsRun ==
  /\ Compare /\ pc = "test"
  /\ \/ RunInto("cfs", "fresh", Step("test", "test", "start"))
     \/ ~PerRun /\ i = 1 /\ Here("test", "trap") /\ UNCHANGED <<i, filesVars>>  \* no server
  /\ UNCHANGED <<proc, held>> /\ Measured /\ Stored

LoadScheduler ==
  /\ Compare /\ Here("start", "wait")
  /\ proc' = IF Alive(Own) THEN proc ELSE Spawned(Own)
  /\ held' = Own
  /\ UNCHANGED <<i, filesVars>> /\ Measured /\ Stored

\* What sched_ext/state says decides over the run in one script, and nothing in two.
CheckState ==
  /\ Compare
  /\ \/ (Enabled \/ ~PerRun) /\ Here("wait", "run") /\ UNCHANGED <<i, proc, held, left>>
     \/ /\ PerRun /\ ~Enabled /\ Step("wait", "start", "done")
        /\ left' = left \cup {i} /\ proc' = Killed({Own}) /\ held' = Null
     \/ ~PerRun /\ Here("wait", "trap") /\ UNCHANGED <<i, proc, held, left>>  \* no server
  /\ UNCHANGED <<files, ran>> /\ Measured /\ Stored

\* Whether the scheduler is attached when a run begins.
Measurement == IF Attached(Own) THEN "fresh" ELSE "stray"

CustomRun ==
  /\ Compare /\ pc = "run"
  /\ RunInto("custom", Measurement,
             IF PerRun THEN Here("run", "unload") /\ UNCHANGED i ELSE Step("run", "run", "unload"))
  /\ UNCHANGED <<proc, held>> /\ Measured /\ Stored

Unload ==
  /\ Compare /\ pc = "unload"
  /\ IF PerRun THEN Step("unload", "start", "done") ELSE Here("unload", "done") /\ UNCHANGED i
  /\ proc' = Killed({Own}) /\ held' = Null
  /\ UNCHANGED filesVars /\ Measured /\ Stored

\* trap cleanup EXIT, after set -e
Trap ==
  /\ Compare /\ Here("trap", "aborted")
  /\ proc' = Killed({Own}) /\ held' = Null
  /\ UNCHANGED <<i, filesVars>> /\ Measured /\ Stored

\* Two scripts clean up however they end; a background loader of the third has been
\* told by the shell to ignore Ctrl-C.  A run that is interrupted may have printed enough.
InterruptCompare(signal) ==
  /\ Compare /\ pc \notin Ended
  /\ proc' = IF PerRun THEN proc ELSE Killed({Own})
  /\ \/ UNCHANGED <<files, ran>>
     \/ pc = "test" /\ Writes("cfs", {"fresh", "bad"})
     \/ pc = "run" /\ Writes("custom", {Measurement, "bad"})
  /\ pc' = "interrupted" /\ at' = <<pc, signal>>
  /\ UNCHANGED <<deaf, driver, mode, left>> /\ Held /\ Measured /\ Stored

CompareStep == CfsRun \/ LoadScheduler \/ CheckState \/ CustomRun \/ Unload \/ Trap

===============================================================================
