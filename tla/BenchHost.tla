-------------------------------- MODULE BenchHost --------------------------------
(***************************************************************************)
(* The machine that the benchmark drivers run on and the session of one of *)
(* them.  The machine is external to the drivers: scheduler processes, of  *)
(* which the kernel lets one attach at a time, whatever else has been      *)
(* started.  A process may take longer to attach than the driver waits, it *)
(* may go on after the kernel has ejected its scheduler, and it may exit   *)
(* at any time.                                                            *)
(***************************************************************************)
EXTENDS Results

CONSTANTS
  Default,     \* the label of the machine's own scheduler
  Schedulers,  \* the schedulers a session compares it with, in order
  Other,       \* a scheduler that somebody else has started
  Sizes        \* the data sizes of a sweep, in order

VARIABLES
  proc,      \* the process of each scheduler: its state
  deaf,      \* the processes that no signal of the driver stops, or for which pkill fails
  driver,    \* which program the session runs, and ...
  mode,      \* ... what for
  pc,        \* where it is
  i,         \* the configuration it is at
  held,      \* the scheduler whose process the driver has in its hands, or Null
  measuring, \* the configuration it has gone on to measure, or Null
  tests,     \* the outputs of its tests so far
  result,    \* what run_test is about to return
  records,   \* what the session knows of each configuration
  file,      \* the results on disk: Null for what an earlier session has left, Cut, or records
  verdict,   \* what stage 4 has made of them
  at         \* where the session was when it was interrupted, and by what

procVars == <<proc, deaf>>
hostVars == <<proc, deaf, driver, mode, pc, i, held, measuring, tests, result, records,
              file, verdict, at>>

Labels == {Schedulers[k] : k \in DOMAIN Schedulers} \cup {Other}
Config(label, size) == [label |-> label, size |-> size]
Configs == [label : Labels \cup {Default}, size : {Sizes[k] : k \in DOMAIN Sizes}]
Statuses == {"ok", "empty", "failed"}   \* of a configuration that was tried
Ended == {"done", "interrupted", "aborted"}

\* Names and sizes are distinct: they are the keys of what a session records.  Size 1
\* stands for the data size of the sessions that do not vary it.
ASSUME HostAssumption ==
  /\ Schedulers \in Seq(Labels \ {Other}) \ {<<>>}
  /\ \A j, k \in DOMAIN Schedulers : Schedulers[j] = Schedulers[k] => j = k
  /\ Sizes \in Seq({Sizes[k] : k \in DOMAIN Sizes}) /\ 1 \in {Sizes[k] : k \in DOMAIN Sizes}
  /\ \A j, k \in DOMAIN Sizes : Sizes[j] = Sizes[k] => j = k
  /\ Default \notin Labels /\ Null # Cut
  /\ Null \notin Labels \cup {Default} \cup Statuses \cup Configs
  /\ \A s \in {Null, Cut} : s \notin [Configs -> Statuses \cup {Null}]

Alive(s) == proc[s] # "none"
Attached(s) == proc[s] = "attached"
Enabled == \E s \in Labels : Attached(s)   \* /sys/kernel/sched_ext/state

Killed(S) == [s \in Labels |-> IF s \in S \ deaf THEN "none" ELSE proc[s]]
Spawned(s) == [proc EXCEPT ![s] = "loading"]

HostInit ==
  /\ proc \in [Labels -> {"none", "attached"}] /\ \A s \in Labels : Alive(s) => s = Other
  /\ deaf \in {{}, {Schedulers[1]}, {Other}}
  /\ pc = "test" /\ i = 1
  /\ held = Null /\ measuring = Null /\ tests = <<>> /\ result = Null
  /\ records = [c \in Configs |-> Null]
  /\ file = Null /\ verdict = "none" /\ at = <<>>

\* The loader attaches, or gives up because another scheduler is there already; the
\* kernel ejects a scheduler; a process exits.  Bound: the machine stands still once
\* the session is over.
Attach(s) == proc[s] = "loading" /\ proc' = [proc EXCEPT ![s] = IF Enabled THEN "none" ELSE "attached"]
Eject(s) == Attached(s) /\ proc' = [proc EXCEPT ![s] = "ejected"]
Exit(s) == Alive(s) /\ proc' = [proc EXCEPT ![s] = "none"]

Machine ==
  /\ pc \notin Ended
  /\ \E s \in Labels : Attach(s) \/ Eject(s) \/ Exit(s)
  /\ UNCHANGED <<deaf, driver, mode, pc, i, held, measuring, tests, result, records, file,
                 verdict, at>>

\* What a step of a driver leaves alone.
Here(from, to) == pc = from /\ pc' = to /\ UNCHANGED <<deaf, driver, mode, at>>
Held == UNCHANGED <<held, i>>
Measured == UNCHANGED <<measuring, tests, result>>
Stored == UNCHANGED <<records, file, verdict>>

HostTypeOK ==
  /\ proc \in [Labels -> {"none", "loading", "attached", "ejected"}]
  /\ deaf \subseteq Labels /\ held \in Labels \cup {Null}
  /\ i \in Nat \ {0}
  /\ measuring \in Configs \cup {Null}
  /\ \A k \in DOMAIN tests : tests[k] \in Outputs \cup {TimedOut}
  /\ result \in Statuses \cup {Null}
  /\ records \in [Configs -> Statuses \cup {Null}]
  /\ Cardinality({s \in Labels : Attached(s)}) <= 1

===============================================================================
