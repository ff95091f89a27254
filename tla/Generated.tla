------------------------------- MODULE Generated -------------------------------
(***************************************************************************)
(* Stages 2 and 3 and the scheduler they make: a pattern is selected for a *)
(* manifest, the template of the pattern is filled in, and the generated   *)
(* scheduler runs on the machine of SchedExt.  The templates were derived  *)
(* from db_aware, redis_aware and nginx_aware; that the generated programs *)
(* still are such schedulers is stated as a refinement.                    *)
(***************************************************************************)
EXTENDS BgPreempt, Manifest

CONSTANTS
  Written,     \* the manifests that somebody has written, and ...
  Profiles,    \* ... what stage 1c has found out about threads, to make others from
  Comm,        \* the name that each thread starts with, and ...
  NewNames,    \* ... those it may take while it runs
  Failing,     \* the threads whose allocation of task storage may fail
  ThreadArgs, CpuArgs   \* what --threads and --cpus may be; Null if not given

ASSUME GeneratedAssumption ==
  /\ \A m \in Written : \A e \in m :
       /\ e.prefix = Null \/ e.prefix \in Seq(STRING)
       /\ e.length = Null \/ e.length \in Nat
  /\ \A p \in Profiles : \A t \in p : t.comm \in Seq(STRING)
  /\ Null \notin Seq(STRING)
  /\ ThreadArgs \subseteq Nat \cup {Null} /\ CpuArgs \subseteq Nat \cup {Null}
  /\ Comm \in [Tasks -> Seq(STRING)] /\ NewNames \in [Tasks -> SUBSET Seq(STRING)]
  /\ Failing \subseteq Tasks

Manifests == Written \cup {build_manifest(p) : p \in Profiles}

VARIABLES
  stage,     \* "select", "generate", "load", then "run" or what went wrong
  manifest,  \* the manifest the user passes to both stages
  pattern,   \* what stage 2 prints and is passed to stage 3 as --pattern
  class,     \* task_class_map of template C
  comm       \* p->comm, as it stands now

pipeVars == <<stage, manifest, pattern>>
machineVars == <<coreVars, dsqVars, preemptVars, class>>
vars == <<machineVars, pipeVars, comm>>

Ends == {"exception", "compile error"}
A == pattern = "simple_dual_dsq"
B == pattern = "selective_preemption"
C == pattern = "asymmetric_task_storage"

TypeOK ==
  /\ CoreTypeOK /\ PreemptTypeOK
  /\ stage \in {"select", "generate", "load", "run"} \cup Ends
  /\ manifest \in Manifests
  /\ pattern \in Patterns \cup {"none"}
  /\ class \in [Tasks -> {"unknown", "nginx", "hog", "normal"}]
  /\ comm \in [Tasks -> Seq(STRING)]

Init ==
  /\ CoreInit /\ PreemptInit
  /\ class = [t \in Tasks |-> "unknown"] /\ comm = Comm
  /\ stage = "select" /\ manifest \in Manifests /\ pattern = "none"

-------------------------------------------------------------------------------
(***************************************************************************)
(* The pipeline                                                            *)
(***************************************************************************)
SelectPolicy ==
  /\ stage = "select"
  /\ \E threads \in ThreadArgs, cpus \in CpuArgs, external \in BOOLEAN :
       pattern' = select_policy(manifest, threads, cpus, external)
  /\ stage' = "generate"
  /\ UNCHANGED <<machineVars, comm, manifest>>

generate_scheduler ==
  /\ stage = "generate"
  /\ stage' = IF ExtractFails(manifest) THEN "exception" ELSE "load"
  /\ UNCHANGED <<machineVars, comm, manifest, pattern>>

\* make and the loader; init creates the DSQs.
Load ==
  /\ stage = "load"
  /\ stage' = IF Compiles(manifest, pattern) THEN "run" ELSE "compile error"
  /\ UNCHANGED <<machineVars, comm, manifest, pattern>>

Pipeline == SelectPolicy \/ generate_scheduler \/ Load

-------------------------------------------------------------------------------
(***************************************************************************)
(* The callbacks of the three templates                                    *)
(***************************************************************************)
\* What the classifier says of t, in C from the cache once it is there.
TaskClass(t) == IF class[t] # "unknown" THEN class[t] ELSE classify_task(manifest, comm[t])
IsBackground(t) == IF C THEN TaskClass(t) = "hog" ELSE is_background(manifest, comm[t])

\* classify_task stores what it returns if it gets storage for it; is_..._background
\* stores nothing.
Classified(t) ==
  \/ C /\ class' = [class EXCEPT ![t] = TaskClass(t)]
  \/ (~C \/ t \in Failing) /\ UNCHANGED class

\* Mutant: background threads look for a CPU to kick as well.
MayPreemptAny(t) == B \/ C

\* Who looks for a CPU to kick: nobody in A, in C only the foreground threads.
MayPreempt(t) ==
  \/ B /\ ~IsBackground(t)
  \/ C /\ TaskClass(t) = "nginx"

SelectCpu(t) ==
  /\ SelectIdle(t) \/ SelectBusy(t, MayPreempt(t))
  /\ Classified(t)

Enqueue(t) ==
  \/ EnqueueWoken(t, IsBackground(t)) /\ Classified(t)
  \/ EnqueueDirect(t) /\ UNCHANGED class

\* Mutant: the scan of C is not limited to the CPUs of the machine.
ScanLimitArray == MaxCpus

\* How many slots select_cpu looks at: MAX_CPUS in B, min(nr_cpus, MAX_CPUS) in C.
ScanLimit == IF C /\ NCpu < MaxCpus THEN NCpu ELSE MaxCpus

Scan(t) ==
  /\ ScanFlag(t, ScanLimit) \/ CheckAge(t, ScanLimit) \/ DeliverKick(t)
  /\ UNCHANGED class

\* The first DSQ: FOREGROUND_DSQ, which dispatch moves from, or SCX_DSQ_GLOBAL, which
\* the kernel takes from before it calls dispatch.
DispatchFirst(c) ==
  /\ cpc[c] = "dispatch"
  /\ \/ TakeForeground(c)
     \/ fgq = <<>> /\ Advance(c, "dispatchBg")
  /\ UNCHANGED <<preemptVars, class>>

\* Mutant: the template has lost the second move.
DispatchSecondNever(c) ==
  /\ cpc[c] = "dispatchBg" /\ NothingFound(c)
  /\ UNCHANGED <<preemptVars, class>>

\* Then BACKGROUND_DSQ; in C the kernel looks at SCX_DSQ_GLOBAL once more.
DispatchSecond(c) ==
  /\ cpc[c] = "dispatchBg"
  /\ \/ TakeBackground(c)
     \/ bgq = <<>> /\ (IF C THEN Advance(c, "recheck") ELSE NothingFound(c))
  /\ UNCHANGED <<preemptVars, class>>

ConsumeGlobalAgain(c) ==
  /\ cpc[c] = "recheck"
  /\ \/ TakeForeground(c)
     \/ fgq = <<>> /\ NothingFound(c)
  /\ UNCHANGED <<preemptVars, class>>

\* A has neither running nor stopping.
Flagged(t) == ~A /\ IsBackground(t)

PutPrevStep(c) ==
  /\ PutPrev(c)
  /\ IF PrevRunnable(c)
     THEN /\ stopping(Flagged(curr[c]), c)
          /\ enqueue(curr[c], IsBackground(curr[c]))
          /\ Classified(curr[c])
     ELSE UNCHANGED <<bg_running, dsqVars, class>>
  /\ UNCHANGED <<bg_start, scanVars, kick, rnow, clock>>

\* In A no callback sees the task start or block.
StartStep(c) ==
  LET t == Head(local[c])
  IN  StartNext(c, Flagged(t)) /\ Classified(t)

BlockStep(c) == TaskBlocks(c, Flagged(curr[c])) /\ Classified(curr[c])

WakeupStep(t) == Enqueue(t) \/ Scan(t)

ScheduleStep(c) ==
  \/ (BalanceCpu(c) \/ StampStart(c)) /\ UNCHANGED class
  \/ DispatchFirst(c) \/ DispatchSecond(c) \/ ConsumeGlobalAgain(c)
  \/ PutPrevStep(c) \/ StartStep(c)

SliceStep(c) == SliceEnds(c) /\ UNCHANGED class

Machine ==
  /\ stage = "run"
  /\ \/ \E t \in Tasks : SelectCpu(t) \/ WakeupStep(t)
     \/ \E c \in CPUs : ScheduleStep(c) \/ SliceStep(c) \/ BlockStep(c)
     \/ TimePasses /\ UNCHANGED class
  /\ UNCHANGED <<pipeVars, comm>>

\* A running thread renames itself, or execs.
Rename(c) ==
  /\ cpc[c] = "run" /\ curr[c] \in Tasks
  /\ \E name \in NewNames[curr[c]] : comm' = [comm EXCEPT ![curr[c]] = name]
  /\ UNCHANGED <<machineVars, pipeVars>>

Stopped == stage \in Ends /\ UNCHANGED vars

Next == Pipeline \/ Machine \/ (\E c \in CPUs : Rename(c)) \/ Stopped

Spec == Init /\ [][Next]_vars

-------------------------------------------------------------------------------
(***************************************************************************)
(* Properties                                                              *)
(***************************************************************************)
Matched(m, role) == {t \in Tasks : \E p \in RolePrefixes(m, role) : Matches(Comm[t], p)}

\* What the generated functions say of the present names.
NamedBackground(m) == [t \in Tasks |-> is_background(m, comm[t])]
NamedClass(m) == [t \in Tasks |-> classify_task(m, comm[t])]

Usable == {m \in Manifests : ~ExtractFails(m)}

\* The program that template A was derived from, with the threads that the manifest does
\* not name background for its query threads, ...
DbAware(m) == INSTANCE DualDsq
  WITH Queries <- {}, query <- [t \in Tasks |-> ~NamedBackground(m)[t]]

\* ... template B, ...
RedisAware(m) == INSTANCE SelectivePreempt
  WITH Background <- Matched(m, "background"), Renamers <- {},
       bg <- NamedBackground(m)

\* ... and template C.
NginxAware(m) == INSTANCE Asymmetric
  WITH Nginx <- Matched(m, "foreground"),
       Hogs <- Matched(m, "background") \ Matched(m, "foreground"),
       Execers <- {}, comm <- NamedClass(m)

\* Every step of a scheduler generated from template A is one of db_aware ("derived
\* from db_aware.bpf.c"), with the threads that the manifest names background as the
\* names stand at that step.
RefinesDbAware ==
  [][\A m \in Usable :
       stage = "run" /\ A /\ manifest = m => DbAware(m)!Next]_<<coreVars, dsqVars>>

\* A scheduler generated from template B is a redis_aware: it starts as one, and makes its
\* steps only, threads changing their names in between.
RefinesRedisAware ==
  /\ \A m \in Usable : RedisAware(m)!Init
  /\ [][\A m \in Usable :
          stage = "run" /\ B /\ manifest = m => RedisAware(m)!Next]_machineVars

\* A scheduler generated from template C is an nginx_aware: it kicks for the manifest's
\* foreground threads only, looks at no slot that nginx_aware would not look at, and
\* caches the class of a thread or, refused storage, does not.
RefinesNginxAware ==
  /\ \A m \in Usable : NginxAware(m)!Init
  /\ [][\A m \in Usable :
          stage = "run" /\ C /\ manifest = m => NginxAware(m)!Next]_machineVars

\* An entry that is identified by comm: comm_length is 1 to 15 in the schema.
ByComm(e) ==
  /\ e.prefix \notin {Null, <<>>} /\ Plain(e.prefix)
  /\ ~EndsComment(e.prefix) /\ ~EndsComment(e.pattern)
  /\ e.length = Null \/ e.length >= 1

\* A manifest whose threads are all identified by comm gets a scheduler that compiles,
\* with either of the three patterns; others need not: the schema allows a null or
\* empty comm_prefix, and one with a quote, a backslash or the end of a comment in it.
CommManifestsRun == (\A e \in manifest : ByComm(e)) => stage \notin Ends

\* A manifest made from a profile gets a scheduler whatever the threads are called,
\* if it is not nothing or something that C reads in another way; and this one finds every thread
\* that was profiled as background again, although only stems of names are kept; in C,
\* unless a foreground stem matches it as well.
ProfiledThreadsKept ==
  \A p \in Profiles : manifest = build_manifest(p) =>
    /\ (\A t \in p : t.comm # <<>> /\ Plain(t.comm) /\ ~EndsComment(t.comm)) => stage \notin Ends
    /\ \A t \in p : t.role = "background" =>
         /\ is_background(manifest, t.comm)
         /\ \/ classify_task(manifest, t.comm) = "hog"
            \/ \E u \in p : u.role = "foreground" /\ Seqs!IsPrefix(Stem(u.comm), t.comm)

===============================================================================
