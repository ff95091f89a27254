------------------------------ MODULE Asymmetric -------------------------------
(***************************************************************************)
(* nginx_aware.bpf.c: only CPU hogs are sent to a DSQ of the scheduler's   *)
(* own, every other thread to SCX_DSQ_GLOBAL, which the kernel drains      *)
(* itself before it calls dispatch (and once more after it).  The class of *)
(* a thread is computed from its comm the first time a callback sees it    *)
(* and cached in BPF task storage.  fgq is SCX_DSQ_GLOBAL here, bgq is     *)
(* BACKGROUND_DSQ.                                                         *)
(***************************************************************************)
EXTENDS BgPreempt

CONSTANTS
  Nginx,        \* the tasks whose comm is "nginx"
  Hogs,         \* the tasks whose comm is "stress-ng*" from the start
  Execers,      \* tasks started by a shell, which become "stress-ng" by exec
  Failing       \* the tasks whose allocation of task storage may fail

ASSUME AsymmetricAssumption ==
  /\ Nginx \subseteq Tasks /\ Hogs \subseteq Tasks /\ Execers \subseteq Tasks
  /\ Nginx \cap Hogs = {} /\ Execers \cap (Nginx \cup Hogs) = {}
  /\ Failing \subseteq Tasks

Classes == {"nginx", "hog", "normal"}   \* TASK_NGINX, TASK_CPU_HOG, TASK_NORMAL

VARIABLES
  comm,  \* what classify_task() makes of p->comm as it stands now
  class  \* task_class_map; "unknown" where there is no entry

classVars == <<comm, class>>
vars == <<coreVars, dsqVars, preemptVars, classVars>>

TypeOK ==
  /\ CoreTypeOK /\ PreemptTypeOK
  /\ comm \in [Tasks -> Classes]
  /\ class \in [Tasks -> Classes \cup {"unknown"}]

Init ==
  /\ CoreInit /\ PreemptInit
  /\ comm = [t \in Tasks |-> IF t \in Nginx THEN "nginx" ELSE IF t \in Hogs THEN "hog" ELSE "normal"]
  /\ class = [t \in Tasks |-> "unknown"]

\* What classify_task() returns: the cached class, else the one comm gives.
TaskClass(t) == IF class[t] # "unknown" THEN class[t] ELSE comm[t]
Hog(t) == TaskClass(t) = "hog"

\* Mutant: the class is read from comm at every event.
CacheNothing(t) == UNCHANGED classVars

\* What it leaves in the cache.
CacheClass(t) ==
  /\ \/ class' = [class EXCEPT ![t] = TaskClass(t)]
     \/ t \in Failing /\ UNCHANGED class
  /\ UNCHANGED comm

\* min(nr_cpu_ids, MAX_CPUS), the limit of the scan.
ScanLimit == IF NCpu < MaxCpus THEN NCpu ELSE MaxCpus

SelectCpu(t) ==
  /\ SelectIdle(t) \/ SelectBusy(t, TaskClass(t) = "nginx")
  /\ CacheClass(t)

\* The kernel takes from SCX_DSQ_GLOBAL before it calls ops.dispatch.
ConsumeGlobal(c) ==
  /\ cpc[c] = "dispatch"
  /\ \/ TakeForeground(c)
     \/ fgq = <<>> /\ Advance(c, "dispatchBg")
  /\ UNCHANGED preemptVars

\* Mutant: BACKGROUND_DSQ is never moved from.
DispatchNothing(c) ==
  /\ cpc[c] = "dispatchBg"
  /\ Advance(c, "recheck")
  /\ UNCHANGED preemptVars

\* dispatch moves from BACKGROUND_DSQ.
Dispatch(c) ==
  /\ cpc[c] = "dispatchBg"
  /\ \/ TakeBackground(c)
     \/ bgq = <<>> /\ Advance(c, "recheck")
  /\ UNCHANGED preemptVars

\* Its look at SCX_DSQ_GLOBAL after a dispatch that has found nothing.
ConsumeGlobalAgain(c) ==
  /\ cpc[c] = "recheck"
  /\ \/ TakeForeground(c)
     \/ fgq = <<>> /\ NothingFound(c)
  /\ UNCHANGED preemptVars

PutPrevStep(c) ==
  /\ PutPrevTask(c, curr[c] # NoTask /\ Hog(curr[c]))
  /\ IF PrevRunnable(c) THEN CacheClass(curr[c]) ELSE UNCHANGED classVars

\* The shell's child execs stress-ng, or a thread takes that name.
Exec(c) ==
  /\ cpc[c] = "run" /\ curr[c] \in Execers /\ comm[curr[c]] = "normal"
  /\ comm' = [comm EXCEPT ![curr[c]] = "hog"]
  /\ UNCHANGED <<coreVars, dsqVars, preemptVars, class>>

WakeupStep(t) ==
  \/ EnqueueWoken(t, Hog(t)) /\ CacheClass(t)
  \/ (ScanFlag(t, ScanLimit) \/ CheckAge(t, ScanLimit) \/ EnqueueDirect(t) \/ DeliverKick(t)) /\ UNCHANGED classVars

ScheduleStep(c) ==
  \/ /\ BalanceCpu(c) \/ ConsumeGlobal(c) \/ Dispatch(c) \/ ConsumeGlobalAgain(c) \/ StampStart(c)
     /\ UNCHANGED classVars
  \/ PutPrevStep(c)
  \/ StartNext(c, Hog(Head(local[c]))) /\ CacheClass(Head(local[c]))

SliceStep(c) == SliceEnds(c) /\ UNCHANGED classVars

BlockStep(c) == TaskBlocks(c, Hog(curr[c])) /\ CacheClass(curr[c])

Next ==
  \/ \E t \in Tasks : SelectCpu(t) \/ WakeupStep(t)
  \/ \E c \in CPUs : ScheduleStep(c) \/ SliceStep(c) \/ BlockStep(c) \/ Exec(c)
  \/ TimePasses /\ UNCHANGED classVars

Spec == Init /\ [][Next]_vars

\* As in SelectivePreempt; the kernel drains SCX_DSQ_GLOBAL from schedule() too.
Fairness ==
  /\ \A t \in Tasks : SF_vars(WakeupStep(t))
  /\ \A c \in CPUs : WF_vars(ScheduleStep(c)) /\ WF_vars(SliceStep(c))

FairSpec == Spec /\ Fairness

-------------------------------------------------------------------------------
(***************************************************************************)
(* Properties, besides OnePlace, NoStall and AnyPolicy of TwoDsq           *)
(***************************************************************************)
\* The flag of a CPU is exact although threads exec while they run, because the
\* class is cached before a thread first runs: running and stopping agree about
\* every thread.  If task storage cannot be allocated they may not, but even then no
\* flag is left behind on a CPU that runs no hog.
FlagMatchesClass == FlagsShow([t \in Tasks |-> Hog(t)], Tasks \ Failing)

\* "only intervene for threads we want to DEprioritize": a thread that is no hog
\* and wakes up with every CPU busy runs eventually.
NormalServed ==
  \A t \in Tasks : (~Hog(t) /\ tpc[t] \in {"scan", "age", "enq"}) ~> Executes(t)

\* A hog waits for ever only if other threads keep queueing.
HogServedWhenQuiet ==
  \A t \in Tasks : <>[](fgq = <<>>) => []((Hog(t) /\ tpc[t] = "enq") => <>Executes(t))

===============================================================================
