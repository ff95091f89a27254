--------------------------- MODULE SelectivePreempt ---------------------------
(***************************************************************************)
(* The selective-preemption schedulers of schedcore, redis_aware.bpf.c and *)
(* rocksdb_aware.bpf.c, which differ only in the thread names they call    *)
(* background (and in the names of the callbacks).  A thread's comm is the *)
(* one bit the classifier extracts from it, read anew by every callback.   *)
(***************************************************************************)
EXTENDS BgPreempt

CONSTANTS
  Background,  \* the tasks whose comm is a background name from the start
  Renamers     \* the tasks that may take a background name while they run

ASSUME SelectiveAssumption ==
  /\ Background \subseteq Tasks
  /\ Renamers \subseteq Tasks

VARIABLE bg  \* is_redis_background(p), as comm stands now

vars == <<coreVars, dsqVars, preemptVars, bg>>

TypeOK == CoreTypeOK /\ PreemptTypeOK /\ bg \in [Tasks -> BOOLEAN]

\* ops.init creates the two DSQs.
Init == CoreInit /\ PreemptInit /\ bg = [t \in Tasks |-> t \in Background]

SelectCpu(t) == SelectIdle(t) \/ SelectBusy(t, ~bg[t])

\* Mutant: FOREGROUND_DSQ is looked at only when BACKGROUND_DSQ is empty.
DispatchBackgroundFirst(c) ==
  /\ cpc[c] = "dispatch"
  /\ \/ bgq = <<>> /\ TakeForeground(c)
     \/ (bgq # <<>> \/ fgq = <<>>) /\ Advance(c, "dispatchBg")
  /\ UNCHANGED preemptVars

\* dispatch: the first move, from FOREGROUND_DSQ.
DispatchForeground(c) ==
  /\ cpc[c] = "dispatch"
  /\ \/ TakeForeground(c)
     \/ fgq = <<>> /\ Advance(c, "dispatchBg")
  /\ UNCHANGED preemptVars

\* Mutant: dispatch returns whether or not the first move found a task.
DispatchForegroundOnly(c) ==
  /\ cpc[c] = "dispatchBg"
  /\ NothingFound(c)
  /\ UNCHANGED preemptVars

\* dispatch: the second move, from BACKGROUND_DSQ.
DispatchBackground(c) ==
  /\ cpc[c] = "dispatchBg"
  /\ \/ TakeBackground(c)
     \/ bgq = <<>> /\ NothingFound(c)
  /\ UNCHANGED preemptVars

\* A worker thread names itself after it has started to run.
Rename(c) ==
  /\ cpc[c] = "run" /\ curr[c] \in Renamers /\ ~bg[curr[c]]
  /\ bg' = [bg EXCEPT ![curr[c]] = TRUE]
  /\ UNCHANGED <<coreVars, dsqVars, preemptVars>>

WakeupStep(t) ==
  /\ ScanFlag(t, MaxCpus) \/ CheckAge(t, MaxCpus) \/ EnqueueWoken(t, bg[t]) \/ EnqueueDirect(t) \/ DeliverKick(t)
  /\ UNCHANGED bg

ScheduleStep(c) ==
  /\ \/ BalanceCpu(c) \/ DispatchForeground(c) \/ DispatchBackground(c)
     \/ PutPrevTask(c, curr[c] # NoTask /\ bg[curr[c]])
     \/ StartNext(c, bg[Head(local[c])])
     \/ StampStart(c)
  /\ UNCHANGED bg

SliceStep(c) == SliceEnds(c) /\ UNCHANGED bg

BlockStep(c) == TaskBlocks(c, bg[curr[c]]) /\ UNCHANGED bg

Next ==
  \/ \E t \in Tasks : (SelectCpu(t) /\ UNCHANGED bg) \/ WakeupStep(t)
  \/ \E c \in CPUs : ScheduleStep(c) \/ SliceStep(c) \/ BlockStep(c) \/ Rename(c)
  \/ TimePasses /\ UNCHANGED bg

Spec == Init /\ [][Next]_vars

\* schedule() and the tick never stop; a wake-up once begun gets the run-queue
\* lock it waits for (a queued spinlock is first come, first served).  Threads
\* need not wake up, block or rename themselves.
Fairness ==
  /\ \A t \in Tasks : SF_vars(WakeupStep(t))
  /\ \A c \in CPUs : WF_vars(ScheduleStep(c)) /\ WF_vars(SliceStep(c))

FairSpec == Spec /\ Fairness

-------------------------------------------------------------------------------
(***************************************************************************)
(* Properties, besides OnePlace, NoStall and AnyPolicy of TwoDsq           *)
(***************************************************************************)
\* "bg_running: per-CPU flag indicating whether a background thread is running":
\* although running and stopping may classify one thread differently, no flag is
\* left behind on a CPU that runs no background thread; and a flag is missing only
\* for a thread that took its background name while it ran.
FlagTrusted == FlagsShow(bg, Tasks \ Renamers)

\* A foreground thread that wakes up with every CPU busy runs eventually, kicked
\* CPU or not: FOREGROUND_DSQ is first in, first out and drained first.
ForegroundServed ==
  \A t \in Tasks : (~bg[t] /\ tpc[t] \in {"scan", "age", "enq"}) ~> Executes(t)

\* A background thread waits for ever only if foreground threads keep queueing.
BackgroundServedWhenQuiet ==
  \A t \in Tasks :
    <>[](fgq = <<>>) => []((bg[t] /\ tpc[t] = "enq") => <>Executes(t))

\* "2ms minimum before preemption": when select_cpu decides to kick a CPU, at
\* least BG_MIN_RUN_NS have passed since the time stamp it compared with.
KickOnlyAged ==
  [][\A t \in Tasks : CheckAge(t, MaxCpus) /\ OldEnough(t)
       => clock - bg_start[wi[t]] >= BgMinRun]_vars

===============================================================================
