------------------------------- MODULE BgPreempt -------------------------------
(***************************************************************************)
(* What redis_aware, rocksdb_aware and nginx_aware have in common: the     *)
(* per-CPU maps bg_running and bg_start_ns, the scan of these maps by the  *)
(* wake-up of a foreground thread that finds no idle CPU, the kick, and    *)
(* the callbacks running and stopping that keep the maps.  How a thread is *)
(* classified differs; here the class is an argument.                      *)
(*                                                                         *)
(* No lock protects the maps, so a callback that makes several accesses is *)
(* split wherever another CPU can come in between.  Slice lengths and CPU  *)
(* affinity are not modelled; nanoseconds are ticks of `clock'.            *)
(***************************************************************************)
EXTENDS TwoDsq

CONSTANTS
  MaxCpus,    \* MAX_CPUS, the length of the two arrays
  BgMinRun,   \* BG_MIN_RUN_NS
  TimeMod,    \* 2^64: bpf_ktime_get_ns() and its differences are u64
  MaxClock    \* bound of the model: the clock stops there

ASSUME PreemptAssumption ==
  /\ MaxCpus \in Nat \ {0}
  /\ BgMinRun \in Nat
  /\ TimeMod \in Nat \ {0}
  /\ MaxClock \in Nat /\ MaxClock < TimeMod

Slots == 0 .. MaxCpus - 1   \* the keys of the two arrays
Times == 0 .. MaxClock

VARIABLES
  bg_running,  \* the flag array
  bg_start,    \* bg_start_ns, the time-stamp array
  wnow,        \* `now' of the select_cpu running for a task
  wi,          \* its loop index i, a slot it looks at
  kick,        \* the CPUs it asked to kick, until the kick is delivered
  rnow,        \* `now' of the running callback in progress on a CPU
  clock        \* bpf_ktime_get_ns()

mapVars == <<bg_running, bg_start>>
scanVars == <<wnow, wi>>
preemptVars == <<mapVars, scanVars, kick, rnow, clock>>

PreemptTypeOK ==
  /\ bg_running \in [Slots -> BOOLEAN]
  /\ bg_start \in [Slots -> Times]
  /\ wnow \in [Tasks -> Times]
  /\ wi \in [Tasks -> Slots]
  /\ kick \in [Tasks -> SUBSET CPUs]
  /\ rnow \in [CPUs -> Times]
  /\ clock \in Times

\* BPF arrays start zeroed.
PreemptInit ==
  /\ bg_running = [i \in Slots |-> FALSE]
  /\ bg_start = [i \in Slots |-> 0]
  /\ wnow = [t \in Tasks |-> 0]
  /\ wi = [t \in Tasks |-> 0]
  /\ kick = [t \in Tasks |-> {}]
  /\ rnow = [c \in CPUs |-> 0]
  /\ clock = 0

-------------------------------------------------------------------------------
(***************************************************************************)
(* select_cpu                                                              *)
(***************************************************************************)
\* u64 subtraction.
Elapsed(now, start) == (now - start) % TimeMod

\* The idle fast path: insert into the local DSQ of the claimed CPU and return.
SelectIdle(t) == WakeIdle(t) /\ UNCHANGED preemptVars

\* No CPU is idle: a thread that may preempt reads the clock and starts to scan,
\* any other returns prev_cpu.
SelectBusy(t, mayPreempt) ==
  /\ WakeBusy(t, IF mayPreempt THEN "scan" ELSE "enq")
  /\ wnow' = [wnow EXCEPT ![t] = IF mayPreempt THEN clock ELSE 0]
  /\ wi' = [wi EXCEPT ![t] = 0]
  /\ UNCHANGED <<mapVars, kick, rnow, clock>>

\* select_cpu returns; its locals are gone.
EndScan(t) ==
  /\ ScanStep(t, "enq")
  /\ wnow' = [wnow EXCEPT ![t] = 0]
  /\ wi' = [wi EXCEPT ![t] = 0]

\* Mutant: the loop bound is inclusive.
NextSlotInclusive(t, limit) ==
  \/ /\ wi[t] < limit
     /\ ScanStep(t, "scan")
     /\ wi' = [wi EXCEPT ![t] = @ + 1]
     /\ UNCHANGED wnow
  \/ /\ wi[t] = limit
     /\ EndScan(t)

\* bpf_for goes to the next slot below its limit, or ends.
NextSlot(t, limit) ==
  \/ /\ wi[t] + 1 < limit
     /\ ScanStep(t, "scan")
     /\ wi' = [wi EXCEPT ![t] = @ + 1]
     /\ UNCHANGED wnow
  \/ /\ wi[t] + 1 >= limit
     /\ EndScan(t)

\* One read of bg_running[i].
ScanFlag(t, limit) ==
  /\ tpc[t] = "scan"
  /\ \/ /\ bg_running[wi[t]]
        /\ ScanStep(t, "age")
        /\ UNCHANGED scanVars
     \/ /\ ~bg_running[wi[t]]
        /\ NextSlot(t, limit)
  /\ UNCHANGED <<mapVars, kick, rnow, clock>>

\* The age test on bg_start_ns[i], with the `now' read before the loop.
OldEnough(t) == Elapsed(wnow[t], bg_start[wi[t]]) >= BgMinRun

\* One read of bg_start_ns[i]; the first CPU old enough is kicked.
CheckAge(t, limit) ==
  /\ tpc[t] = "age"
  /\ \/ /\ OldEnough(t)
        /\ kick' = [kick EXCEPT ![t] = @ \cup {wi[t]}]
        /\ EndScan(t)
     \/ /\ ~OldEnough(t)
        /\ NextSlot(t, limit)
        /\ UNCHANGED kick
  /\ UNCHANGED <<mapVars, rnow, clock>>

\* The kick is irq_work of the waking CPU: it runs once the wake-up is over.
DeliverKick(t) ==
  /\ tpc[t] \notin {"scan", "age", "enq"}
  /\ \E c \in kick[t] : Preempt(c) /\ kick' = [kick EXCEPT ![t] = @ \ {c}]
  /\ UNCHANGED <<mapVars, scanVars, rnow, clock>>

-------------------------------------------------------------------------------
(***************************************************************************)
(* enqueue                                                                 *)
(***************************************************************************)
\* Mutant: the background branch falls through to the foreground one.
EnqueueFallsThrough(t, background) ==
  /\ bgq' = IF background THEN Append(bgq, t) ELSE bgq
  /\ fgq' = Append(fgq, t)

\* Mutant: a thread that is not background is not inserted anywhere.
EnqueueBackgroundOnly(t, background) ==
  \/ background /\ InsertBackground(t)
  \/ ~background /\ UNCHANGED dsqVars

enqueue(t, background) ==
  \/ background /\ InsertBackground(t)
  \/ ~background /\ InsertForeground(t)

\* The wake-up reaches ops.enqueue.
EnqueueWoken(t, background) ==
  /\ ActivateShared(t)
  /\ enqueue(t, background)
  /\ UNCHANGED preemptVars

\* The wake-up was directly dispatched and skips ops.enqueue.
EnqueueDirect(t) == ActivateLocal(t) /\ UNCHANGED preemptVars

-------------------------------------------------------------------------------
(***************************************************************************)
(* running and stopping                                                    *)
(***************************************************************************)
\* Mutant: stopping leaves the flag set.
StoppingKeepsFlag(background, c) == UNCHANGED bg_running

\* stopping(p): a background thread clears the flag of its CPU.  An index past
\* the array makes this update, and those of running, fail without effect.
stopping(background, c) ==
  bg_running' = [i \in Slots |-> IF background /\ i = c THEN FALSE ELSE bg_running[i]]

\* The current task blocks: stopping(p, runnable = false).
TaskBlocks(c, background) ==
  /\ Block(c)
  /\ stopping(background, c)
  /\ UNCHANGED <<bg_start, scanVars, kick, rnow, clock>>

\* prev is put back: stopping(p, runnable = true) and then enqueue.  One that has
\* blocked, or the idle task, is not.
PutPrevTask(c, background) ==
  /\ PutPrev(c)
  /\ \/ PrevRunnable(c) /\ stopping(background, c) /\ enqueue(curr[c], background)
     \/ ~PrevRunnable(c) /\ UNCHANGED <<bg_running, dsqVars>>
  /\ UNCHANGED <<bg_start, scanVars, kick, rnow, clock>>

\* The next task is switched to; for a background one, running reads the clock
\* and makes its first store, the flag.
StartNext(c, background) ==
  /\ SetNext(c, IF background THEN "running" ELSE "run")
  /\ bg_running' = [i \in Slots |-> IF background /\ i = c THEN TRUE ELSE bg_running[i]]
  /\ rnow' = [rnow EXCEPT ![c] = IF background THEN clock ELSE 0]
  /\ UNCHANGED <<bg_start, scanVars, kick, clock>>

\* The second store of running: the time stamp.
StampStart(c) ==
  /\ RunningDone(c)
  /\ bg_start' = [i \in Slots |-> IF i = c THEN rnow[c] ELSE bg_start[i]]
  /\ rnow' = [rnow EXCEPT ![c] = 0]
  /\ UNCHANGED <<bg_running, scanVars, kick, clock>>

-------------------------------------------------------------------------------
\* The rest of the machine.
BalanceCpu(c) == Balance(c) /\ UNCHANGED preemptVars
SliceEnds(c) == SliceExpires(c) /\ UNCHANGED preemptVars

TimePasses ==
  /\ clock < MaxClock
  /\ clock' = clock + 1
  /\ UNCHANGED <<coreVars, dsqVars, mapVars, scanVars, kick, rnow>>

\* c has a current task that ops.running has seen and ops.stopping has not.
BetweenCallbacks(c) ==
  /\ PrevRunnable(c)
  /\ cpc[c] \in {"run", "running", "dispatch", "dispatchBg", "recheck", "put"}

\* A slot is set only while its CPU runs a task of which `background' is TRUE, and
\* is set while it runs one of those in `firm'.
FlagsShow(background, firm) ==
  \A c \in CPUs \cap Slots :
    /\ bg_running[c] => BetweenCallbacks(c) /\ background[curr[c]]
    /\ BetweenCallbacks(c) /\ curr[c] \in firm /\ background[curr[c]] => bg_running[c]

===============================================================================
