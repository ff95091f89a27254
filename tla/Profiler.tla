-------------------------------- MODULE Profiler --------------------------------
(***************************************************************************)
(* Stage 1c: three BPF probes, attached one after another, fill a hash map *)
(* with the run time, the sleep time and the calls of each thread; after a *)
(* while the main program reads the map entry by entry, and each entry     *)
(* field by field, with the probes still attached, and gives each thread a *)
(* role.                                                                   *)
(*                                                                         *)
(* The kernel is external: threads that run, block, are woken and are      *)
(* preempted, and a clock.  History: trueRun is what a thread really ran   *)
(* from the creation of its entry on, trueSleep and trueNet are the sleep  *)
(* that ended and the calls that were made since then with the probe for   *)
(* them attached; since is when the thread began to run or to be blocked,  *)
(* and begun is what the entry that is being copied had seen at the first. *)
(***************************************************************************)
EXTENDS Integers, FiniteSets, Functions

CONSTANTS
  Threads, Cpus,
  Callers,        \* the threads that make system calls and block; others compute
  Swapper,        \* the idle task, which has pid and tgid 0
  Proc, Name,     \* the tgid and the comm of a thread
  Pids,           \* what --pid may be; 0 where it is not given
  Matching,       \* the names that begin with --comm
  MaxEntries,     \* the size of the map, 4096
  NetHigh, NetLow, DiskLow,               \* 100, 50, 50 calls
  EventBurst, BatchBurst, CompactBurst,   \* 1, 2, 5 ms
  MaxClock, MaxCalls, MaxWakeups   \* bounds of the clock and, for each thread, of the
                                   \* calls of each kind and of the wakeups

ASSUME ProfilerAssumption ==
  /\ Swapper \notin Threads /\ Callers \subseteq Threads
  /\ Proc \in [Threads -> Nat \ {0}]
  /\ Pids \subseteq Nat
  /\ {MaxEntries, MaxClock, MaxCalls, MaxWakeups} \subseteq Nat /\ MaxClock > 0
  /\ {NetHigh, NetLow, DiskLow, EventBurst, BatchBurst, CompactBurst} \subseteq Nat

Roles == {"foreground", "background"}
Probes == {"sched_switch", "sched_wakeup", "sys_enter"}
Fields == {"run", "sleep", "wakeups", "network", "disk"}   \* those that classify_thread reads
Ends == {"done", "nodata", "error"}

VARIABLES
  cur, st, clock,               \* the kernel
  metrics, filter, attached,    \* the BPF maps and the probes
  phase, pid, seen, copy,       \* the main program; copy is what it has of an entry
  since, trueRun, trueSleep, trueNet, begun   \* history

kernelVars == <<cur, st, clock, since>>
mapVars == <<metrics, filter, attached>>
mainVars == <<phase, pid, seen, copy, begun>>
trueVars == <<trueRun, trueSleep, trueNet>>
vars == <<kernelVars, mapVars, mainVars, trueVars>>

TgidOf(t) == IF t = Swapper THEN 0 ELSE Proc[t]
CommOf(t) == IF t = Swapper THEN "swapper" ELSE Name[t]

thread_metrics ==
  [run: Nat, sleep: Nat, wakeups: 0..MaxWakeups, network: 0..MaxCalls, disk: 0..MaxCalls,
   last: Nat, tgid: Nat, comm: {CommOf(t) : t \in Threads \cup {Swapper}}]

Tracked == DOMAIN metrics
NoCopy == [f \in {} |-> 0]
NotBegun == [tid |-> Swapper, sleep |-> 0, network |-> 0]

TypeOK ==
  /\ cur \in [Cpus -> Threads \cup {Swapper}]
  /\ st \in [Threads -> {"ready", "running", "blocked"}]
  /\ since \in [Threads -> Nat]
  /\ clock \in 1..MaxClock
  /\ Tracked \subseteq Threads /\ Cardinality(Tracked) <= MaxEntries
  /\ \A t \in Tracked : metrics[t] \in thread_metrics
  /\ filter \in Pids \cup {0}
  /\ attached \subseteq Probes
  /\ phase \in {"start", "attaching", "profiling", "reading"} \cup Ends
  /\ pid \in Pids
  /\ seen \in [Threads -> Roles \cup {"unread", "skipped"}]
  /\ DOMAIN copy \subseteq Fields /\ \A f \in DOMAIN copy : copy[f] \in Nat
  /\ begun \in [tid: Threads \cup {Swapper}, sleep: Nat, network: Nat]
  /\ \A t \in Threads :
       {trueRun[t], trueSleep[t], trueNet[t]} \subseteq Nat

Init ==
  /\ cur = [c \in Cpus |-> Swapper]
  /\ st = [t \in Threads |-> "ready"]
  /\ since = [t \in Threads |-> 0]
  /\ clock = 1
  /\ metrics = [t \in {} |-> 0]
  /\ filter = 0 /\ attached = {}
  /\ phase = "start"
  /\ pid \in Pids
  /\ seen = [t \in Threads |-> "unread"]
  /\ copy = NoCopy /\ begun = NotBegun
  /\ trueRun = [t \in Threads |-> 0]
  /\ trueSleep = trueRun /\ trueNet = trueRun

-------------------------------------------------------------------------------
(***************************************************************************)
(* The probes                                                              *)
(***************************************************************************)
\* Whether a probe is called: it is attached, and the process it belongs to lives.
Sees(probe) == probe \in attached

should_trace(tgid) == filter = 0 \/ tgid = filter

\* Mutant: the time of the switch-in that began this stint is not looked at.
ChargedFromFirst(prev) ==
  IF prev \in Tracked THEN [metrics EXCEPT ![prev].run = clock - 1] ELSE metrics

\* What sched_switch makes of the entry of the thread that leaves.
Charged(prev) ==
  IF prev \in Tracked /\ metrics[prev].last > 0
  THEN [metrics EXCEPT ![prev].run = @ + (clock - metrics[prev].last)]
  ELSE metrics

\* Mutant: the idle task gets an entry, too.
NewEntryForIdle(prev, next) ==
  /\ next \notin Tracked
  /\ should_trace(TgidOf(prev))
  /\ Cardinality(Tracked) < MaxEntries

\* Whether it makes one for the thread that comes: the process it looks at is
\* that of the thread which leaves.
NewEntry(prev, next) ==
  /\ next \in Threads \ Tracked
  /\ should_trace(TgidOf(prev))
  /\ Cardinality(Tracked) < MaxEntries

Fresh(prev) ==
  [run |-> 0, sleep |-> 0, wakeups |-> 0, network |-> 0, disk |-> 0,
   last |-> clock, tgid |-> TgidOf(prev), comm |-> CommOf(prev)]

sched_switch(prev, next) ==
  LET m == Charged(prev)
  IN  metrics' = [t \in Tracked \cup (IF NewEntry(prev, next) THEN {next} ELSE {}) |->
                    IF t \notin Tracked THEN Fresh(prev)
                    ELSE IF t = next THEN [m[t] EXCEPT !.last = clock]
                    ELSE m[t]]

\* Mutant: sleep is what the thread ran, not the time until it was woken.
sched_wakeupNoSleep(t) ==
  metrics' = IF t \notin Tracked THEN metrics ELSE [metrics EXCEPT ![t].wakeups = @ + 1]

\* last is the time of the switch-in, not of the switch-out.
sched_wakeup(t) ==
  metrics' = IF t \notin Tracked THEN metrics
             ELSE [metrics EXCEPT ![t].wakeups = @ + 1,
                     ![t].sleep = @ + (IF metrics[t].last > 0
                                       THEN clock - metrics[t].last ELSE 0)]

\* Mutant: an entry is required to bear the tgid of the thread that calls.
sys_enterOwned(t, kind) ==
  metrics' = IF should_trace(Proc[t]) /\ t \in Tracked /\ metrics[t].tgid = Proc[t]
             THEN IF kind = "network" THEN [metrics EXCEPT ![t].network = @ + 1]
                                      ELSE [metrics EXCEPT ![t].disk = @ + 1]
             ELSE metrics

sys_enter(t, kind) ==
  metrics' = IF should_trace(Proc[t]) /\ t \in Tracked
             THEN IF kind = "network" THEN [metrics EXCEPT ![t].network = @ + 1]
                                      ELSE [metrics EXCEPT ![t].disk = @ + 1]
             ELSE metrics

-------------------------------------------------------------------------------
(***************************************************************************)
(* The kernel, which calls the probes                                      *)
(***************************************************************************)
Tick ==
  /\ clock < MaxClock
  /\ clock' = clock + 1
  /\ UNCHANGED <<cur, st, since, mapVars, mainVars, trueVars>>

\* CPU c goes from its thread, which blocks or is preempted, to another.
Switch(c, next, left) ==
  LET prev == cur[c]
  IN  /\ next # prev
      /\ next \in {Swapper} \cup {t \in Threads : st[t] = "ready"}
      /\ cur' = [cur EXCEPT ![c] = next]
      /\ st' = [t \in Threads |-> IF t = prev THEN left
                                  ELSE IF t = next THEN "running" ELSE st[t]]
      /\ IF Sees("sched_switch") THEN sched_switch(prev, next) ELSE UNCHANGED metrics
      /\ since' = [t \in Threads |->
                     IF t = next \/ (t = prev /\ left = "blocked")
                     THEN IF t \in DOMAIN metrics' THEN clock ELSE 0
                     ELSE IF t = prev THEN 0 ELSE since[t]]
      /\ trueRun' = IF prev \in Tracked
                    THEN [trueRun EXCEPT ![prev] = @ + (clock - since[prev])]
                    ELSE trueRun
      /\ UNCHANGED <<clock, filter, attached, mainVars, trueSleep, trueNet>>

Wakeup(t) ==
  /\ st[t] = "blocked"
  /\ t \in Tracked => metrics[t].wakeups < MaxWakeups
  /\ st' = [st EXCEPT ![t] = "ready"]
  /\ since' = [since EXCEPT ![t] = 0]
  /\ IF Sees("sched_wakeup") THEN sched_wakeup(t) ELSE UNCHANGED metrics
  /\ trueSleep' = IF t \in Tracked /\ Sees("sched_wakeup")
                  THEN [trueSleep EXCEPT ![t] = @ + (clock - since[t])]
                  ELSE trueSleep
  /\ UNCHANGED <<cur, clock, filter, attached, mainVars, trueRun, trueNet>>

\* Or, while it is about to block and still on its CPU, it just goes on.
WakeupEarly(t) ==
  /\ st[t] = "running"
  /\ t \in Tracked => metrics[t].wakeups < MaxWakeups
  /\ IF Sees("sched_wakeup") THEN sched_wakeup(t) ELSE UNCHANGED metrics
  /\ UNCHANGED <<kernelVars, filter, attached, mainVars, trueVars>>

Syscall(t, kind) ==
  /\ st[t] = "running"
  /\ t \in Tracked => IF kind = "network" THEN trueNet[t] < MaxCalls
                                           ELSE metrics[t].disk < MaxCalls
  /\ IF Sees("sys_enter") THEN sys_enter(t, kind) ELSE UNCHANGED metrics
  /\ trueNet' = IF t \in Tracked /\ kind = "network" /\ Sees("sys_enter")
                THEN [trueNet EXCEPT ![t] = @ + 1] ELSE trueNet
  /\ UNCHANGED <<kernelVars, filter, attached, mainVars, trueRun, trueSleep>>

Kernel ==
  \/ Tick
  \/ \E c \in Cpus, n \in Threads \cup {Swapper}, left \in {"ready", "blocked"} :
       (left = "blocked" => cur[c] \in Callers) /\ Switch(c, n, left)
  \/ \E t \in Threads : Wakeup(t)
  \/ \E t \in Callers : WakeupEarly(t)
  \/ \E t \in Callers, k \in {"network", "disk"} : Syscall(t, k)

-------------------------------------------------------------------------------
(***************************************************************************)
(* The main program                                                        *)
(***************************************************************************)
\* sleep_ratio > a / 10, for a thread that ran and slept these times.
SleepsMore(run, sleep, a) == 10 * sleep > a * (run + sleep)
SleepsLess(run, sleep, a) == 10 * sleep < a * (run + sleep)

\* Mutant: the rules for background threads come first.
classifyBatchFirst(m) ==
  IF m.wakeups > 0 /\ m.run > BatchBurst * m.wakeups /\ m.disk > DiskLow
  THEN "background" ELSE "foreground"

classify_thread(m) ==
  IF \/ m.run + m.sleep = 0 \/ m.wakeups = 0                                   \* idle
     \/ /\ SleepsMore(m.run, m.sleep, 8) /\ m.network > NetHigh                \* event_loop
        /\ m.run < EventBurst * m.wakeups
     \/ SleepsMore(m.run, m.sleep, 5) /\ m.network > NetLow                    \* io_worker
  THEN "foreground"
  ELSE IF \/ m.run > BatchBurst * m.wakeups /\ m.disk > DiskLow                \* cpu_batch
          \/ m.run > CompactBurst * m.wakeups /\ SleepsLess(m.run, m.sleep, 3) \* compaction
  THEN "background"
  ELSE "foreground"                                                            \* unknown

\* Bad arguments, no root or no BCC; else the program is compiled and loaded.
Start ==
  /\ phase = "start"
  /\ phase' \in {"error", "attaching"}
  /\ (pid = 0 /\ Matching = {}) => phase' = "error"
  /\ UNCHANGED <<kernelVars, mapVars, pid, seen, copy, begun, trueVars>>

\* BPF() attaches one probe after another, and each is live at once.
Attach ==
  /\ phase = "attaching"
  /\ \E p \in Probes \ attached : attached' = attached \cup {p}
  /\ UNCHANGED <<kernelVars, metrics, filter, mainVars, trueVars>>

SetFilter ==
  /\ phase = "attaching" /\ attached = Probes
  /\ phase' = "profiling"
  /\ filter' = IF pid > 0 THEN pid ELSE filter
  /\ UNCHANGED <<kernelVars, metrics, attached, pid, seen, copy, begun, trueVars>>

\* The duration has passed, or SIGINT came.
StopProfiling ==
  /\ phase = "profiling"
  /\ phase' = "reading"
  /\ UNCHANGED <<kernelVars, mapVars, pid, seen, copy, begun, trueVars>>

\* The iteration comes to an entry, which the kernel copies out field by field, in no
\* given order, while the probes go on writing to it.
BeginEntry(t) ==
  /\ phase = "reading" /\ begun.tid = Swapper
  /\ t \in Tracked /\ seen[t] = "unread"
  /\ begun' = [tid |-> t, sleep |-> trueSleep[t], network |-> trueNet[t]]
  /\ UNCHANGED <<kernelVars, mapVars, phase, pid, seen, copy, trueVars>>

CopyField(f) ==
  /\ phase = "reading" /\ begun.tid \in Tracked
  /\ f \notin DOMAIN copy
  /\ copy' = [g \in DOMAIN copy \cup {f} |->
               IF g = f THEN metrics[begun.tid][f] ELSE copy[g]]
  /\ UNCHANGED <<kernelVars, mapVars, phase, pid, seen, begun, trueVars>>

\* The comm of an entry never changes.
ReadEntry(t) ==
  /\ phase = "reading" /\ t = begun.tid /\ DOMAIN copy = Fields
  /\ seen' = [seen EXCEPT ![t] =
       IF \/ pid = 0 /\ metrics[t].comm \notin Matching
          \/ copy.run = 0 /\ copy.wakeups = 0
       THEN "skipped" ELSE classify_thread(copy)]
  /\ copy' = NoCopy /\ begun' = NotBegun
  /\ UNCHANGED <<kernelVars, mapVars, phase, pid, trueVars>>

\* Mutant: it waits for every thread to be in the map.
FinishAll ==
  /\ phase = "reading" /\ \A t \in Threads : seen[t] # "unread"
  /\ phase' = "done"
  /\ UNCHANGED <<kernelVars, mapVars, pid, seen, copy, begun, trueVars>>

Finish ==
  /\ phase = "reading" /\ \A t \in Tracked : seen[t] # "unread"
  /\ phase' = IF \E t \in Threads : seen[t] \in Roles THEN "done" ELSE "nodata"
  /\ UNCHANGED <<kernelVars, mapVars, pid, seen, copy, begun, trueVars>>

\* The kernel refuses a probe, or SIGINT comes while no handler for it is installed.
Fail ==
  /\ phase \in {"attaching", "reading"}
  /\ phase' = "error" /\ copy' = NoCopy /\ begun' = NotBegun
  /\ UNCHANGED <<kernelVars, mapVars, pid, seen, trueVars>>

Main ==
  \/ Start \/ Attach \/ SetFilter \/ StopProfiling \/ Finish
  \/ \E t \in Threads : BeginEntry(t) \/ ReadEntry(t)
  \/ \E f \in Fields : CopyField(f)

Stopped == phase \in Ends /\ UNCHANGED vars

Next == (phase \notin Ends /\ Kernel) \/ Main \/ Fail \/ Stopped

Spec == Init /\ [][Next]_vars

\* The main program is a process that the kernel runs; the threads are under no
\* obligation.
FairSpec == Spec /\ WF_vars(Main)

-------------------------------------------------------------------------------
(***************************************************************************)
(* Properties                                                              *)
(***************************************************************************)
\* total_run_ns is the time a thread has really been on a CPU since its entry was
\* made, the present stint left out, whichever probes ran in between: the handler
\* keeps the time of the switch-in although a wakeup may come before the switch-out.
RunIsExact == \A t \in Tracked : metrics[t].run = trueRun[t]

\* total_sleep_ns never falls short of the time the thread was blocked, but for what
\* ended before sched_wakeup was attached: measuring from the switch-in can only add to it.
SleepIsEnough == \A t \in Tracked : metrics[t].sleep >= trueSleep[t]

\* Network calls, those of the code's list (without read and write, which its comment
\* names as well), are counted for the thread that makes them, though its entry may bear
\* another name; none of a profiled thread's is lost once sys_enter is attached, and those
\* of other processes are counted only until the filter is set.
CallsAreCounted ==
  \A t \in Tracked :
    /\ metrics[t].network <= trueNet[t]
    /\ Proc[t] = pid \/ pid = 0 => metrics[t].network = trueNet[t]

\* A thread that is being profiled is not reported as background if it has slept more than
\* half of its time and made enough network calls, counting its run time to the end and of
\* its sleep and its calls only what the probes could see before its entry began to be
\* copied: neither sleep measured from the wrong end nor an entry torn by probes that write
\* between two fields makes it look busier ("safe - don't deprioritize unknown threads").
NoInteractiveDemoted ==
  [][\A t \in Threads :
       /\ seen[t] = "unread" /\ seen'[t] = "background"
       /\ Proc[t] = pid \/ pid = 0
       => ~(SleepsMore(trueRun[t], begun.sleep, 5) /\ begun.network > NetLow)]_vars

\* The map is read to its end although the probes go on adding to it.
ProfileEnds == <>(phase \in Ends)

\* A thread is reported under its own name (refuted: sched_switch runs in the context
\* of the thread that leaves and stores the comm of that one).
OwnName ==
  \A t \in Threads : seen[t] \in Roles => metrics[t].comm = Name[t]

===============================================================================
