----------------------------- MODULE Profiler_proofs -----------------------------
(***************************************************************************)
(* What the map of the profiler says of a thread agrees with what the      *)
(* thread has done, for any number of threads, processes and CPUs and any  *)
(* size of the map, whatever the thresholds; and therefore no interactive  *)
(* thread is taken for a background one.                                   *)
(***************************************************************************)
EXTENDS Profiler, FiniteSetTheorems, TLAPS

-------------------------------------------------------------------------------
(***************************************************************************)
(* The inductive invariant.                                                *)
(***************************************************************************)
MachineTypeOK ==
  /\ cur \in [Cpus -> Threads \cup {Swapper}]
  /\ st \in [Threads -> {"ready", "running", "blocked"}]
  /\ since \in [Threads -> Nat]
  /\ clock \in 1..MaxClock
  /\ \A t \in Threads : since[t] <= clock

MapTypeOK ==
  /\ Tracked \subseteq Threads
  /\ metrics \in [Tracked -> thread_metrics]
  /\ trueRun \in [Threads -> Nat]
  /\ trueSleep \in [Threads -> Nat]
  /\ trueNet \in [Threads -> Nat]

\* A filter, once set, is --pid, and nothing is tracked before sched_switch is attached.
MainTypeOK ==
  /\ phase \in {"start", "attaching", "profiling", "reading"} \cup Ends
  /\ pid \in Pids /\ filter \in {0, pid}
  /\ seen \in [Threads -> Roles \cup {"unread", "skipped"}]
  /\ attached \subseteq Probes
  /\ "sched_switch" \notin attached => Tracked = {}

\* A thread on a CPU is running there and nowhere else.
OneCpu ==
  \A c \in Cpus : cur[c] \in Threads =>
    /\ st[cur[c]] = "running"
    /\ \A d \in Cpus : cur[d] = cur[c] => d = c

\* The entry of t: last is when its stint on the CPU began, and a thread that is blocked
\* has been so since a later time.
EntryAgrees(t) ==
  /\ metrics[t].last \in 1..clock
  /\ st[t] = "running" => since[t] = metrics[t].last
  /\ st[t] = "blocked" => since[t] >= metrics[t].last
  /\ metrics[t].run = trueRun[t]
  /\ metrics[t].sleep >= trueSleep[t]
  /\ metrics[t].network <= trueNet[t]
  /\ Proc[t] = pid \/ pid = 0 => metrics[t].network = trueNet[t]

\* The history of a thread begins with its entry.
NoHistory(t) ==
  /\ trueRun[t] = 0 /\ trueSleep[t] = 0 /\ trueNet[t] = 0

Agreement ==
  /\ \A t \in Tracked : EntryAgrees(t)
  /\ \A t \in Threads \ Tracked : NoHistory(t)

ProfileInv == MachineTypeOK /\ MapTypeOK /\ MainTypeOK /\ OneCpu /\ Agreement

MapBounded == IsFiniteSet(Tracked) /\ Cardinality(Tracked) <= MaxEntries

-------------------------------------------------------------------------------
(***************************************************************************)
(* The probes.                                                             *)
(***************************************************************************)
\* sched_switch brings the entry of the thread that leaves up to date, notes the time in
\* that of the thread that comes or makes one for it, and touches no other.
LEMMA SwitchedEntries ==
  ASSUME MapTypeOK, Agreement, NEW prev, NEW next, next # prev,
         sched_switch(prev, next)
  PROVE  /\ Tracked' = Tracked \cup (IF NewEntry(prev, next) THEN {next} ELSE {})
         /\ metrics' \in [Tracked' -> {metrics'[t] : t \in Tracked'}]
         /\ \A t \in Tracked \ {prev, next} : metrics'[t] = metrics[t]
         /\ prev \in Tracked =>
              metrics'[prev] = [metrics[prev] EXCEPT !.run = @ + (clock - metrics[prev].last)]
         /\ next \in Tracked => metrics'[next] = [metrics[next] EXCEPT !.last = clock]
         /\ \A t \in Tracked' \ Tracked : t = next /\ metrics'[t] = Fresh(prev)
<1> DEFINE Grown == Tracked \cup (IF NewEntry(prev, next) THEN {next} ELSE {})
<1>1. metrics' = [t \in Grown |->
                    IF t \notin Tracked THEN Fresh(prev)
                    ELSE IF t = next THEN [Charged(prev)[t] EXCEPT !.last = clock]
                    ELSE Charged(prev)[t]]
  BY DEF sched_switch
<1> HIDE DEF Grown
<1>2. Tracked' = Grown
  BY <1>1 DEF Tracked
<1>3. \A t \in Tracked : t \in Grown
  BY DEF Grown
<1>4. \A t \in Tracked : metrics[t].last > 0
  BY DEF Agreement, EntryAgrees, MapTypeOK, thread_metrics
<1>5. \A t \in Tracked \ {prev} : Charged(prev)[t] = metrics[t]
  BY DEF Charged, MapTypeOK
<1>6. prev \in Tracked =>
        Charged(prev)[prev] = [metrics[prev] EXCEPT !.run = @ + (clock - metrics[prev].last)]
  BY <1>4 DEF Charged, MapTypeOK
<1>7. \A t \in Tracked' \ Tracked : t = next
  BY <1>2 DEF Grown
<1> QED
  BY <1>1, <1>2, <1>3, <1>5, <1>6, <1>7 DEF Grown

\* sched_wakeup counts the wakeup of a thread that has an entry and adds the time since it
\* was switched in.
LEMMA WokenEntries ==
  ASSUME MapTypeOK, Agreement, NEW t, sched_wakeup(t)
  PROVE  metrics' = [u \in Tracked |->
           IF u = t THEN [metrics[u] EXCEPT !.wakeups = @ + 1,
                                            !.sleep = @ + (clock - metrics[u].last)]
           ELSE metrics[u]]
<1>1. CASE t \notin Tracked
  BY <1>1 DEF sched_wakeup, MapTypeOK
<1>2. CASE t \in Tracked
  <2>1. metrics[t].last > 0
    BY <1>2 DEF Agreement, EntryAgrees, MapTypeOK, thread_metrics
  <2> QED
    BY <1>2, <2>1 DEF sched_wakeup, MapTypeOK, thread_metrics
<1> QED
  BY <1>1, <1>2

\* The probes of the system calls count a call of a thread that has an entry.
LEMMA CalledEntries ==
  ASSUME MapTypeOK, NEW t, NEW kind \in {"network", "disk"}, sys_enter(t, kind)
  PROVE  metrics' = [u \in Tracked |->
           IF u # t \/ ~should_trace(Proc[t]) THEN metrics[u]
           ELSE IF kind = "network" THEN [metrics[u] EXCEPT !.network = @ + 1]
                                    ELSE [metrics[u] EXCEPT !.disk = @ + 1]]
BY DEF sys_enter, MapTypeOK, thread_metrics

-------------------------------------------------------------------------------
(***************************************************************************)
(* The invariant holds at first, and each action preserves it.             *)
(***************************************************************************)
LEMMA ProfileInit ==
  ASSUME Init
  PROVE  ProfileInv
BY ProfilerAssumption
DEF Init, ProfileInv, MachineTypeOK, MapTypeOK, MainTypeOK, OneCpu, Agreement, NoHistory,
    Tracked, Roles, Ends, Probes

LEMMA TickKeeps ==
  ASSUME ProfileInv, Tick
  PROVE  ProfileInv'
<1> USE DEF Tick, mapVars, mainVars, trueVars, ProfileInv
<1>0. MaxClock \in Nat
  BY ProfilerAssumption DEF ProfilerAssumption
<1>1. MachineTypeOK'
  BY <1>0 DEF MachineTypeOK
<1>3. MapTypeOK' /\ MainTypeOK' /\ OneCpu'
  BY DEF MapTypeOK, MainTypeOK, OneCpu, Tracked, thread_metrics
<1>2. Agreement'
  BY <1>0 DEF MachineTypeOK, MapTypeOK, Agreement, EntryAgrees, NoHistory, Tracked, thread_metrics
<1> QED
  BY <1>1, <1>2, <1>3

\* What the main program does leaves the kernel, the entries and the history alone.
LEMMA MainKeeps ==
  ASSUME ProfileInv, UNCHANGED <<kernelVars, metrics, trueVars>>, MainTypeOK',
         filter' \in {0, pid}, pid' = pid
  PROVE  ProfileInv'
BY DEF ProfileInv, MachineTypeOK, MapTypeOK, OneCpu, Agreement, EntryAgrees, NoHistory,
       Tracked, kernelVars, trueVars

\* sched_switch is attached, or the map is still empty.
LEMMA SwitchesSeenOrNothing ==
  ASSUME MainTypeOK
  PROVE  Sees("sched_switch") \/ Tracked = {}
BY DEF MainTypeOK, Sees

\* What a wakeup makes of the map, whether or not its probe is attached.
LEMMA WokenMap ==
  ASSUME ProfileInv, NEW t \in Threads,
         t \in Tracked => metrics[t].wakeups < MaxWakeups,
         IF Sees("sched_wakeup") THEN sched_wakeup(t) ELSE UNCHANGED metrics
  PROVE  /\ metrics' = [u \in Tracked |->
              IF u = t /\ Sees("sched_wakeup")
              THEN [metrics[u] EXCEPT !.wakeups = @ + 1,
                                      !.sleep = @ + (clock - metrics[u].last)]
              ELSE metrics[u]]
         /\ Tracked' = Tracked
         /\ metrics' \in [Tracked -> thread_metrics]
<1> USE DEF ProfileInv
<1>1. metrics' = [u \in Tracked |->
        IF u = t /\ Sees("sched_wakeup")
        THEN [metrics[u] EXCEPT !.wakeups = @ + 1,
                                !.sleep = @ + (clock - metrics[u].last)]
        ELSE metrics[u]]
  <2>1. CASE Sees("sched_wakeup")
    <3>0. sched_wakeup(t) /\ MapTypeOK /\ Agreement
      BY <2>1
    <3>1. metrics' = [u \in Tracked |->
            IF u = t THEN [metrics[u] EXCEPT !.wakeups = @ + 1,
                                             !.sleep = @ + (clock - metrics[u].last)]
            ELSE metrics[u]]
      BY <3>0, WokenEntries
    <3>2. \A u \in Tracked : (u = t /\ Sees("sched_wakeup")) <=> u = t
      BY <2>1
    <3> HIDE DEF ProfileInv
    <3> QED
      BY <3>1, <3>2, Zenon
  <2>2. CASE ~Sees("sched_wakeup")
    BY <2>2 DEF MapTypeOK
  <2> QED
    BY <2>1, <2>2
<1>2. Tracked' = Tracked
  BY <1>1 DEF Tracked
<1>3. MaxWakeups \in Nat /\ clock \in Nat
  BY ProfilerAssumption DEF ProfilerAssumption, MachineTypeOK
<1>4. ASSUME NEW u \in Tracked
      PROVE  metrics'[u] \in thread_metrics
  <2>1. metrics'[u] = IF u = t /\ Sees("sched_wakeup")
                      THEN [metrics[u] EXCEPT !.wakeups = @ + 1,
                                              !.sleep = @ + (clock - metrics[u].last)]
                      ELSE metrics[u]
    BY <1>1
  <2>2. metrics[u] \in thread_metrics /\ clock - metrics[u].last \in Nat
    BY <1>3 DEF MapTypeOK, Agreement, EntryAgrees, thread_metrics
  <2>3. u = t => /\ metrics[u].wakeups + 1 \in 0..MaxWakeups
                 /\ metrics[u].sleep + (clock - metrics[u].last) \in Nat
    BY <1>3, <2>2 DEF thread_metrics
  <2> QED
    BY <2>1, <2>2, <2>3 DEF thread_metrics
<1> QED
  BY <1>1, <1>2, <1>4

\* A wakeup whose probe is attached adds to the entry at least what the thread has slept;
\* one whose probe is not yet attached changes nothing.
LEMMA WakeupKeeps ==
  ASSUME ProfileInv, NEW t \in Threads, Wakeup(t)
  PROVE  ProfileInv'
<1> USE DEF ProfileInv
<1> DEFINE slept == clock - since[t]
<1>1. /\ st[t] = "blocked" /\ st' = [st EXCEPT ![t] = "ready"]
      /\ since' = [since EXCEPT ![t] = 0]
      /\ t \in Tracked => metrics[t].wakeups < MaxWakeups
      /\ IF Sees("sched_wakeup") THEN sched_wakeup(t) ELSE UNCHANGED metrics
      /\ trueSleep' = IF t \in Tracked /\ Sees("sched_wakeup")
                      THEN [trueSleep EXCEPT ![t] = @ + slept] ELSE trueSleep
      /\ UNCHANGED <<cur, clock, filter, attached, phase, pid, seen, trueRun, trueNet>>
  BY DEF Wakeup, mainVars
<1>2. /\ metrics' = [u \in Tracked |->
           IF u = t /\ Sees("sched_wakeup")
           THEN [metrics[u] EXCEPT !.wakeups = @ + 1,
                                   !.sleep = @ + (clock - metrics[u].last)]
           ELSE metrics[u]]
      /\ Tracked' = Tracked /\ metrics' \in [Tracked -> thread_metrics]
  BY <1>1, WokenMap
<1>3. MachineTypeOK' /\ slept \in Nat
  BY <1>1 DEF MachineTypeOK
<1>4. trueSleep' \in [Threads -> Nat]
  BY <1>1, <1>3 DEF MapTypeOK
<1>5. MapTypeOK'
  BY <1>1, <1>2, <1>4 DEF MapTypeOK, thread_metrics
<1>6. MainTypeOK' /\ OneCpu'
  BY <1>1, <1>2 DEF MainTypeOK, OneCpu, MachineTypeOK
<1>7. ASSUME NEW u \in Tracked
      PROVE  EntryAgrees(u)'
  <2>1. EntryAgrees(u) /\ u \in Threads /\ metrics[u] \in thread_metrics
    BY DEF Agreement, MapTypeOK
  <2>2. CASE u = t /\ Sees("sched_wakeup")
    <3>1. metrics'[t] = [metrics[t] EXCEPT !.wakeups = @ + 1,
                                           !.sleep = @ + (clock - metrics[t].last)]
      BY <1>2, <2>2
    <3>2. /\ st'[t] = "ready" /\ trueSleep'[t] = trueSleep[t] + slept
          /\ slept <= clock - metrics[t].last
      BY <1>1, <2>1, <2>2 DEF MachineTypeOK, MapTypeOK, EntryAgrees, thread_metrics
    <3> HIDE DEF slept
    <3> QED
      BY <1>1, <1>3, <2>1, <2>2, <3>1, <3>2
      DEF EntryAgrees, thread_metrics, MachineTypeOK, MapTypeOK
  <2>3. CASE u = t /\ ~Sees("sched_wakeup")
    <3>1. /\ metrics'[t] = metrics[t] /\ st'[t] = "ready"
          /\ trueSleep'[t] = trueSleep[t]
      BY <1>1, <1>2, <2>3 DEF MachineTypeOK, MapTypeOK
    <3> HIDE DEF slept
    <3> QED
      BY <1>1, <1>3, <2>1, <2>3, <3>1 DEF EntryAgrees, thread_metrics, MachineTypeOK, MapTypeOK
  <2>4. CASE u # t
    BY <1>1, <1>2, <2>1, <2>4 DEF EntryAgrees, MachineTypeOK, MapTypeOK
  <2> QED
    BY <2>2, <2>3, <2>4
<1>8. Agreement'
  <2>1. \A u \in Threads \ Tracked : trueSleep'[u] = trueSleep[u]
    BY <1>1 DEF MapTypeOK
  <2> QED
    BY <1>1, <1>2, <1>7, <2>1 DEF Agreement, NoHistory
<1> QED
  BY <1>3, <1>5, <1>6, <1>8

\* A wakeup of a thread that has not left its CPU yet adds to its sleep what it has run.
LEMMA WakeupEarlyKeeps ==
  ASSUME ProfileInv, NEW t \in Threads, WakeupEarly(t)
  PROVE  ProfileInv'
<1> USE DEF ProfileInv
<1>1. /\ t \in Tracked => metrics[t].wakeups < MaxWakeups
      /\ IF Sees("sched_wakeup") THEN sched_wakeup(t) ELSE UNCHANGED metrics
      /\ UNCHANGED <<cur, st, clock, since, filter, attached, phase, pid, seen, trueRun,
                     trueSleep, trueNet>>
  BY DEF WakeupEarly, kernelVars, mainVars, trueVars
<1>2. /\ metrics' = [u \in Tracked |->
           IF u = t /\ Sees("sched_wakeup")
           THEN [metrics[u] EXCEPT !.wakeups = @ + 1,
                                   !.sleep = @ + (clock - metrics[u].last)]
           ELSE metrics[u]]
      /\ Tracked' = Tracked /\ metrics' \in [Tracked -> thread_metrics]
  BY <1>1, WokenMap
<1>3. MachineTypeOK' /\ MapTypeOK' /\ MainTypeOK' /\ OneCpu'
  BY <1>1, <1>2 DEF MachineTypeOK, MapTypeOK, MainTypeOK, OneCpu, thread_metrics
<1>4. ASSUME NEW u \in Tracked
      PROVE  EntryAgrees(u)'
  <2>1. EntryAgrees(u) /\ u \in Threads /\ metrics[u] \in thread_metrics
    BY DEF Agreement, MapTypeOK
  <2>2. CASE u = t /\ Sees("sched_wakeup")
    <3>1. metrics'[u] = [metrics[u] EXCEPT !.wakeups = @ + 1,
                                           !.sleep = @ + (clock - metrics[u].last)]
      BY <1>2, <2>2
    <3>2. /\ clock - metrics[u].last \in Nat
          /\ trueSleep[u] \in Nat
      BY <2>1 DEF EntryAgrees, thread_metrics, MachineTypeOK, MapTypeOK
    <3> QED
      BY <1>1, <2>1, <3>1, <3>2 DEF EntryAgrees, thread_metrics
  <2>3. CASE ~(u = t /\ Sees("sched_wakeup"))
    BY <1>1, <1>2, <2>1, <2>3 DEF EntryAgrees
  <2> QED
    BY <2>2, <2>3
<1>5. Agreement'
  BY <1>1, <1>2, <1>4 DEF Agreement, NoHistory
<1> QED
  BY <1>3, <1>5

\* A network call is counted, made before sys_enter is attached, or of another process
\* than the one that is profiled.
LEMMA SyscallKeeps ==
  ASSUME ProfileInv, NEW t \in Threads, NEW kind \in {"network", "disk"}, Syscall(t, kind)
  PROVE  ProfileInv'
<1> USE DEF ProfileInv
<1> DEFINE seesIt == Sees("sys_enter") /\ should_trace(Proc[t])
<1>1. /\ t \in Tracked => IF kind = "network" THEN trueNet[t] < MaxCalls
                                              ELSE metrics[t].disk < MaxCalls
      /\ IF Sees("sys_enter") THEN sys_enter(t, kind) ELSE UNCHANGED metrics
      /\ trueNet' = IF t \in Tracked /\ kind = "network" /\ Sees("sys_enter")
                    THEN [trueNet EXCEPT ![t] = @ + 1] ELSE trueNet
      /\ UNCHANGED <<cur, st, clock, since, filter, attached, phase, pid, seen, trueRun,
                     trueSleep>>
  BY DEF Syscall, kernelVars, mainVars
<1>2. metrics' = [u \in Tracked |->
        IF u # t \/ ~seesIt THEN metrics[u]
        ELSE IF kind = "network" THEN [metrics[u] EXCEPT !.network = @ + 1]
                                 ELSE [metrics[u] EXCEPT !.disk = @ + 1]]
  <2>1. CASE Sees("sys_enter")
    BY <1>1, <2>1, CalledEntries
  <2>2. CASE ~Sees("sys_enter")
    BY <1>1, <2>2 DEF MapTypeOK
  <2> QED
    BY <2>1, <2>2
<1>3. Tracked' = Tracked
  BY <1>2 DEF Tracked
<1>4. trueNet' \in [Threads -> Nat]
  BY <1>1 DEF MapTypeOK
<1>5. ASSUME NEW u \in Tracked
      PROVE  metrics'[u] \in thread_metrics /\ EntryAgrees(u)'
  <2>1. /\ EntryAgrees(u) /\ u \in Threads /\ metrics[u] \in thread_metrics
        /\ {trueNet[u], trueNet'[u]} \subseteq Nat
    BY <1>4 DEF Agreement, MapTypeOK
  <2>2. MaxCalls \in Nat
    BY ProfilerAssumption DEF ProfilerAssumption
  <2>3. CASE u = t /\ kind = "network" /\ seesIt
    <3>1. metrics'[u] = [metrics[u] EXCEPT !.network = @ + 1]
      BY <1>2, <2>3
    <3>2. trueNet'[u] = trueNet[u] + 1 /\ trueNet[u] < MaxCalls
      BY <1>1, <2>1, <2>3 DEF MapTypeOK
    <3>3. metrics[u].network + 1 \in 0..MaxCalls
      BY <2>1, <2>2, <3>2 DEF EntryAgrees, thread_metrics
    <3> QED
      BY <1>1, <2>1, <3>1, <3>2, <3>3 DEF EntryAgrees, thread_metrics
  <2>4. CASE u = t /\ kind = "disk" /\ seesIt
    <3>1. metrics'[u] = [metrics[u] EXCEPT !.disk = @ + 1]
      BY <1>2, <2>4
    <3>2. metrics[u].disk + 1 \in 0..MaxCalls
      BY <1>1, <2>1, <2>2, <2>4 DEF thread_metrics
    <3> QED
      BY <1>1, <2>1, <2>4, <3>1, <3>2 DEF EntryAgrees, thread_metrics
  <2>5. CASE u = t /\ Sees("sys_enter") /\ ~should_trace(Proc[t])
    <3>1. Proc[t] # pid /\ pid # 0
      BY <2>5 DEF should_trace, MainTypeOK
    <3>2. metrics'[u] = metrics[u] /\ trueNet'[u] >= trueNet[u]
      BY <1>1, <1>2, <2>1, <2>5 DEF MapTypeOK
    <3> QED
      BY <1>1, <2>1, <2>5, <3>1, <3>2 DEF EntryAgrees, thread_metrics
  <2>6. CASE u = t /\ ~Sees("sys_enter")
    <3>1. metrics'[u] = metrics[u] /\ trueNet'[u] = trueNet[u]
      BY <1>1, <1>2, <2>1, <2>6 DEF MapTypeOK
    <3> QED
      BY <1>1, <2>1, <2>6, <3>1 DEF EntryAgrees, thread_metrics
  <2>7. CASE u # t
    <3>1. metrics'[u] = metrics[u] /\ trueNet'[u] = trueNet[u]
      BY <1>1, <1>2, <2>1, <2>7 DEF MapTypeOK
    <3> QED
      BY <1>1, <2>1, <3>1 DEF EntryAgrees
  <2> QED
    BY <2>3, <2>4, <2>5, <2>6, <2>7
<1>6. MachineTypeOK' /\ MainTypeOK' /\ OneCpu'
  BY <1>1, <1>3 DEF MachineTypeOK, MainTypeOK, OneCpu
<1>7. MapTypeOK'
  <2>1. metrics' \in [Tracked -> thread_metrics]
    BY <1>2, <1>5
  <2> QED
    BY <1>1, <1>3, <1>4, <2>1 DEF MapTypeOK, thread_metrics
<1>8. Agreement'
  <2>1. \A u \in Threads \ Tracked : trueNet'[u] = trueNet[u]
    BY <1>1 DEF MapTypeOK
  <2> QED
    BY <1>1, <1>3, <1>5, <2>1 DEF Agreement, NoHistory
<1> QED
  BY <1>6, <1>7, <1>8

\* A switch charges the thread that leaves with the stint that it ends.
LEMMA SwitchKeeps ==
  ASSUME ProfileInv, NEW c \in Cpus, NEW next \in Threads \cup {Swapper},
         NEW left \in {"ready", "blocked"}, Switch(c, next, left)
  PROVE  ProfileInv'
<1> USE DEF ProfileInv
<1> DEFINE prev == cur[c]
<1>1. /\ next # prev
      /\ next \in Threads => st[next] = "ready"
      /\ cur' = [cur EXCEPT ![c] = next]
      /\ st' = [t \in Threads |-> IF t = prev THEN left
                                  ELSE IF t = next THEN "running" ELSE st[t]]
      /\ IF Sees("sched_switch") THEN sched_switch(prev, next) ELSE UNCHANGED metrics
      /\ since' = [t \in Threads |->
                     IF t = next \/ (t = prev /\ left = "blocked")
                     THEN IF t \in Tracked' THEN clock ELSE 0
                     ELSE IF t = prev THEN 0 ELSE since[t]]
      /\ trueRun' = IF prev \in Tracked
                    THEN [trueRun EXCEPT ![prev] = @ + (clock - since[prev])]
                    ELSE trueRun
      /\ UNCHANGED <<clock, filter, attached, phase, pid, seen, trueSleep, trueNet>>
  BY ProfilerAssumption DEF Switch, mainVars, Tracked, ProfilerAssumption
<1>2. prev \in Threads \cup {Swapper} /\ clock \in Nat /\ clock > 0
  BY DEF MachineTypeOK
<1>3. prev \in Threads => st[prev] = "running"
  BY DEF OneCpu
<1> HIDE DEF prev
<1>4. /\ Tracked \subseteq Tracked' /\ Tracked' \subseteq Tracked \cup {next}
      /\ Tracked' \subseteq Threads
      /\ metrics' \in [Tracked' -> {metrics'[t] : t \in Tracked'}]
      /\ \A t \in Tracked \ {prev, next} : metrics'[t] = metrics[t]
      /\ prev \in Tracked =>
           metrics'[prev] = [metrics[prev] EXCEPT !.run = @ + (clock - metrics[prev].last)]
      /\ next \in Tracked => metrics'[next] = [metrics[next] EXCEPT !.last = clock]
      /\ \A t \in Tracked' \ Tracked : t = next /\ metrics'[t] = Fresh(prev)
      /\ ~Sees("sched_switch") => Tracked' = Tracked
  <2>1. CASE Sees("sched_switch")
    <3>1. sched_switch(prev, next)
      BY <1>1, <2>1
    <3>2. /\ Tracked' = Tracked \cup (IF NewEntry(prev, next) THEN {next} ELSE {})
          /\ metrics' \in [Tracked' -> {metrics'[t] : t \in Tracked'}]
          /\ \A t \in Tracked \ {prev, next} : metrics'[t] = metrics[t]
          /\ prev \in Tracked =>
               metrics'[prev] = [metrics[prev] EXCEPT !.run = @ + (clock - metrics[prev].last)]
          /\ next \in Tracked => metrics'[next] = [metrics[next] EXCEPT !.last = clock]
          /\ \A t \in Tracked' \ Tracked : t = next /\ metrics'[t] = Fresh(prev)
      BY <1>1, <3>1, SwitchedEntries
    <3>3. NewEntry(prev, next) => next \in Threads
      BY DEF NewEntry
    <3> QED
      BY <2>1, <3>2, <3>3 DEF MapTypeOK
  <2>2. CASE ~Sees("sched_switch")
    BY <1>1, <2>2, SwitchesSeenOrNothing DEF MapTypeOK, Tracked
  <2> QED
    BY <2>1, <2>2
<1>5. MachineTypeOK'
  BY <1>1, <1>2 DEF MachineTypeOK
<1>6. ASSUME NEW t \in Tracked', t \notin Tracked
      PROVE  metrics'[t] \in thread_metrics /\ EntryAgrees(t)'
  <2>1. t = next /\ t \in Threads /\ metrics'[t] = Fresh(prev)
    BY <1>4, <1>6
  <2>2. TgidOf(prev) \in Nat /\ CommOf(prev) \in {CommOf(u) : u \in Threads \cup {Swapper}}
    BY <1>2, ProfilerAssumption DEF ProfilerAssumption, TgidOf
  <2>3. MaxWakeups \in Nat /\ MaxCalls \in Nat
    BY ProfilerAssumption DEF ProfilerAssumption
  <2>4. /\ trueRun'[t] = 0 /\ trueSleep'[t] = 0 /\ trueNet'[t] = 0
        /\ st'[t] = "running" /\ since'[t] = clock
    BY <1>1, <1>6, <2>1 DEF Agreement, NoHistory, MapTypeOK
  <2> QED
    BY <1>1, <1>2, <2>1, <2>2, <2>3, <2>4 DEF EntryAgrees, Fresh, thread_metrics
<1>7. ASSUME NEW t \in Tracked
      PROVE  metrics'[t] \in thread_metrics /\ EntryAgrees(t)'
  <2>1. /\ EntryAgrees(t) /\ t \in Threads /\ t \in Tracked'
        /\ metrics[t] \in thread_metrics
        /\ {trueRun[t], trueSleep[t], trueNet[t], since[t]} \subseteq Nat
    BY <1>4 DEF Agreement, MapTypeOK, MachineTypeOK
  <2>2. CASE t = prev
    <3>1. metrics'[t] = [metrics[t] EXCEPT !.run = @ + (clock - metrics[t].last)]
      BY <1>4, <2>2
    <3>2. since[t] = metrics[t].last /\ clock - metrics[t].last \in Nat
      BY <1>2, <1>3, <2>1, <2>2 DEF EntryAgrees, thread_metrics
    <3>3. /\ trueRun'[t] = trueRun[t] + (clock - since[t])
          /\ st'[t] = left /\ (left = "blocked" => since'[t] = clock)
      BY <1>1, <2>1, <2>2 DEF MapTypeOK
    <3>4. left # "running"
      OBVIOUS
    <3> QED
      BY <1>1, <1>2, <2>1, <3>1, <3>2, <3>3, <3>4 DEF EntryAgrees, thread_metrics
  <2>3. CASE t = next
    <3>1. metrics'[t] = [metrics[t] EXCEPT !.last = clock]
      BY <1>4, <2>3
    <3>2. trueRun'[t] = trueRun[t] /\ st'[t] = "running" /\ since'[t] = clock
      BY <1>1, <2>1, <2>3 DEF MapTypeOK
    <3> QED
      BY <1>1, <1>2, <2>1, <3>1, <3>2 DEF EntryAgrees, thread_metrics
  <2>4. CASE t \notin {prev, next}
    <3>1. /\ metrics'[t] = metrics[t]
          /\ trueRun'[t] = trueRun[t] /\ st'[t] = st[t] /\ since'[t] = since[t]
      BY <1>1, <1>4, <2>1, <2>4 DEF MapTypeOK
    <3> QED
      BY <1>1, <2>1, <3>1 DEF EntryAgrees
  <2> QED
    BY <2>2, <2>3, <2>4
<1>8. MapTypeOK'
  <2>1. metrics' \in [Tracked' -> thread_metrics]
    BY <1>4, <1>6, <1>7
  <2>2. trueRun' \in [Threads -> Nat]
    <3>1. prev \in Tracked => prev \in Threads /\ clock - since[prev] \in Nat
      BY <1>2 DEF MapTypeOK, MachineTypeOK
    <3> QED
      BY <1>1, <3>1 DEF MapTypeOK
  <2> QED
    BY <1>1, <1>4, <2>1, <2>2 DEF MapTypeOK, thread_metrics
<1>9. MainTypeOK'
  BY <1>1, <1>4 DEF MainTypeOK, Sees
<1>10. OneCpu'
  <2>1. \A d \in Cpus \ {c} : cur'[d] = cur[d]
    BY <1>1 DEF MachineTypeOK
  <2>2. cur'[c] = next
    BY <1>1 DEF MachineTypeOK
  <2>3. \A d \in Cpus \ {c} : cur[d] \in Threads => cur[d] # prev /\ cur[d] # next
    BY <1>1 DEF OneCpu, prev
  <2>4. \A t \in Threads \ {prev, next} : st'[t] = st[t]
    BY <1>1
  <2>5. next \in Threads => st'[next] = "running"
    BY <1>1
  <2> QED
    BY <2>1, <2>2, <2>3, <2>4, <2>5 DEF OneCpu
<1>11. Agreement'
  <2>1. \A t \in Threads \ Tracked : trueRun'[t] = trueRun[t]
    BY <1>1 DEF MapTypeOK
  <2> QED
    BY <1>1, <1>4, <1>6, <1>7, <2>1 DEF Agreement, NoHistory
<1> QED
  BY <1>5, <1>8, <1>9, <1>10, <1>11

LEMMA ReadKeeps ==
  ASSUME ProfileInv, NEW t \in Threads, ReadEntry(t)
  PROVE  ProfileInv'
<1>1. /\ UNCHANGED <<kernelVars, metrics, trueVars, filter, attached, phase, pid>>
      /\ \E s \in Roles \cup {"skipped"} : seen' = [seen EXCEPT ![t] = s]
  BY DEF ReadEntry, mapVars, classify_thread, Roles
<1>2. MainTypeOK'
  BY <1>1 DEF ProfileInv, MainTypeOK, Tracked
<1> QED
  BY <1>1, <1>2, MainKeeps DEF ProfileInv, MainTypeOK

LEMMA ProfileStep ==
  ASSUME ProfileInv, [Next]_vars
  PROVE  ProfileInv'
<1>1. CASE Kernel
  <2>1. CASE Tick
    BY <2>1, TickKeeps
  <2>2. CASE \E c \in Cpus, n \in Threads \cup {Swapper}, left \in {"ready", "blocked"} :
               Switch(c, n, left)
    BY <2>2, SwitchKeeps
  <2>3. CASE \E t \in Threads : Wakeup(t)
    BY <2>3, WakeupKeeps
  <2>4. CASE \E t \in Threads : WakeupEarly(t)
    BY <2>4, WakeupEarlyKeeps
  <2>5. CASE \E t \in Threads, kind \in {"network", "disk"} : Syscall(t, kind)
    BY <2>5, SyscallKeeps
  <2> QED
    BY <1>1, <2>1, <2>2, <2>3, <2>4, <2>5, ProfilerAssumption DEF Kernel, ProfilerAssumption
<1>2. CASE Start \/ Attach \/ Fail \/ SetFilter \/ StopProfiling \/ Finish
  <2>1. /\ UNCHANGED <<kernelVars, metrics, trueVars, pid, seen>>
        /\ filter' \in {filter, pid}
        /\ attached \subseteq attached' /\ attached' \subseteq attached \cup Probes
        /\ phase' \in {phase, "attaching", "profiling", "reading"} \cup Ends
    BY <1>2 DEF Start, Attach, Fail, SetFilter, StopProfiling, Finish, mapVars, mainVars, Ends
  <2>2. MainTypeOK' /\ filter' \in {0, pid}
    BY <2>1 DEF ProfileInv, MainTypeOK, Tracked
  <2> QED
    BY <2>1, <2>2, MainKeeps
<1>3. CASE \E t \in Threads : ReadEntry(t)
  BY <1>3, ReadKeeps
<1>4. CASE \/ \E t \in Threads : BeginEntry(t)
           \/ \E f \in Fields : CopyField(f)
           \/ UNCHANGED vars
  <2>1. UNCHANGED <<kernelVars, metrics, trueVars, filter, attached, phase, pid, seen>>
    BY <1>4 DEF BeginEntry, CopyField, vars, mapVars, mainVars
  <2>2. MainTypeOK' /\ filter' \in {0, pid}
    BY <2>1 DEF ProfileInv, MainTypeOK, Tracked
  <2> QED
    BY <2>1, <2>2, MainKeeps
<1> QED
  BY <1>1, <1>2, <1>3, <1>4 DEF Next, Main, Stopped

LEMMA ProfileInvariant == Spec => []ProfileInv
BY ProfileInit, ProfileStep, PTL DEF Spec

-------------------------------------------------------------------------------
(***************************************************************************)
(* The theorems.                                                           *)
(***************************************************************************)
\* total_run_ns is exactly the time a thread has spent on a CPU since its entry was made,
\* the present stint left out, whatever wakeups came in between.
THEOREM RunTimeIsExact == Spec => []RunIsExact
<1>1. ProfileInv => RunIsExact
  BY DEF ProfileInv, Agreement, EntryAgrees, RunIsExact
<1> QED
  BY <1>1, ProfileInvariant, PTL

\* total_sleep_ns is never less than the time a thread was really blocked, what it slept
\* before sched_wakeup was attached left out, although it is measured from the switch-in.
THEOREM SleepTimeIsEnough == Spec => []SleepIsEnough
<1>1. ProfileInv => SleepIsEnough
  BY DEF ProfileInv, Agreement, EntryAgrees, SleepIsEnough
<1> QED
  BY <1>1, ProfileInvariant, PTL

\* The network calls that a profiled thread makes once sys_enter is attached are all counted
\* and no others are, wherever the setting of the filter falls between them.
THEOREM NetworkCallsAreCounted == Spec => []CallsAreCounted
<1>1. ProfileInv => CallsAreCounted
  BY DEF ProfileInv, Agreement, EntryAgrees, CallsAreCounted
<1> QED
  BY <1>1, ProfileInvariant, PTL

\* The map never outgrows its size: only sched_switch adds to it, one entry at a time, and
\* only below the limit.
LEMMA MapGrows ==
  ASSUME ProfileInv, [Next]_vars, Tracked' # Tracked
  PROVE  \E next : Tracked' = Tracked \cup {next} /\ Cardinality(Tracked) < MaxEntries
<1> USE DEF ProfileInv
<1>1. PICK c \in Cpus, next \in Threads \cup {Swapper}, left \in {"ready", "blocked"} :
        Switch(c, next, left)
  <2>1. metrics' # metrics
    BY DEF Tracked
  <2>2. Kernel
    BY <2>1 DEF Next, Main, Stopped, Start, Attach, Fail, SetFilter, StopProfiling, Finish,
                BeginEntry, CopyField, ReadEntry, vars, mapVars
  <2>3. ~ Tick
    BY <2>1 DEF Tick, mapVars
  <2>4. ASSUME NEW t \in Threads, Wakeup(t) \/ WakeupEarly(t)
        PROVE  FALSE
    <3>1. /\ t \in Tracked => metrics[t].wakeups < MaxWakeups
          /\ IF Sees("sched_wakeup") THEN sched_wakeup(t) ELSE UNCHANGED metrics
      BY <2>4 DEF Wakeup, WakeupEarly
    <3> QED
      BY <3>1, WokenMap
  <2>5. ASSUME NEW t \in Callers, NEW kind \in {"network", "disk"}, Syscall(t, kind)
        PROVE  FALSE
    <3>1. sys_enter(t, kind)
      BY <2>1, <2>5 DEF Syscall
    <3>2. Tracked' = Tracked
      BY <3>1, CalledEntries DEF Tracked
    <3> QED
      BY <3>2
  <2> QED
    BY <2>2, <2>3, <2>4, <2>5, ProfilerAssumption DEF Kernel, ProfilerAssumption
<1>2. next # cur[c] /\ sched_switch(cur[c], next)
  BY <1>1 DEF Switch, Tracked
<1>3. Tracked' = Tracked \cup (IF NewEntry(cur[c], next) THEN {next} ELSE {})
  BY <1>2, SwitchedEntries
<1> QED
  BY <1>3 DEF NewEntry

LEMMA MapInvariant == Spec => []MapBounded
<1>1. Init => MapBounded
  BY FS_EmptySet, ProfilerAssumption DEF Init, Tracked, MapBounded, ProfilerAssumption
<1>2. ASSUME MapBounded, ProfileInv, [Next]_vars
      PROVE  MapBounded'
  <2>1. CASE Tracked' = Tracked
    BY <1>2, <2>1 DEF MapBounded
  <2>2. CASE Tracked' # Tracked
    <3>1. PICK next : Tracked' = Tracked \cup {next} /\ Cardinality(Tracked) < MaxEntries
      BY <1>2, <2>2, MapGrows
    <3>2. next \notin Tracked
      BY <2>2, <3>1
    <3>3. /\ IsFiniteSet(Tracked') /\ Cardinality(Tracked') = Cardinality(Tracked) + 1
          /\ Cardinality(Tracked) \in Nat
      BY <1>2, <3>1, <3>2, FS_AddElement, FS_CardinalityType DEF MapBounded
    <3> QED
      BY <3>1, <3>3, ProfilerAssumption DEF MapBounded, ProfilerAssumption
  <2> QED
    BY <2>1, <2>2
<1> QED
  BY <1>1, <1>2, ProfileInvariant, PTL DEF Spec

-------------------------------------------------------------------------------
(***************************************************************************)
(* The entry that is being copied.                                         *)
(***************************************************************************)
CopyTypeOK ==
  /\ DOMAIN copy \subseteq Fields /\ copy \in [DOMAIN copy -> Nat]
  /\ begun \in [tid: Threads \cup {Swapper}, sleep: Nat, network: Nat]
  /\ begun.tid = Swapper => DOMAIN copy = {}
  /\ begun.tid # Swapper => begun.tid \in Tracked

\* A thread has done since what it had done when the copying began; the run time that was
\* copied is not more than it has now, and the sleep and the calls are not less than then.
CopyAgrees(t) ==
  /\ begun.sleep <= trueSleep[t]
  /\ begun.network <= trueNet[t]
  /\ "run" \in DOMAIN copy => copy.run <= trueRun[t]
  /\ "sleep" \in DOMAIN copy => copy.sleep >= begun.sleep
  /\ "network" \in DOMAIN copy /\ (Proc[t] = pid \/ pid = 0) => copy.network >= begun.network

CopyInv == CopyTypeOK /\ (begun.tid \in Tracked => CopyAgrees(begun.tid))

\* While the kernel runs, nothing that a thread has done becomes less.
LEMMA HistoryGrows ==
  ASSUME ProfileInv, Kernel, NEW t \in Tracked
  PROVE  /\ t \in Tracked'
         /\ trueRun[t] <= trueRun'[t]
         /\ trueSleep[t] <= trueSleep'[t]
         /\ trueNet[t] <= trueNet'[t]
<1> USE DEF ProfileInv
<1>1. t \in Threads /\ t # Swapper
  BY ProfilerAssumption DEF MapTypeOK, ProfilerAssumption
<1>2. {trueRun[t], trueSleep[t], trueNet[t]} \subseteq Nat
  BY <1>1 DEF MapTypeOK
<1>3. CASE Tick
  BY <1>2, <1>3 DEF Tick, mapVars, mainVars, trueVars, Tracked
<1>4. ASSUME NEW c \in Cpus, NEW n \in Threads \cup {Swapper}, NEW left \in {"ready", "blocked"},
             Switch(c, n, left)
      PROVE  /\ t \in Tracked' /\ trueRun[t] <= trueRun'[t]
             /\ UNCHANGED <<trueSleep, trueNet>>
  <2>1. /\ n # cur[c]
        /\ IF Sees("sched_switch") THEN sched_switch(cur[c], n) ELSE UNCHANGED metrics
        /\ trueRun' = IF cur[c] \in Tracked
                      THEN [trueRun EXCEPT ![cur[c]] = @ + (clock - since[cur[c]])]
                      ELSE trueRun
        /\ UNCHANGED <<trueSleep, trueNet>>
    BY <1>4, Zenon DEF Switch
  <2>2. t \in Tracked'
    <3>1. CASE Sees("sched_switch")
      <4>1. Tracked' = Tracked \cup (IF NewEntry(cur[c], n) THEN {n} ELSE {})
        BY <2>1, <3>1, SwitchedEntries
      <4> QED
        BY <4>1
    <3>2. CASE ~Sees("sched_switch")
      BY <2>1, <3>2 DEF Tracked
    <3> QED
      BY <3>1, <3>2
  <2>3. cur[c] \in Tracked => clock - since[cur[c]] \in Nat
    BY DEF MachineTypeOK, MapTypeOK
  <2>4. trueRun[t] <= trueRun'[t]
    BY <1>1, <1>2, <2>1, <2>3 DEF MapTypeOK
  <2> QED
    BY <2>1, <2>2, <2>4
<1>5. ASSUME NEW u \in Threads, Wakeup(u)
      PROVE  /\ t \in Tracked'
             /\ trueSleep[t] <= trueSleep'[t]
             /\ UNCHANGED <<trueRun, trueNet>>
  <2> DEFINE slept == clock - since[u]
  <2>1. /\ u \in Tracked => metrics[u].wakeups < MaxWakeups
        /\ IF Sees("sched_wakeup") THEN sched_wakeup(u) ELSE UNCHANGED metrics
        /\ trueSleep' = IF u \in Tracked /\ Sees("sched_wakeup")
                        THEN [trueSleep EXCEPT ![u] = @ + slept] ELSE trueSleep
        /\ UNCHANGED <<trueRun, trueNet>>
    BY <1>5 DEF Wakeup
  <2>2. t \in Tracked'
    BY <2>1, WokenMap
  <2>3. slept \in Nat
    BY DEF MachineTypeOK
  <2> HIDE DEF slept
  <2>4. trueSleep'[t] \in {trueSleep[t], trueSleep[t] + slept}
    BY <1>1, <2>1 DEF MapTypeOK
  <2> QED
    BY <1>2, <2>1, <2>2, <2>3, <2>4
<1>6. ASSUME NEW u \in Threads, WakeupEarly(u)
      PROVE  t \in Tracked' /\ UNCHANGED trueVars
  <2>1. /\ u \in Tracked => metrics[u].wakeups < MaxWakeups
        /\ IF Sees("sched_wakeup") THEN sched_wakeup(u) ELSE UNCHANGED metrics
        /\ UNCHANGED trueVars
    BY <1>6 DEF WakeupEarly
  <2> QED
    BY <2>1, WokenMap
<1>7. ASSUME NEW u \in Threads, NEW kind \in {"network", "disk"}, Syscall(u, kind)
      PROVE  /\ t \in Tracked'
             /\ trueNet[t] <= trueNet'[t]
             /\ UNCHANGED <<trueRun, trueSleep>>
  <2>1. /\ IF Sees("sys_enter") THEN sys_enter(u, kind) ELSE UNCHANGED metrics
        /\ trueNet' = IF u \in Tracked /\ kind = "network" /\ Sees("sys_enter")
                      THEN [trueNet EXCEPT ![u] = @ + 1] ELSE trueNet
        /\ UNCHANGED <<trueRun, trueSleep>>
    BY <1>7 DEF Syscall
  <2>2. t \in Tracked'
    BY <2>1, CalledEntries DEF Tracked
  <2>3. trueNet'[t] \in {trueNet[t], trueNet[t] + 1}
    BY <1>1, <2>1 DEF MapTypeOK
  <2> QED
    BY <1>2, <2>1, <2>2, <2>3
<1>8. CASE \E c \in Cpus, n \in Threads \cup {Swapper}, left \in {"ready", "blocked"} :
             Switch(c, n, left)
  BY <1>2, <1>4, <1>8
<1>9. CASE \E u \in Threads : Wakeup(u)
  BY <1>2, <1>5, <1>9
<1>10. CASE \E u \in Threads : WakeupEarly(u)
  BY <1>2, <1>6, <1>10 DEF trueVars
<1>11. CASE \E u \in Threads, kind \in {"network", "disk"} : Syscall(u, kind)
  BY <1>2, <1>7, <1>11
<1> QED
  BY <1>3, <1>8, <1>9, <1>10, <1>11, ProfilerAssumption DEF Kernel, ProfilerAssumption

LEMMA KernelLeavesMain ==
  ASSUME Kernel
  PROVE  UNCHANGED <<copy, begun, pid, phase, seen>>
BY Zenon DEF Kernel, Tick, Switch, Wakeup, WakeupEarly, Syscall, mainVars

LEMMA CopyStep ==
  ASSUME ProfileInv, CopyInv, [Next]_vars
  PROVE  CopyInv'
<1> USE DEF CopyInv
<1>0. Swapper \notin Threads /\ Tracked \subseteq Threads
  BY ProfilerAssumption DEF ProfilerAssumption, ProfileInv, MapTypeOK
<1>1. CASE Kernel
  <2>1. UNCHANGED <<copy, begun, pid>>
    BY <1>1, KernelLeavesMain
  <2>2. \A t \in Tracked : t \in Tracked'
    BY <1>1, HistoryGrows
  <2>3. CopyTypeOK'
    BY <2>1, <2>2 DEF CopyTypeOK
  <2>4. ASSUME NEW t \in Tracked, t = begun.tid
        PROVE  CopyAgrees(t)'
    <3>1. trueRun[t] <= trueRun'[t] /\ trueSleep[t] <= trueSleep'[t] /\ trueNet[t] <= trueNet'[t]
      BY <1>1, HistoryGrows
    <3>2. /\ {trueRun[t], trueSleep[t], trueNet[t]} \subseteq Nat
          /\ {trueRun'[t], trueSleep'[t], trueNet'[t]} \subseteq Nat
      BY <1>0, ProfileStep DEF ProfileInv, MapTypeOK
    <3>3. begun.sleep \in Nat /\ begun.network \in Nat /\ \A f \in DOMAIN copy : copy[f] \in Nat
      BY DEF CopyTypeOK
    <3>4. CopyAgrees(t)
      BY <2>4
    <3>5. /\ begun.sleep <= trueSleep'[t]
          /\ begun.network <= trueNet'[t]
          /\ "run" \in DOMAIN copy => copy.run <= trueRun'[t]
      BY <3>1, <3>2, <3>3, <3>4 DEF CopyAgrees
    <3> QED
      BY <2>1, <3>4, <3>5 DEF CopyAgrees
  <2>5. begun.tid \in Tracked' => begun.tid \in Tracked
    BY <1>0, ProfileStep, ProfilerAssumption
    DEF CopyTypeOK, ProfileInv, MapTypeOK, ProfilerAssumption
  <2> QED
    BY <2>1, <2>3, <2>4, <2>5
<1>2. CASE \E t \in Threads : BeginEntry(t)
  <2>1. PICK t \in Threads : BeginEntry(t)
    BY <1>2
  <2>2. /\ begun.tid = Swapper /\ t \in Tracked
        /\ begun' = [tid |-> t, sleep |-> trueSleep[t],
                     network |-> trueNet[t]]
        /\ UNCHANGED <<metrics, copy, trueRun, trueSleep, trueNet, pid>>
    BY <2>1 DEF BeginEntry, mapVars, trueVars
  <2>3. DOMAIN copy = {}
    BY <2>2 DEF CopyTypeOK
  <2>4. trueSleep[t] \in Nat /\ trueNet[t] \in Nat
    BY <2>2 DEF ProfileInv, Agreement, EntryAgrees, MapTypeOK
  <2>5. CopyTypeOK'
    BY <1>0, <2>2, <2>3, <2>4 DEF CopyTypeOK, Tracked
  <2>6. CopyAgrees(t)'
    BY <2>2, <2>3, <2>4 DEF CopyAgrees
  <2> QED
    BY <2>2, <2>5, <2>6
<1>3. CASE \E f \in Fields : CopyField(f)
  <2>1. PICK f \in Fields : CopyField(f)
    BY <1>3
  <2> DEFINE t == begun.tid
  <2>2. /\ t \in Tracked /\ f \notin DOMAIN copy
        /\ copy' = [g \in DOMAIN copy \cup {f} |-> IF g = f THEN metrics[t][f] ELSE copy[g]]
        /\ UNCHANGED <<metrics, begun, trueRun, trueSleep, trueNet, pid>>
    BY <2>1 DEF CopyField, mapVars, trueVars
  <2>3. metrics[t] \in thread_metrics /\ metrics[t][f] \in Nat
    <3>1. MaxWakeups \in Nat /\ MaxCalls \in Nat
      BY ProfilerAssumption DEF ProfilerAssumption
    <3> QED
      BY <2>2, <3>1 DEF ProfileInv, MapTypeOK, thread_metrics, Fields
  <2>4. CopyTypeOK'
    BY <1>0, <2>2, <2>3 DEF CopyTypeOK, Tracked
  <2>5. EntryAgrees(t) /\ CopyAgrees(t) /\ t \in Threads
    BY <1>0, <2>2 DEF ProfileInv, Agreement
  <2>6. /\ {trueRun[t], trueSleep[t], trueNet[t]} \subseteq Nat
        /\ begun.sleep \in Nat /\ begun.network \in Nat
    BY <2>5 DEF ProfileInv, MapTypeOK, CopyTypeOK
  <2>7. \A g \in DOMAIN copy' : copy'[g] = IF g = f THEN metrics[t][f] ELSE copy[g]
    BY <2>2
  <2>8. DOMAIN copy' = DOMAIN copy \cup {f}
    BY <2>2
  <2>9. /\ metrics[t].run = trueRun[t] /\ metrics[t].sleep >= trueSleep[t]
        /\ Proc[t] = pid \/ pid = 0 => metrics[t].network = trueNet[t]
        /\ metrics[t].sleep \in Nat
    BY <2>3, <2>5 DEF EntryAgrees, thread_metrics
  <2> HIDE DEF t
  <2>10. "run" \in DOMAIN copy' => copy'.run <= trueRun[t]
    BY <2>5, <2>6, <2>7, <2>8, <2>9 DEF CopyAgrees
  <2>11. "sleep" \in DOMAIN copy' => copy'.sleep >= begun.sleep
    BY <2>5, <2>6, <2>7, <2>8, <2>9 DEF CopyAgrees
  <2>12. "network" \in DOMAIN copy' /\ (Proc[t] = pid \/ pid = 0)
           => copy'.network >= begun.network
    BY <2>5, <2>6, <2>7, <2>8, <2>9 DEF CopyAgrees
  <2>13. CopyAgrees(begun.tid)'
    BY <2>2, <2>5, <2>10, <2>11, <2>12 DEF CopyAgrees, t
  <2> QED
    BY <2>4, <2>13
<1>4. CASE Fail \/ \E t \in Threads : ReadEntry(t)
  <2>1. copy' = NoCopy /\ begun' = NotBegun
    BY <1>4 DEF Fail, ReadEntry
  <2>2. DOMAIN copy' = {} /\ begun'.tid = Swapper
    BY <2>1 DEF NoCopy, NotBegun
  <2>3. CopyTypeOK'
    BY <2>1, <2>2 DEF CopyTypeOK, NoCopy, NotBegun
  <2>4. Tracked' \subseteq Threads
    BY <1>0, <1>4 DEF Fail, ReadEntry, mapVars, Tracked
  <2> QED
    BY <1>0, <2>2, <2>3, <2>4
<1>5. CASE Start \/ Attach \/ SetFilter \/ StopProfiling \/ Finish \/ UNCHANGED vars
  <2>1. UNCHANGED <<metrics, copy, begun, trueRun, trueSleep, trueNet, pid>>
    BY <1>5 DEF Start, Attach, SetFilter, StopProfiling, Finish, vars, mapVars, mainVars, trueVars
  <2> QED
    BY <2>1 DEF CopyTypeOK, CopyAgrees, Tracked
<1> QED
  BY <1>1, <1>2, <1>3, <1>4, <1>5 DEF Next, Main, Stopped

LEMMA CopyInvariant == Spec => []CopyInv
<1>1. Init => CopyInv
  <2> SUFFICES ASSUME Init PROVE CopyInv
    OBVIOUS
  <2>1. copy = NoCopy /\ begun = NotBegun /\ Tracked = {}
    BY DEF Init, Tracked
  <2> QED
    BY <2>1 DEF CopyInv, CopyTypeOK, NoCopy, NotBegun
<1> QED
  BY <1>1, CopyStep, ProfileInvariant, PTL DEF Spec

\* The variables have their types; in particular the map stays within its size.
THEOREM ProfilerTypeCorrect == Spec => []TypeOK
<1>1. ProfileInv /\ MapBounded /\ CopyInv => TypeOK
  BY DEF ProfileInv, MachineTypeOK, MapTypeOK, MainTypeOK, MapBounded, CopyInv, CopyTypeOK, TypeOK
<1> QED
  BY <1>1, ProfileInvariant, MapInvariant, CopyInvariant, PTL

\* Sleep that is measured too long, or is newer than the run time beside it, cannot make a
\* thread that sleeps look like one that does not: sleep_ratio grows with the sleep and
\* shrinks with the run time.
LEMMA LongerSleepSleepsMore ==
  ASSUME NEW run \in Nat, NEW r \in Nat, NEW s \in Nat, NEW sleep \in Nat,
         r <= run, sleep >= s, SleepsMore(run, s, 5)
  PROVE  SleepsMore(r, sleep, 5)
BY DEF SleepsMore

\* classify_thread takes no thread with enough network calls and a sleep_ratio over a
\* half for a background thread: io_worker is looked for before cpu_batch and compaction.
LEMMA SleepersAreForeground ==
  ASSUME NEW m, SleepsMore(m.run, m.sleep, 5), m.network > NetLow
  PROVE  classify_thread(m) = "foreground"
BY DEF classify_thread

\* A profiled thread that has slept more than half of its time and made enough network
\* calls is never reported as background, though the probes are attached one after another,
\* write to its entry while it is copied, and measure its sleep from the wrong end.
THEOREM InteractiveKept == Spec => NoInteractiveDemoted
<1>1. ASSUME ProfileInv, CopyInv, [Next]_vars, NEW t \in Threads,
             seen[t] = "unread", seen'[t] = "background", Proc[t] = pid \/ pid = 0
      PROVE  ~(SleepsMore(trueRun[t], begun.sleep, 5) /\ begun.network > NetLow)
  <2>1. seen' # seen
    BY <1>1
  <2>2. PICK u \in Threads : ReadEntry(u)
    <3>1. ~ Kernel
      BY <2>1, KernelLeavesMain
    <3>2. ~ (\/ Start \/ Attach \/ Fail \/ SetFilter \/ StopProfiling \/ Finish \/ UNCHANGED vars
             \/ \E u \in Threads : BeginEntry(u)
             \/ \E f \in Fields : CopyField(f))
      BY <2>1, Zenon DEF Start, Attach, Fail, SetFilter, StopProfiling, Finish, BeginEntry,
                         CopyField, vars, mainVars
    <3> QED
      BY <1>1, <3>1, <3>2, Zenon DEF Next, Main, Stopped
  <2>3. t = begun.tid /\ DOMAIN copy = Fields /\ classify_thread(copy) = "background"
    BY <1>1, <2>2 DEF ReadEntry, ProfileInv, MainTypeOK
  <2>4. t \in Tracked /\ CopyAgrees(t)
    BY <1>1, <2>3, ProfilerAssumption DEF CopyInv, CopyTypeOK, ProfilerAssumption
  <2>5. /\ copy.run <= trueRun[t] /\ copy.sleep >= begun.sleep
        /\ copy.network >= begun.network
    BY <1>1, <2>3, <2>4 DEF CopyAgrees, Fields
  <2>6. /\ {copy.run, copy.sleep, copy.network, begun.sleep, begun.network, trueRun[t]} \subseteq Nat
        /\ NetLow \in Nat
    BY <1>1, <2>3, ProfilerAssumption
    DEF ProfileInv, MapTypeOK, CopyInv, CopyTypeOK, Fields, ProfilerAssumption
  <2>7. SUFFICES ASSUME SleepsMore(trueRun[t], begun.sleep, 5), begun.network > NetLow
                 PROVE  FALSE
    OBVIOUS
  <2>8. SleepsMore(copy.run, copy.sleep, 5)
    BY <2>5, <2>6, <2>7, LongerSleepSleepsMore
  <2>9. copy.network > NetLow
    BY <2>5, <2>6, <2>7
  <2> QED
    BY <2>3, <2>8, <2>9, SleepersAreForeground
<1>2. ProfileInv /\ CopyInv /\ [Next]_vars =>
        [\A t \in Threads :
           /\ seen[t] = "unread" /\ seen'[t] = "background"
           /\ Proc[t] = pid \/ pid = 0
           => ~(SleepsMore(trueRun[t], begun.sleep, 5) /\ begun.network > NetLow)]_vars
  BY <1>1
<1> QED
  BY <1>2, ProfileInvariant, CopyInvariant, PTL DEF Spec, NoInteractiveDemoted

===============================================================================
