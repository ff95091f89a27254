------------------------------- MODULE SchedExt -------------------------------
(***************************************************************************)
(* The part of the kernel that calls a schedcore BPF scheduler: the Linux  *)
(* sched_ext core (kernel 6.12, kernel/sched/ext.c), which the repository  *)
(* does not contain.  It is modelled only as far as the callbacks in       *)
(* src/workloads/*/*.bpf.c can observe it: who calls select_cpu, enqueue,  *)
(* dispatch, running and stopping, in what order, and under which lock.    *)
(*                                                                         *)
(* A CPU goes through schedule() as follows, holding its run-queue lock in *)
(* every phase but the first two:                                          *)
(*                                                                         *)
(*    idle / run --> (blocked) --> dispatch --> dispatchBg --> put --> next *)
(*        ^                                     (recheck)              |   *)
(*        |                                         |                  |   *)
(*        +------------ nothing to run -------------+      (running) <-+   *)
(*                                                                         *)
(* Every scheduler here shares two DSQs among all CPUs, one whose tasks    *)
(* are favoured and one that is looked at when the first is empty; `dispatch' *)
(* is the look at the first, `dispatchBg' the look at the second.          *)
(*                                                                         *)
(* Wake-ups are made by interrupts and by threads of other scheduling      *)
(* classes, so their steps interleave with the phases of every CPU here.   *)
(*                                                                         *)
(* Slices are abstracted to whether they are used up: a CPU in `resched'   *)
(* is one whose current task has slice 0 (tick or preempting kick), or an  *)
(* idle one that a wake-up has told to reschedule.                         *)
(***************************************************************************)
EXTENDS Integers, Sequences

CONSTANTS
  Tasks,   \* the threads the scheduler manages
  NCpu,    \* how many CPUs the machine has
  NoTask   \* what runs on an idle CPU

ASSUME CoreAssumption ==
  /\ NCpu \in Nat \ {0}
  /\ NoTask \notin Tasks

CPUs == 0 .. NCpu - 1

VARIABLES
  tpc,       \* a task's progress through try_to_wake_up(); "ready" once queued
  cpu,       \* task_cpu(p): the run queue a task belongs to
  cpc,       \* a CPU's progress through schedule()
  curr,      \* rq->curr, until the switch to the next task is made
  local,     \* SCX_DSQ_LOCAL of each CPU
  resched,   \* the CPUs with TIF_NEED_RESCHED set
  idleMask,  \* the CPUs scx_bpf_select_cpu_dfl() may claim as idle
  fgq,       \* the shared DSQ that dispatch looks at first
  bgq        \* the shared DSQ that it looks at second

coreVars == <<tpc, cpu, cpc, curr, local, resched, idleMask>>
dsqVars == <<fgq, bgq>>

TaskPcs == {"asleep", "scan", "age", "enq", "enqLocal", "ready"}
CpuPcs == {"idle", "run", "blocked", "dispatch", "dispatchBg", "recheck",
           "put", "next", "running"}

CoreTypeOK ==
  /\ tpc \in [Tasks -> TaskPcs]
  /\ cpu \in [Tasks -> CPUs]
  /\ cpc \in [CPUs -> CpuPcs]
  /\ curr \in [CPUs -> Tasks \cup {NoTask}]
  /\ local \in [CPUs -> Seq(Tasks)]
  /\ resched \in SUBSET CPUs
  /\ idleMask \in SUBSET CPUs
  /\ fgq \in Seq(Tasks)
  /\ bgq \in Seq(Tasks)

CoreInit ==
  /\ tpc = [t \in Tasks |-> "asleep"]
  /\ cpu \in [Tasks -> CPUs]
  /\ cpc = [c \in CPUs |-> "idle"]
  /\ curr = [c \in CPUs |-> NoTask]
  /\ local = [c \in CPUs |-> <<>>]
  /\ resched = {}
  /\ idleMask = CPUs
  /\ fgq = <<>> /\ bgq = <<>>

\* Nobody is inside schedule() on c, so a waker can take its run-queue lock.
LockFree(c) == cpc[c] \in {"idle", "run"}

\* p->on_cpu of a task that some other CPU than c is still switching away from.
HeldElsewhere(t, c) == \E d \in CPUs \ {c} : curr[d] = t

\* prev is still runnable: it was preempted, it did not block.
PrevRunnable(c) == curr[c] # NoTask /\ tpc[curr[c]] = "ready"

Executes(t) == \E c \in CPUs : cpc[c] = "run" /\ curr[c] = t

(***************************************************************************)
(* Waking up.                                                              *)
(***************************************************************************)
\* try_to_wake_up() waits for on_cpu to clear before it calls select_cpu.
Wakeable(t) == tpc[t] = "asleep" /\ \A c \in CPUs : curr[c] # t

\* scx_bpf_select_cpu_dfl() found an idle CPU and cleared it in the mask.
ClaimIdle(t, c) ==
  /\ c \in idleMask
  /\ idleMask' = idleMask \ {c}
  /\ cpu' = [cpu EXCEPT ![t] = c]

\* select_cpu claimed an idle CPU and inserts t into the local DSQ there.
WakeIdle(t) ==
  /\ Wakeable(t)
  /\ \E c \in CPUs : ClaimIdle(t, c)
  /\ tpc' = [tpc EXCEPT ![t] = "enqLocal"]
  /\ UNCHANGED <<cpc, curr, local, resched, dsqVars>>

\* No CPU is idle; select_cpu goes on at pc.
WakeBusy(t, pc) ==
  /\ Wakeable(t)
  /\ idleMask = {}
  /\ tpc' = [tpc EXCEPT ![t] = pc]
  /\ UNCHANGED <<cpu, cpc, curr, local, resched, idleMask, dsqVars>>

\* A step inside select_cpu, to pc.
ScanStep(t, pc) ==
  /\ tpc[t] \in {"scan", "age"}
  /\ tpc' = [tpc EXCEPT ![t] = pc]
  /\ UNCHANGED <<cpu, cpc, curr, local, resched, idleMask, dsqVars>>

\* The wake-up activates t under the lock of its run queue and reschedules an
\* idle CPU; a CPU that runs a task is left alone (wakeup_preempt_scx is empty).
Activate(t) ==
  /\ LockFree(cpu[t])
  /\ tpc' = [tpc EXCEPT ![t] = "ready"]
  /\ resched' = IF cpc[cpu[t]] = "idle" THEN resched \cup {cpu[t]} ELSE resched
  /\ UNCHANGED <<cpu, cpc, curr, idleMask>>

\* The wake-up calls ops.enqueue, which inserts t into a shared DSQ.
ActivateShared(t) ==
  /\ tpc[t] = "enq"
  /\ Activate(t)
  /\ UNCHANGED local

\* A scx_bpf_dsq_insert(SCX_DSQ_LOCAL) made in select_cpu takes effect here,
\* without a call of ops.enqueue.
ActivateLocal(t) ==
  /\ tpc[t] = "enqLocal"
  /\ Activate(t)
  /\ local' = [local EXCEPT ![cpu[t]] = Append(@, t)]
  /\ UNCHANGED dsqVars

\* scx_bpf_dsq_insert() on one of the shared DSQs.
InsertForeground(t) == fgq' = Append(fgq, t) /\ UNCHANGED bgq
InsertBackground(t) == bgq' = Append(bgq, t) /\ UNCHANGED fgq

\* scx_bpf_kick_cpu(SCX_KICK_PREEMPT) reaches c: slice 0 and reschedule.
Preempt(c) ==
  /\ LockFree(c)
  /\ resched' = resched \cup {c}
  /\ UNCHANGED <<tpc, cpu, cpc, curr, local, idleMask, dsqVars>>

(***************************************************************************)
(* schedule() on one CPU.                                                  *)
(***************************************************************************)
\* The tick finds the slice of the current task used up.
SliceExpires(c) ==
  /\ cpc[c] = "run" /\ c \notin resched
  /\ resched' = resched \cup {c}
  /\ UNCHANGED <<tpc, cpu, cpc, curr, local, idleMask, dsqVars>>

\* The current task sleeps (dequeue_task_scx, which calls ops.stopping).
Block(c) ==
  /\ cpc[c] = "run"
  /\ cpc' = [cpc EXCEPT ![c] = "blocked"]
  /\ tpc' = [tpc EXCEPT ![curr[c]] = "asleep"]
  /\ UNCHANGED <<cpu, curr, local, resched, idleMask, dsqVars>>

\* balance_one(): a task already in the local DSQ is run before ops.dispatch.
Balance(c) ==
  /\ \/ cpc[c] = "blocked"
     \/ LockFree(c) /\ c \in resched
  /\ cpc' = [cpc EXCEPT ![c] = IF local[c] # <<>> THEN "put" ELSE "dispatch"]
  /\ resched' = resched \ {c}
  /\ UNCHANGED <<tpc, cpu, curr, local, idleMask, dsqVars>>

\* scx_bpf_dsq_move_to_local(q) with q non-empty: the head of q is moved, once
\* no other CPU is still switching away from it.
MoveToLocal(c, q) ==
  /\ q # <<>>
  /\ ~HeldElsewhere(Head(q), c)
  /\ local' = [local EXCEPT ![c] = Append(@, Head(q))]
  /\ cpu' = [cpu EXCEPT ![Head(q)] = c]
  /\ cpc' = [cpc EXCEPT ![c] = "put"]
  /\ UNCHANGED <<tpc, curr, resched, idleMask>>

TakeForeground(c) == MoveToLocal(c, fgq) /\ fgq' = Tail(fgq) /\ UNCHANGED bgq
TakeBackground(c) == MoveToLocal(c, bgq) /\ bgq' = Tail(bgq) /\ UNCHANGED fgq

\* A DSQ was found empty: on to the next one.
Advance(c, pc) ==
  /\ cpc' = [cpc EXCEPT ![c] = pc]
  /\ UNCHANGED <<tpc, cpu, curr, local, resched, idleMask, dsqVars>>

\* Nothing was found: prev keeps the CPU with a refilled slice and without any
\* callback (the schedulers do not set SCX_OPS_ENQ_LAST), else c goes idle.
NothingFound(c) ==
  /\ IF PrevRunnable(c)
     THEN /\ cpc' = [cpc EXCEPT ![c] = "run"]
          /\ UNCHANGED <<curr, idleMask>>
     ELSE /\ cpc' = [cpc EXCEPT ![c] = "idle"]
          /\ curr' = [curr EXCEPT ![c] = NoTask]
          /\ idleMask' = idleMask \cup {c}
  /\ UNCHANGED <<tpc, cpu, local, resched, dsqVars>>

\* put_prev_task_scx(), which calls ops.enqueue for a runnable prev; leaving the
\* idle task clears the CPU in the idle mask.
PutPrev(c) ==
  /\ cpc[c] = "put"
  /\ cpc' = [cpc EXCEPT ![c] = "next"]
  /\ idleMask' = IF curr[c] = NoTask THEN idleMask \ {c} ELSE idleMask
  /\ UNCHANGED <<tpc, cpu, curr, local, resched>>

\* set_next_task_scx() and the context switch; pc tells whether ops.running
\* still has a store to make.
SetNext(c, pc) ==
  /\ cpc[c] = "next"
  /\ curr' = [curr EXCEPT ![c] = Head(local[c])]
  /\ local' = [local EXCEPT ![c] = Tail(@)]
  /\ cpc' = [cpc EXCEPT ![c] = pc]
  /\ UNCHANGED <<tpc, cpu, resched, idleMask, dsqVars>>

\* ops.running returns.
RunningDone(c) ==
  /\ cpc[c] = "running"
  /\ cpc' = [cpc EXCEPT ![c] = "run"]
  /\ UNCHANGED <<tpc, cpu, curr, local, resched, idleMask, dsqVars>>

===============================================================================
