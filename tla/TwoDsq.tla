-------------------------------- MODULE TwoDsq ---------------------------------
(***************************************************************************)
(* The abstract scheduler that every policy of this repository implements: *)
(* it queues a task on either of the two shared DSQs, or directly on the   *)
(* local DSQ of an idle CPU that select_cpu claimed; it looks at the DSQs  *)
(* in order; it may kick any CPU at any time.  What it promises does not   *)
(* depend on the policy: no task is lost or queued twice, and no queued    *)
(* task is forgotten by all CPUs.                                          *)
(***************************************************************************)
EXTENDS SchedExt

\* ops.enqueue: the policy chooses the queue.
AnyInsert(t) == InsertForeground(t) \/ InsertBackground(t)

AnyWakeup(t) ==
  \/ WakeIdle(t)
  \/ \E pc \in {"scan", "enq"} : WakeBusy(t, pc)
  \/ \E pc \in {"scan", "age", "enq"} : ScanStep(t, pc)
  \/ ActivateShared(t) /\ AnyInsert(t)
  \/ ActivateLocal(t)

\* What ops.dispatch finds out about the DSQs, in order; a scheduler may look at
\* the first one again before it gives up.
AnyDispatch(c) ==
  \/ cpc[c] \in {"dispatch", "recheck"} /\ TakeForeground(c)
  \/ cpc[c] = "dispatch" /\ fgq = <<>> /\ Advance(c, "dispatchBg")
  \/ cpc[c] = "dispatchBg" /\ TakeBackground(c)
  \/ cpc[c] = "dispatchBg" /\ bgq = <<>> /\ (NothingFound(c) \/ Advance(c, "recheck"))
  \/ cpc[c] = "recheck" /\ fgq = <<>> /\ NothingFound(c)

AnyPutPrev(c) ==
  /\ PutPrev(c)
  /\ IF PrevRunnable(c) THEN AnyInsert(curr[c]) ELSE UNCHANGED dsqVars

AnySchedule(c) ==
  \/ SliceExpires(c) \/ Block(c) \/ Balance(c)
  \/ AnyDispatch(c)
  \/ AnyPutPrev(c)
  \/ \E pc \in {"run", "running"} : SetNext(c, pc)
  \/ RunningDone(c)

AnyNext ==
  \/ \E t \in Tasks : AnyWakeup(t)
  \/ \E c \in CPUs : AnySchedule(c) \/ Preempt(c)

\* The promise: the concrete schedulers are checked to implement it.
AnyPolicy == CoreInit /\ [][AnyNext]_<<coreVars, dsqVars>>

-------------------------------------------------------------------------------
(***************************************************************************)
(* Properties                                                              *)
(***************************************************************************)
\* Where a runnable task can be: a position in a DSQ, or a CPU that has not yet
\* put it back.
Positions(dsq, q, t) == {<<dsq, i>> : i \in {j \in DOMAIN q : q[j] = t}}
LocalPositions(t) == UNION {Positions(c, local[c], t) : c \in CPUs}
Holders(t) == {<<"cpu", c>> : c \in {d \in CPUs : curr[d] = t /\ cpc[d] # "next"}}
Places(t) ==
  Positions("fg", fgq, t) \cup Positions("bg", bgq, t) \cup LocalPositions(t) \cup Holders(t)

\* A runnable task is in exactly one place and any other task in no queue: no
\* interleaving of wake-ups, direct dispatch, dispatch and preemption on several
\* CPUs loses a task or queues it twice.
OnePlace ==
  \A t \in Tasks :
    IF tpc[t] = "ready"
    THEN \E p \in Places(t) : Places(t) = {p}
    ELSE Places(t) \subseteq Holders(t)

\* A CPU that is or will be in schedule() and has yet to look at the first DSQ
\* (at the second).
WillProbeForeground(c) == IF cpc[c] = "idle" THEN c \in resched ELSE cpc[c] # "dispatchBg"
WillProbeBackground(c) == IF cpc[c] = "idle" THEN c \in resched ELSE cpc[c] # "recheck"

\* A queued task always has a CPU that will look at its queue: the machine never
\* falls asleep with work in a DSQ, although enqueue kicks nobody and a CPU may
\* go idle in the window between another waker's idle test and its enqueue.
NoStall ==
  /\ fgq # <<>> => \E c \in CPUs : WillProbeForeground(c)
  /\ bgq # <<>> => \E c \in CPUs : WillProbeBackground(c)

(***************************************************************************)
(* PlaceInv, the inductive strengthening of OnePlace.  A task switched     *)
(* away from stays curr until the switch is made; by then ("next") it may  *)
(* be back in a DSQ.                                                       *)
(***************************************************************************)
In(q, t) == \E i \in 1 .. Len(q) : q[i] = t
NoDup(q) == \A i, j \in 1 .. Len(q) : q[i] = q[j] => i = j
Queued(t) == In(fgq, t) \/ In(bgq, t) \/ \E c \in CPUs : In(local[c], t)
OnCpu(t) == \E c \in CPUs : curr[c] = t /\ cpc[c] # "next"

NoDuplicates == NoDup(fgq) /\ NoDup(bgq) /\ \A c \in CPUs : NoDup(local[c])

TaskPlaced(t) ==
  /\ ~(In(fgq, t) /\ In(bgq, t))
  /\ \A c \in CPUs : In(local[c], t) =>
       /\ ~In(fgq, t) /\ ~In(bgq, t)
       /\ \A d \in CPUs : curr[d] # t /\ (In(local[d], t) => d = c)
  /\ \A c \in CPUs : curr[c] = t /\ (In(fgq, t) \/ In(bgq, t)) => cpc[c] = "next"
  /\ Queued(t) => tpc[t] = "ready"
  /\ tpc[t] = "ready" => Queued(t) \/ OnCpu(t)
  /\ \A c, d \in CPUs : curr[c] = t /\ curr[d] = t => c = d

CpuOwns(c) ==
  /\ curr[c] \in Tasks => tpc[curr[c]] \in {"ready", "asleep"}
  /\ cpc[c] \in {"run", "running"} => curr[c] \in Tasks /\ tpc[curr[c]] = "ready"
  /\ cpc[c] = "blocked" => curr[c] \in Tasks /\ tpc[curr[c]] = "asleep"
  /\ cpc[c] = "idle" => curr[c] = NoTask

PlaceInv ==
  /\ NoDuplicates
  /\ \A t \in Tasks : TaskPlaced(t)
  /\ \A c \in CPUs : CpuOwns(c)

\* A CPU about to switch has a task in its local DSQ to switch to.
LocalReady == \A c \in CPUs : cpc[c] \in {"put", "next"} => local[c] # <<>>

\* The inductive invariant of the abstract scheduler.
CoreInv == CoreTypeOK /\ LocalReady /\ PlaceInv /\ NoStall

===============================================================================
