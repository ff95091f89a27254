-------------------------------- MODULE DualDsq --------------------------------
(***************************************************************************)
(* db_aware.bpf.c: QUERY_DSQ (here fgq) for threads whose comm begins with *)
(* "query", COMPACT_DSQ (bgq) for all others, no preemption and no state   *)
(* of its own.  The comm is read anew by every callback; the threads of    *)
(* db_sim inherit "db_sim" and name themselves once they run.              *)
(***************************************************************************)
EXTENDS TwoDsq

CONSTANT Queries  \* the threads that name themselves "query-N"

ASSUME DualAssumption == Queries \subseteq Tasks

VARIABLE query  \* is_query_task(p), as comm stands now

vars == <<coreVars, dsqVars, query>>

Init == CoreInit /\ query = [t \in Tasks |-> FALSE]

\* select_cpu: the idle fast path, else prev_cpu without any scan.
SelectCpu(t) == WakeIdle(t) \/ WakeBusy(t, "enq")

\* Mutant: the query branch falls through to the other one.
EnqueueTwice(t) ==
  /\ fgq' = IF query[t] THEN Append(fgq, t) ELSE fgq
  /\ bgq' = Append(bgq, t)

enqueue(t) ==
  \/ query[t] /\ InsertForeground(t)
  \/ ~query[t] /\ InsertBackground(t)

EnqueueWoken(t) == ActivateShared(t) /\ enqueue(t)

\* Mutant: nothing is moved from QUERY_DSQ.
DispatchNoQuery(c) == cpc[c] = "dispatch" /\ Advance(c, "dispatchBg")

\* dispatch: the move from QUERY_DSQ.
DispatchQuery(c) ==
  /\ cpc[c] = "dispatch"
  /\ \/ TakeForeground(c)
     \/ fgq = <<>> /\ Advance(c, "dispatchBg")

\* Mutant: nothing is moved from COMPACT_DSQ.
DispatchNoCompact(c) == cpc[c] = "dispatchBg" /\ NothingFound(c)

\* dispatch: the move from COMPACT_DSQ when QUERY_DSQ gave nothing.
DispatchCompact(c) ==
  /\ cpc[c] = "dispatchBg"
  /\ \/ TakeBackground(c)
     \/ bgq = <<>> /\ NothingFound(c)

\* put_prev: a runnable prev is enqueued.
PutPrevTask(c) ==
  /\ PutPrev(c)
  /\ \/ PrevRunnable(c) /\ enqueue(curr[c])
     \/ ~PrevRunnable(c) /\ UNCHANGED dsqVars

\* A query thread of db_sim names itself.
Rename(c) ==
  /\ cpc[c] = "run" /\ curr[c] \in Queries /\ ~query[curr[c]]
  /\ query' = [query EXCEPT ![curr[c]] = TRUE]
  /\ UNCHANGED <<coreVars, dsqVars>>

WakeupStep(t) == (EnqueueWoken(t) \/ ActivateLocal(t)) /\ UNCHANGED query

ScheduleStep(c) ==
  /\ \/ Balance(c) \/ DispatchQuery(c) \/ DispatchCompact(c)
     \/ PutPrevTask(c) \/ SetNext(c, "run")
  /\ UNCHANGED query

SliceStep(c) == SliceExpires(c) /\ UNCHANGED query

Next ==
  \/ \E t \in Tasks : (SelectCpu(t) /\ UNCHANGED query) \/ WakeupStep(t)
  \/ \E c \in CPUs : ScheduleStep(c) \/ SliceStep(c) \/ Rename(c) \/ (Block(c) /\ UNCHANGED query)

Spec == Init /\ [][Next]_vars

\* As in SelectivePreempt, and schedule() also gets the run-queue lock of a CPU
\* it takes a task from (the one step of it that can wait), first come first served.
Fairness ==
  /\ \A t \in Tasks : SF_vars(WakeupStep(t))
  /\ \A c \in CPUs : SF_vars(ScheduleStep(c)) /\ WF_vars(SliceStep(c))

FairSpec == Spec /\ Fairness

-------------------------------------------------------------------------------
(***************************************************************************)
(* Properties, besides OnePlace, NoStall and AnyPolicy of TwoDsq           *)
(***************************************************************************)
\* Without any preemption a query thread that has woken up still runs, at the
\* latest when the slices of the compaction threads before it are used up; so does
\* one inserted into the local DSQ of a claimed idle CPU, even if that CPU has
\* taken another thread in the meantime.
QueryServed == \A t \in Tasks : (query[t] /\ tpc[t] \in {"enq", "enqLocal"}) ~> Executes(t)

\* A compaction thread waits for ever only if query threads keep queueing.
CompactServedWhenQuiet ==
  \A t \in Tasks :
    <>[](fgq = <<>>) => []((~query[t] /\ tpc[t] = "enq") => <>Executes(t))

===============================================================================
