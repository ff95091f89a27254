------------------------------- MODULE LongFirst -------------------------------
(***************************************************************************)
(* example.bpf.c with pid_filename_header.h: threads of "large" programs   *)
(* go to LONG_DSQ (here fgq), all others to SHORT_DSQ (bgq).  A thread is  *)
(* classified by its comm or else by the file that two tracepoints, on     *)
(* exec and on exit, keep for each process in a bounded hash map.          *)
(*                                                                         *)
(* A task stands for its pid as well: after it has exited it may be born   *)
(* again, which is the reuse of the pid.  Leader[t] is p->tgid.            *)
(***************************************************************************)
EXTENDS TwoDsq, FiniteSets

CONSTANTS
  Leader,      \* maps a thread to the main thread of its process
  MaxEntries   \* MAX_PID_ENTRIES

ASSUME LongAssumption ==
  /\ Leader \in [Tasks -> Tasks]
  /\ \A t \in Tasks : Leader[Leader[t]] = Leader[t]
  /\ MaxEntries \in Nat \ {0}

Mains == {t \in Tasks : Leader[t] = t}
Siblings(t) == {s \in Tasks \ {t} : Leader[s] = Leader[t]}

Files == {"large", "other"}  \* does the path begin with "./large"
Lives == {"free", "user", "execing", "exiting"}

VARIABLES
  file,  \* pid_to_filename; "none" where there is no entry
  comm,  \* whether p->comm begins with "large" or "long"
  exe,   \* the file the process of a thread executes
  life   \* "free": the pid is unused; "execing", "exiting": inside that system
         \* call, before the one tracepoint, after the other

trackVars == <<file, comm, exe, life>>
vars == <<coreVars, dsqVars, trackVars>>

Entries == {t \in Tasks : file[t] # "none"}

TypeOK ==
  /\ CoreTypeOK
  /\ file \in [Tasks -> Files \cup {"none"}]
  /\ comm \in [Tasks -> BOOLEAN]
  /\ exe \in [Tasks -> Files]
  /\ life \in [Tasks -> Lives]
  /\ Cardinality(Entries) <= MaxEntries

Init ==
  /\ CoreInit
  /\ file = [t \in Tasks |-> "none"]
  /\ comm = [t \in Tasks |-> FALSE]
  /\ exe = [t \in Tasks |-> "other"]
  /\ life = [t \in Tasks |-> "free"]

-------------------------------------------------------------------------------
(***************************************************************************)
(* The callbacks                                                           *)
(***************************************************************************)
\* The map is read with p->pid, which for all threads but the main one is not the
\* key that the exec handler uses.
is_long_task(t) == comm[t] \/ file[t] = "large"

SelectCpu(t) == life[t] # "free" /\ (WakeIdle(t) \/ WakeBusy(t, "enq"))

\* Mutant: a long task is inserted twice.
EnqueueTwice(t) ==
  /\ fgq' = IF is_long_task(t) THEN Append(fgq, t) ELSE fgq
  /\ bgq' = Append(bgq, t)

enqueue(t) ==
  \/ is_long_task(t) /\ InsertForeground(t)
  \/ ~is_long_task(t) /\ InsertBackground(t)

WakeupStep(t) ==
  /\ (ActivateShared(t) /\ enqueue(t)) \/ ActivateLocal(t)
  /\ UNCHANGED trackVars

\* Mutant: LONG_DSQ is not moved from.
DispatchNoLong(c) == cpc[c] = "dispatch" /\ Advance(c, "dispatchBg")

DispatchLong(c) ==
  /\ cpc[c] = "dispatch"
  /\ \/ TakeForeground(c)
     \/ fgq = <<>> /\ Advance(c, "dispatchBg")

DispatchShort(c) ==
  /\ cpc[c] = "dispatchBg"
  /\ \/ TakeBackground(c)
     \/ bgq = <<>> /\ NothingFound(c)

\* put_prev: a runnable prev is enqueued.
PutPrevTask(c) ==
  /\ PutPrev(c)
  /\ \/ PrevRunnable(c) /\ enqueue(curr[c])
     \/ ~PrevRunnable(c) /\ UNCHANGED dsqVars

ScheduleStep(c) ==
  /\ \/ Balance(c) \/ DispatchLong(c) \/ DispatchShort(c)
     \/ PutPrevTask(c) \/ SetNext(c, "run")
  /\ UNCHANGED trackVars

SliceStep(c) == SliceExpires(c) /\ UNCHANGED trackVars

-------------------------------------------------------------------------------
(***************************************************************************)
(* Processes and the tracepoints                                           *)
(***************************************************************************)
\* fork() by a program outside or by a living process, or clone() of a new thread
\* by one of the same process; the pid is free once no thread is left.  File and
\* name are inherited.
Born(t) ==
  /\ life[t] = "free" /\ Wakeable(t)
  /\ t \in Mains => \A s \in Siblings(t) : life[s] = "free"
  /\ life' = [life EXCEPT ![t] = "user"]
  /\ \/ t \in Mains /\ UNCHANGED <<exe, comm>>
     \/ \E s \in IF t \in Mains THEN Mains ELSE Siblings(t) :
          /\ life[s] = "user"
          /\ exe' = [exe EXCEPT ![t] = exe[s]]
          /\ comm' = [comm EXCEPT ![t] = comm[s]]
  /\ UNCHANGED <<coreVars, dsqVars, file>>

\* What the thread that runs on c does in user mode or in a system call.
Runs(c, stage) == cpc[c] = "run" /\ life[curr[c]] = stage

\* A thread gives itself a name of its own.
Rename(c) ==
  /\ Runs(c, "user") /\ comm[curr[c]]
  /\ comm' = [comm EXCEPT ![curr[c]] = FALSE]
  /\ UNCHANGED <<coreVars, dsqVars, file, exe, life>>

\* execve() of a process whose other threads are gone sets comm ...
Exec(c) ==
  /\ Runs(c, "user")
  /\ curr[c] \in Mains /\ \A s \in Siblings(curr[c]) : life[s] = "free"
  /\ \E f \in Files : /\ exe' = [exe EXCEPT ![curr[c]] = f]
                      /\ comm' = [comm EXCEPT ![curr[c]] = f = "large"]
  /\ life' = [life EXCEPT ![curr[c]] = "execing"]
  /\ UNCHANGED <<coreVars, dsqVars, file>>

\* Mutant: the map grows without bound.
ExecUnbounded(t) == file' = [file EXCEPT ![t] = exe[t]]

\* ... and then reaches the tracepoint.  An update that needs a new entry fails if
\* the map is full.
pid_filename_handle_exec(t) ==
  IF t \in Entries \/ Cardinality(Entries) < MaxEntries
  THEN file' = [file EXCEPT ![t] = exe[t]]
  ELSE UNCHANGED file

ExecTraced(c) ==
  /\ Runs(c, "execing")
  /\ pid_filename_handle_exec(curr[c])
  /\ life' = [life EXCEPT ![curr[c]] = "user"]
  /\ UNCHANGED <<coreVars, dsqVars, comm, exe>>

\* Mutant: the entry is kept.
ExitKeepsEntry(t) == UNCHANGED file

\* Only the exit of the main thread removes the entry.
pid_filename_handle_exit(t) ==
  file' = IF t \in Mains THEN [file EXCEPT ![t] = "none"] ELSE file

ExitTraced(c) ==
  /\ Runs(c, "user")
  /\ pid_filename_handle_exit(curr[c])
  /\ life' = [life EXCEPT ![curr[c]] = "exiting"]
  /\ UNCHANGED <<coreVars, dsqVars, comm, exe>>

\* A thread that leaves the CPU without being runnable sleeps or, at the end of
\* exit, is gone.
BlockStep(c) ==
  /\ Block(c)
  /\ IF life[curr[c]] = "exiting"
     THEN /\ life' = [life EXCEPT ![curr[c]] = "free"]
          /\ exe' = [exe EXCEPT ![curr[c]] = "other"]
          /\ comm' = [comm EXCEPT ![curr[c]] = FALSE]
     ELSE UNCHANGED <<life, exe, comm>>
  /\ UNCHANGED file

Next ==
  \/ \E t \in Tasks : (SelectCpu(t) /\ UNCHANGED trackVars) \/ WakeupStep(t) \/ Born(t)
  \/ \E c \in CPUs : ScheduleStep(c) \/ SliceStep(c) \/ BlockStep(c)
  \/ \E c \in CPUs : Rename(c) \/ Exec(c) \/ ExecTraced(c) \/ ExitTraced(c)

Spec == Init /\ [][Next]_vars

\* As in DualDsq.  Threads need not be born, wake up, block, exec or exit.
Fairness ==
  /\ \A t \in Tasks : SF_vars(WakeupStep(t))
  /\ \A c \in CPUs : SF_vars(ScheduleStep(c)) /\ WF_vars(SliceStep(c))

FairSpec == Spec /\ Fairness

-------------------------------------------------------------------------------
(***************************************************************************)
(* Properties, besides OnePlace, NoStall and AnyPolicy of TwoDsq           *)
(***************************************************************************)
\* "cleanup when process exits": an entry always belongs to a process whose main
\* thread is alive, and outside execve() it names the file that process executes,
\* never that of an earlier owner of the pid.  So entries do not accumulate, and an
\* update is refused only if that many processes live.
TrackerTruthful ==
  \A t \in Entries :
    /\ t \in Mains /\ life[t] \in {"user", "execing"}
    /\ life[t] = "user" => file[t] = exe[t]

\* "always dispatches from long task queue first": a long task that has woken up
\* runs eventually, however many short tasks there are.
LongServed ==
  \A t \in Tasks : (is_long_task(t) /\ tpc[t] \in {"enq", "enqLocal"}) ~> Executes(t)

===============================================================================
