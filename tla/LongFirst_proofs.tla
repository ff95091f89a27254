---------------------------- MODULE LongFirst_proofs ---------------------------
(***************************************************************************)
(* The example scheduler implements the abstract one, and its tracker of   *)
(* file names never holds an entry of a process that is gone, for any      *)
(* number of threads, processes, CPUs and map entries.                     *)
(***************************************************************************)
EXTENDS LongFirst, TwoDsq_proofs, FiniteSetTheorems

\* What threads do to their names, files and processes touches no queue; every other
\* step of the example scheduler is one of the abstract scheduler.
THEOREM LongIsPolicy == Spec => AnyPolicy
<1>1. Init => CoreInit
  BY DEF Init
<1>2. ASSUME [Next]_vars PROVE [AnyNext]_<<coreVars, dsqVars>>
  <2>1. ASSUME NEW t, enqueue(t) PROVE AnyInsert(t)
    BY <2>1 DEF enqueue, AnyInsert
  <2>2. ASSUME NEW t \in Tasks, SelectCpu(t) \/ WakeupStep(t) PROVE AnyNext
    <3>1. AnyWakeup(t)
      BY <2>1, <2>2 DEF SelectCpu, WakeupStep, AnyWakeup
    <3> QED
      BY <3>1 DEF AnyNext
  <2>3. ASSUME NEW c \in CPUs, ScheduleStep(c) \/ SliceStep(c) \/ BlockStep(c) PROVE AnyNext
    <3>1. CASE PutPrevTask(c)
      <4>1. AnyPutPrev(c)
        BY <2>1, <3>1 DEF PutPrevTask, AnyPutPrev
      <4> QED
        BY <4>1 DEF AnyNext, AnySchedule
    <3>2. CASE DispatchLong(c) \/ DispatchShort(c)
      <4>1. AnyDispatch(c)
        BY <3>2 DEF DispatchLong, DispatchShort, AnyDispatch
      <4> QED
        BY <4>1 DEF AnyNext, AnySchedule
    <3>3. CASE Balance(c) \/ SetNext(c, "run") \/ SliceExpires(c) \/ Block(c)
      BY <3>3 DEF AnyNext, AnySchedule
    <3> QED
      BY <2>3, <3>1, <3>2, <3>3 DEF ScheduleStep, SliceStep, BlockStep
  <2>4. ASSUME (\E t \in Tasks : Born(t)) \/ UNCHANGED vars PROVE UNCHANGED <<coreVars, dsqVars>>
    BY <2>4 DEF Born, vars
  <2>5. ASSUME NEW c \in CPUs, Rename(c) \/ Exec(c) \/ ExecTraced(c) \/ ExitTraced(c)
        PROVE  UNCHANGED <<coreVars, dsqVars>>
    BY <2>5 DEF Rename, Exec, ExecTraced, ExitTraced
  <2> QED
    BY <1>2, <2>2, <2>3, <2>4, <2>5 DEF Next
<1> QED
  BY <1>1, <1>2, PTL DEF Spec, AnyPolicy

\* No thread is lost or queued twice, whatever happens to its class.
THEOREM LongOnePlace == Spec => []OnePlace
BY LongIsPolicy, NoTaskLostOrDoubled, PTL

\* No thread waits in LONG_DSQ or SHORT_DSQ unseen by all CPUs.
THEOREM LongNoStall == Spec => []NoStall
BY LongIsPolicy, WorkIsNeverStranded, PTL

-------------------------------------------------------------------------------
(***************************************************************************)
(* The tracker.                                                            *)
(***************************************************************************)
\* The variables of the tracker are functions on the threads.
TrackTypeOK ==
  /\ file \in [Tasks -> Files \cup {"none"}]
  /\ comm \in [Tasks -> BOOLEAN]
  /\ exe \in [Tasks -> Files]
  /\ life \in [Tasks -> Lives]

\* Only a main thread is ever inside execve().
OnlyMainsExec == \A t \in Tasks : life[t] = "execing" => t \in Mains

TrackInv == TrackTypeOK /\ OnlyMainsExec /\ TrackerTruthful

\* A CPU in user mode runs a thread.
LEMMA RunsTask ==
  ASSUME CoreInv, NEW c \in CPUs, cpc[c] = "run"
  PROVE  curr[c] \in Tasks
BY DEF CoreInv, PlaceInv, CpuOwns

\* What a thread does in user mode or in a system call preserves the invariant: it
\* enters execve() with the old entry or none, leaves it with the entry replaced, new
\* or refused, and exits without one.
LEMMA ThreadTracked ==
  ASSUME CoreInv, TrackInv, NEW c \in CPUs,
         Rename(c) \/ Exec(c) \/ ExecTraced(c) \/ ExitTraced(c) \/ BlockStep(c)
  PROVE  TrackInv'
<1> USE DEF TrackInv, TrackTypeOK, OnlyMainsExec, TrackerTruthful, Entries, Files, Lives, Mains
<1>1. curr[c] \in Tasks
  BY RunsTask DEF Rename, Exec, ExecTraced, ExitTraced, BlockStep, Block, Runs
<1>2. CASE Rename(c)
  BY <1>1, <1>2 DEF Rename, Runs
<1>3. CASE Exec(c)
  <2>1. PICK f \in Files : /\ exe' = [exe EXCEPT ![curr[c]] = f]
                           /\ comm' = [comm EXCEPT ![curr[c]] = f = "large"]
    BY <1>3 DEF Exec
  <2> QED
    BY <1>1, <1>3, <2>1 DEF Exec, Runs
<1>4. CASE ExecTraced(c)
  BY <1>1, <1>4 DEF ExecTraced, Runs, pid_filename_handle_exec
<1>5. CASE ExitTraced(c)
  BY <1>1, <1>5 DEF ExitTraced, Runs, pid_filename_handle_exit
<1>6. CASE BlockStep(c)
  <2>1. CASE life[curr[c]] = "exiting"
    <3>1. /\ life' = [life EXCEPT ![curr[c]] = "free"]
          /\ exe' = [exe EXCEPT ![curr[c]] = "other"]
          /\ comm' = [comm EXCEPT ![curr[c]] = FALSE]
          /\ file' = file
      BY <1>6, <2>1 DEF BlockStep
    <3>2. curr[c] \notin Entries
      BY <1>1, <2>1
    <3> QED
      BY <1>1, <3>1, <3>2
  <2>2. CASE life[curr[c]] # "exiting"
    BY <1>6, <2>2 DEF BlockStep
  <2> QED
    BY <2>1, <2>2
<1> QED
  BY <1>2, <1>3, <1>4, <1>5, <1>6

\* A thread is born without an entry.
LEMMA BornTracked ==
  ASSUME TrackInv, NEW t \in Tasks, Born(t)
  PROVE  TrackInv'
<1> USE DEF TrackInv, TrackTypeOK, OnlyMainsExec, TrackerTruthful, Entries, Files, Lives, Mains
<1>1. exe' \in [Tasks -> Files] /\ comm' \in [Tasks -> BOOLEAN]
  BY DEF Born, Siblings
<1>2. \A s \in Tasks \ {t} : exe'[s] = exe[s]
  BY DEF Born
<1>3. life[t] = "free" /\ life' = [life EXCEPT ![t] = "user"] /\ file' = file
  BY DEF Born
<1>4. t \notin Entries
  BY <1>3
<1> QED
  BY <1>1, <1>2, <1>3, <1>4

-------------------------------------------------------------------------------
(***************************************************************************)
(* What happens to entries.                                                *)
(***************************************************************************)
\* Both handlers change the map only for the thread that runs: the first one sets its
\* entry, unless the map is full, the second one may remove it.
LEMMA FileSteps ==
  ASSUME CoreInv, TrackInv, [Next]_vars
  PROVE  \/ UNCHANGED file
         \/ \E t \in Tasks, f \in Files :
              /\ t \in Entries \/ Cardinality(Entries) < MaxEntries
              /\ file' = [file EXCEPT ![t] = f]
         \/ \E t \in Tasks : file' = [file EXCEPT ![t] = "none"]
<1>1. ASSUME NEW c \in CPUs, ExecTraced(c)
      PROVE  \/ UNCHANGED file
             \/ \E t \in Tasks, f \in Files :
                  /\ t \in Entries \/ Cardinality(Entries) < MaxEntries
                  /\ file' = [file EXCEPT ![t] = f]
  <2>1. curr[c] \in Tasks
    BY <1>1, RunsTask DEF ExecTraced, Runs
  <2>2. exe[curr[c]] \in Files
    BY <2>1 DEF TrackInv, TrackTypeOK
  <2> QED
    BY <1>1, <2>1, <2>2 DEF ExecTraced, pid_filename_handle_exec
<1>2. ASSUME NEW c \in CPUs, ExitTraced(c)
      PROVE  UNCHANGED file \/ \E t \in Tasks : file' = [file EXCEPT ![t] = "none"]
  <2>1. curr[c] \in Tasks
    BY <1>2, RunsTask DEF ExitTraced, Runs
  <2> QED
    BY <1>2, <2>1 DEF ExitTraced, Runs, pid_filename_handle_exit
<1>3. ASSUME NEW c \in CPUs, ScheduleStep(c) \/ SliceStep(c) \/ BlockStep(c) \/ Rename(c) \/ Exec(c)
      PROVE  UNCHANGED file
  BY <1>3 DEF ScheduleStep, SliceStep, BlockStep, Rename, Exec, trackVars
<1>4. ASSUME NEW t \in Tasks, (SelectCpu(t) /\ UNCHANGED trackVars) \/ WakeupStep(t) \/ Born(t)
      PROVE  UNCHANGED file
  BY <1>4 DEF WakeupStep, Born, trackVars
<1>5. CASE UNCHANGED vars
  BY <1>5 DEF vars, trackVars
<1> QED
  BY <1>1, <1>2, <1>3, <1>4, <1>5 DEF Next

\* The map stays within its size.
EntriesBounded == IsFiniteSet(Entries) /\ Cardinality(Entries) <= MaxEntries

LEMMA EntriesStep ==
  ASSUME CoreInv, TrackInv, EntriesBounded, [Next]_vars
  PROVE  EntriesBounded'
<1> USE DEF EntriesBounded
<1>1. file \in [Tasks -> Files \cup {"none"}] /\ MaxEntries \in Nat
  BY LongAssumption DEF TrackInv, TrackTypeOK
<1>2. CASE UNCHANGED file
  BY <1>2 DEF Entries
<1>3. ASSUME NEW t \in Tasks, NEW f \in Files, file' = [file EXCEPT ![t] = f],
             t \in Entries \/ Cardinality(Entries) < MaxEntries
      PROVE  EntriesBounded'
  <2>1. Entries' = Entries \cup {t}
    BY <1>1, <1>3 DEF Entries, Files
  <2>2. CASE t \in Entries
    BY <2>1, <2>2
  <2>3. CASE t \notin Entries
    <3>1. IsFiniteSet(Entries') /\ Cardinality(Entries') = Cardinality(Entries) + 1
      BY <2>1, <2>3, FS_AddElement
    <3>2. Cardinality(Entries) \in Nat
      BY FS_CardinalityType
    <3> QED
      BY <1>1, <1>3, <2>3, <3>1, <3>2
  <2> QED
    BY <2>2, <2>3
<1>4. ASSUME NEW t \in Tasks, file' = [file EXCEPT ![t] = "none"]
      PROVE  EntriesBounded'
  <2>1. Entries' \subseteq Entries
    BY <1>1, <1>4 DEF Entries
  <2>2. IsFiniteSet(Entries') /\ Cardinality(Entries') <= Cardinality(Entries)
    BY <2>1, FS_Subset
  <2>3. Cardinality(Entries) \in Nat /\ Cardinality(Entries') \in Nat
    BY <2>2, FS_CardinalityType
  <2> QED
    BY <1>1, <2>2, <2>3
<1> QED
  BY <1>2, <1>3, <1>4, FileSteps

LEMMA TrackInvariant == Spec => [](CoreInv /\ TrackInv)
<1>1. Init => TrackInv
  BY DEF Init, TrackInv, TrackTypeOK, OnlyMainsExec, TrackerTruthful, Entries, Files, Lives
<1>2. ASSUME CoreInv, TrackInv, [Next]_vars PROVE TrackInv'
  <2>1. CASE UNCHANGED trackVars
    BY <1>2, <2>1 DEF trackVars, TrackInv, TrackTypeOK, OnlyMainsExec, TrackerTruthful, Entries
  <2>2. CASE ~UNCHANGED trackVars
    BY <1>2, <2>2, ThreadTracked, BornTracked DEF Next, vars, WakeupStep, ScheduleStep, SliceStep
  <2> QED
    BY <2>1, <2>2
<1>3. Spec => []CoreInv
  BY LongIsPolicy, AnyPolicyCorrect, PTL
<1> QED
  BY <1>1, <1>2, <1>3, PTL DEF Spec

\* Entries belong to living processes and name the files they execute, for any
\* number of processes and any size of the map.
THEOREM TrackerIsTruthful == Spec => []TrackerTruthful
<1>1. TrackInv => TrackerTruthful
  BY DEF TrackInv
<1> QED
  BY <1>1, TrackInvariant, PTL

\* Every reachable state is well typed: in particular the map is never over-full.
THEOREM LongTypeCorrect == Spec => []TypeOK
<1>1. Init => EntriesBounded
  <2>1. ASSUME Init PROVE Entries = {}
    BY <2>1 DEF Init, Entries
  <2> QED
    BY <2>1, FS_EmptySet, LongAssumption DEF EntriesBounded
<1>2. CoreInv /\ TrackInv /\ EntriesBounded /\ [Next]_vars => EntriesBounded'
  BY EntriesStep
<1>3. CoreInv /\ TrackInv /\ EntriesBounded => TypeOK
  BY DEF CoreInv, TrackInv, TrackTypeOK, EntriesBounded, TypeOK
<1> QED
  BY <1>1, <1>2, <1>3, TrackInvariant, PTL DEF Spec

===============================================================================
