------------------------ MODULE SelectivePreempt_proofs ------------------------
(***************************************************************************)
(* Theorems about SelectivePreempt, for any number of tasks and CPUs: it   *)
(* implements the abstract scheduler TwoDsq, whose promises it therefore   *)
(* keeps (TwoDsq_proofs), and its flag array can be trusted.               *)
(***************************************************************************)
EXTENDS SelectivePreempt, BgPreempt_proofs

\* The inductive invariant of SelectivePreempt.
SelectiveInv == CoreInv /\ PreemptTypes /\ bg \in [Tasks -> BOOLEAN]

LEMMA StepOfPolicy ==
  ASSUME PreemptTypes, [Next]_vars
  PROVE  [AnyNext]_<<coreVars, dsqVars>>
<1>1. ASSUME NEW t \in Tasks, SelectCpu(t) \/ WakeupStep(t) PROVE AnyNext
  <2>1. \E b : WakeupAs(t, b)
    BY <1>1, WholeArray, ScanIsOn DEF SelectCpu, WakeupStep, WakeupAs
  <2> QED
    BY <2>1, WakeupIsPolicy
<1>2. ASSUME NEW c \in CPUs, ScheduleStep(c) \/ SliceStep(c) \/ BlockStep(c) PROVE AnyNext
  <2>1. CASE DispatchForeground(c) \/ DispatchBackground(c)
    <3>1. AnyDispatch(c)
      BY <2>1 DEF DispatchForeground, DispatchBackground, AnyDispatch
    <3> QED
      BY <3>1 DEF AnyNext, AnySchedule
  <2>2. CASE ~(DispatchForeground(c) \/ DispatchBackground(c))
    <3>1. \E b : ScheduleAs(c, b)
      BY <1>2, <2>2 DEF ScheduleStep, SliceStep, BlockStep, ScheduleAs
    <3> QED
      BY <3>1, ScheduleIsPolicy
  <2> QED
    BY <2>1, <2>2
<1>3. ASSUME (\E c \in CPUs : Rename(c)) \/ TimePasses \/ UNCHANGED vars
      PROVE  UNCHANGED <<coreVars, dsqVars>>
  BY <1>3 DEF Rename, TimePasses, vars
<1> QED
  BY <1>1, <1>2, <1>3 DEF Next

LEMMA TypesNextSelective ==
  ASSUME tpc \in [Tasks -> TaskPcs], PreemptTypes, bg \in [Tasks -> BOOLEAN], [Next]_vars
  PROVE  PreemptTypes' /\ bg' \in [Tasks -> BOOLEAN]
<1>1. ASSUME NEW t \in Tasks, (SelectCpu(t) /\ UNCHANGED bg) \/ WakeupStep(t)
      PROVE  PreemptTypes' /\ UNCHANGED bg
  <2>1. UNCHANGED bg /\ \E b : WakeupAs(t, b)
    BY <1>1, WholeArray, ScanIsOn DEF SelectCpu, WakeupStep, WakeupAs
  <2> QED
    BY <2>1, PreemptTypesWakeup
<1>2. ASSUME NEW c \in CPUs, ScheduleStep(c) \/ SliceStep(c) \/ BlockStep(c)
      PROVE  PreemptTypes' /\ UNCHANGED bg
  <2>1. CASE DispatchForeground(c) \/ DispatchBackground(c)
    <3>1. AnyDispatch(c) /\ UNCHANGED preemptVars
      BY <2>1 DEF DispatchForeground, DispatchBackground, AnyDispatch
    <3> QED
      BY <1>2, <3>1, PreemptTypesDispatch DEF ScheduleStep, SliceStep, BlockStep
  <2>2. CASE ~(DispatchForeground(c) \/ DispatchBackground(c))
    <3>1. \E b : ScheduleAs(c, b)
      BY <1>2, <2>2 DEF ScheduleStep, SliceStep, BlockStep, ScheduleAs
    <3> QED
      BY <1>2, <3>1, PreemptTypesSchedule DEF ScheduleStep, SliceStep, BlockStep
  <2> QED
    BY <2>1, <2>2
<1>3. ASSUME NEW c \in CPUs, Rename(c) PROVE PreemptTypes' /\ bg' \in [Tasks -> BOOLEAN]
  BY <1>3, PreemptTypesKept DEF Rename, coreVars
<1>4. CASE TimePasses /\ UNCHANGED bg
  BY <1>4, PreemptTypesTime
<1>5. CASE UNCHANGED vars
  BY <1>5, PreemptTypesKept DEF vars, coreVars
<1> QED
  BY <1>1, <1>2, <1>3, <1>4, <1>5 DEF Next

LEMMA SelectiveInvHolds == Spec => []SelectiveInv
<1>1. Init => SelectiveInv
  BY CoreInvInit, PreemptTypesInit DEF Init, SelectiveInv
<1>2. SelectiveInv /\ [Next]_vars => SelectiveInv'
  BY StepOfPolicy, CoreInvNext, TypesNextSelective DEF SelectiveInv, CoreInv, CoreTypeOK
<1> QED
  BY <1>1, <1>2, PTL DEF Spec

\* Type correctness: every reachable state is well typed; a scan stays inside the
\* arrays, and every kick names an existing CPU.
THEOREM TypeCorrect == Spec => []TypeOK
<1>1. SelectiveInv => TypeOK
  BY DEF SelectiveInv, CoreInv, PreemptTypes, TypeOK
<1> QED
  BY <1>1, SelectiveInvHolds, PTL

\* redis_aware and rocksdb_aware implement the abstract scheduler: their kicks,
\* flags and time stamps do nothing to the queues that it does not allow.
THEOREM SelectiveIsPolicy == Spec => AnyPolicy
<1>1. Init => CoreInit
  BY DEF Init
<1>2. SelectiveInv /\ [Next]_vars => [AnyNext]_<<coreVars, dsqVars>>
  BY StepOfPolicy DEF SelectiveInv
<1> QED
  BY <1>1, <1>2, SelectiveInvHolds, PTL DEF Spec, AnyPolicy

\* No interleaving of wake-ups, direct dispatch, kicks and switches loses a task
\* or queues it twice.
THEOREM SelectiveOnePlace == Spec => []OnePlace
BY SelectiveIsPolicy, NoTaskLostOrDoubled, PTL

\* A task in FOREGROUND_DSQ or BACKGROUND_DSQ always has a CPU that is going to
\* look there, though enqueue kicks nobody.
THEOREM SelectiveNoStall == Spec => []NoStall
BY SelectiveIsPolicy, WorkIsNeverStranded, PTL

-------------------------------------------------------------------------------
\* A thread only ever turns into a background one, and only if it is a renamer.
LEMMA FlagNext ==
  ASSUME SelectiveInv, FlagTrusted, [Next]_vars
  PROVE  FlagTrusted'
<1> DEFINE firm == Tasks \ Renamers
<1>1. PICK hog \in [Tasks -> BOOLEAN] : hog = bg
  BY DEF SelectiveInv
<1>c. CoreInv /\ PreemptTypes /\ FlagsShow(hog, firm)
  BY <1>1 DEF SelectiveInv, FlagTrusted
<1>b. PICK later \in [Tasks -> BOOLEAN] : later = bg'
  BY TypesNextSelective DEF SelectiveInv, CoreInv, CoreTypeOK
<1>2. /\ \A t \in Tasks : hog[t] => later[t]
      /\ \A t \in firm : later[t] => hog[t]
  <2>1. UNCHANGED bg \/ \E c \in CPUs : Rename(c)
    BY DEF Next, WakeupStep, ScheduleStep, SliceStep, BlockStep, vars
  <2>2. ASSUME NEW c \in CPUs, Rename(c)
        PROVE  /\ \A t \in Tasks : bg[t] => bg'[t]
               /\ \A t \in firm : bg'[t] => bg[t]
    BY <2>2 DEF Rename, SelectiveInv
  <2> QED
    BY <1>1, <1>b, <2>1, <2>2
<1> HIDE DEF firm
<1>3. ASSUME NEW t \in Tasks, SelectCpu(t) \/ WakeupStep(t) PROVE FlagsShow(hog, firm)'
  <2>1. \E b : WakeupAs(t, b)
    BY <1>3, WholeArray, ScanIsOn DEF SelectCpu, WakeupStep, WakeupAs
  <2> QED
    BY <2>1, <1>c, FlagsWakeup
<1>4. ASSUME NEW c \in CPUs, ScheduleStep(c) \/ SliceStep(c) \/ BlockStep(c)
      PROVE  FlagsShow(hog, firm)'
  <2>1. CASE DispatchForeground(c) \/ DispatchBackground(c)
    <3>1. AnyDispatch(c) /\ UNCHANGED bg_running
      BY <2>1 DEF DispatchForeground, DispatchBackground, AnyDispatch, preemptVars, mapVars
    <3> QED
      BY <3>1, <1>c, FlagsDispatch
  <2>2. ASSUME PutPrevTask(c, curr[c] # NoTask /\ hog[curr[c]]) PROVE FlagsShow(hog, firm)'
    <3>1. PrevRunnable(c) => curr[c] # NoTask /\ hog[curr[c]] \in BOOLEAN
      BY <1>c DEF PrevRunnable, CoreInv, CoreTypeOK
    <3>2. PrevRunnable(c) => (curr[c] # NoTask /\ hog[curr[c]]) = hog[curr[c]]
      BY <3>1
    <3> QED
      BY <2>2, <3>2, <1>c, FlagsSchedule
  <2>3. ASSUME \/ StartNext(c, hog[Head(local[c])]) \/ TaskBlocks(c, hog[curr[c]])
               \/ BalanceCpu(c) \/ StampStart(c) \/ SliceEnds(c)
        PROVE  FlagsShow(hog, firm)'
    BY <2>3, <1>c, FlagsSchedule
  <2> QED
    BY <1>1, <1>4, <2>1, <2>2, <2>3 DEF ScheduleStep, SliceStep, BlockStep
<1>5. ASSUME (\E c \in CPUs : Rename(c)) \/ TimePasses \/ UNCHANGED vars
      PROVE  FlagsShow(hog, firm)'
  <2>1. UNCHANGED <<coreVars, bg_running>>
    BY <1>5 DEF Rename, TimePasses, vars, preemptVars, mapVars
  <2> QED
    BY <2>1, <1>c, FlagsTime
<1>6. FlagsShow(hog, firm)'
  BY <1>3, <1>4, <1>5 DEF Next
<1>7. CoreTypeOK'
  BY StepOfPolicy, CoreInvNext DEF SelectiveInv, CoreInv
<1>8. FlagsShow(later, firm)'
  BY <1>2, <1>6, <1>7, FlagsChange
<1> QED
  BY <1>b, <1>8 DEF FlagTrusted, firm

\* A flag that is set tells the truth, so select_cpu never kicks a CPU because of a
\* flag that stopping forgot to clear; and it is set for every background thread
\* that runs, but for one that took its name since it was switched to.
THEOREM FlagIsTrusted == Spec => []FlagTrusted
<1>1. Init => FlagTrusted
  BY DEF Init, CoreInit, PreemptInit, FlagTrusted, FlagsShow, BetweenCallbacks, PrevRunnable
<1>2. SelectiveInv /\ FlagTrusted /\ [Next]_vars => FlagTrusted'
  BY FlagNext
<1> QED
  BY <1>1, <1>2, SelectiveInvHolds, PTL DEF Spec

===============================================================================
