---------------------------- MODULE Asymmetric_proofs --------------------------
(***************************************************************************)
(* Theorems about Asymmetric (nginx_aware), for any number of tasks and    *)
(* CPUs: it implements the abstract scheduler TwoDsq, and its cached       *)
(* classes make the flag array exact even if threads exec as they run.     *)
(***************************************************************************)
EXTENDS Asymmetric, BgPreempt_proofs

ClassTypes ==
  comm \in [Tasks -> Classes] /\ class \in [Tasks -> Classes \cup {"unknown"}]

\* The inductive invariant of Asymmetric.
AsymmetricInv == CoreInv /\ PreemptTypes /\ ClassTypes

\* The steps that ops.dispatch and the kernel's looks at SCX_DSQ_GLOBAL make.
LookStep(c) == ConsumeGlobal(c) \/ Dispatch(c) \/ ConsumeGlobalAgain(c)

LEMMA LookIsDispatch ==
  ASSUME NEW c, LookStep(c) PROVE AnyDispatch(c) /\ UNCHANGED preemptVars
BY DEF LookStep, ConsumeGlobal, Dispatch, ConsumeGlobalAgain, AnyDispatch

\* The loop of select_cpu stays in the array.
LEMMA LimitInRange == ScanLimit \in 1 .. MaxCpus
BY CoreAssumption, PreemptAssumption DEF ScanLimit

LEMMA StepOfPolicy ==
  ASSUME PreemptTypes, [Next]_vars
  PROVE  [AnyNext]_<<coreVars, dsqVars>>
<1>1. ASSUME NEW t \in Tasks, SelectCpu(t) \/ WakeupStep(t) PROVE AnyNext
  <2>1. \E b : WakeupAs(t, b)
    BY <1>1, LimitInRange, ScanIsOn DEF SelectCpu, WakeupStep, WakeupAs
  <2> QED
    BY <2>1, WakeupIsPolicy
<1>2. ASSUME NEW c \in CPUs, ScheduleStep(c) \/ SliceStep(c) \/ BlockStep(c) PROVE AnyNext
  <2>1. CASE LookStep(c)
    BY <2>1, LookIsDispatch DEF AnyNext, AnySchedule
  <2>2. CASE ~LookStep(c)
    <3>1. \E b : ScheduleAs(c, b)
      BY <1>2, <2>2 DEF ScheduleStep, SliceStep, BlockStep, PutPrevStep, ScheduleAs, LookStep
    <3> QED
      BY <3>1, ScheduleIsPolicy
  <2> QED
    BY <2>1, <2>2
<1>3. ASSUME (\E c \in CPUs : Exec(c)) \/ TimePasses \/ UNCHANGED vars
      PROVE  UNCHANGED <<coreVars, dsqVars>>
  BY <1>3 DEF Exec, TimePasses, vars
<1> QED
  BY <1>1, <1>2, <1>3 DEF Next

-------------------------------------------------------------------------------
(***************************************************************************)
(* Types.                                                                  *)
(***************************************************************************)
LEMMA CacheTypes ==
  ASSUME ClassTypes, NEW t \in Tasks, CacheClass(t)
  PROVE  ClassTypes' /\ \A u \in Tasks : TaskClass(u)' = TaskClass(u)
<1>1. TaskClass(t) \in Classes
  BY DEF ClassTypes, TaskClass
<1>2. "unknown" \notin Classes
  BY DEF Classes
<1>3. CASE class' = [class EXCEPT ![t] = TaskClass(t)]
  BY <1>1, <1>2, <1>3 DEF ClassTypes, CacheClass, TaskClass
<1>4. CASE UNCHANGED class
  BY <1>4 DEF ClassTypes, CacheClass, TaskClass
<1> QED
  BY <1>3, <1>4 DEF CacheClass

\* Every step but Exec either fills the cache for one task or leaves it alone.
LEMMA ClassStep ==
  ASSUME CoreInv, [Next]_vars
  PROVE  \/ UNCHANGED classVars
         \/ \E t \in Tasks : CacheClass(t)
         \/ \E c \in CPUs : Exec(c)
<1>1. ASSUME NEW t \in Tasks, SelectCpu(t) \/ WakeupStep(t)
      PROVE  UNCHANGED classVars \/ CacheClass(t)
  BY <1>1 DEF SelectCpu, WakeupStep
<1>2. ASSUME NEW c \in CPUs, ScheduleStep(c) \/ SliceStep(c) \/ BlockStep(c)
      PROVE  UNCHANGED classVars \/ \E t \in Tasks : CacheClass(t)
  <2>1. CASE PutPrevStep(c)
    <3>1. PrevRunnable(c) => curr[c] \in Tasks
      BY DEF PrevRunnable, CoreInv, CoreTypeOK
    <3> QED
      BY <2>1, <3>1 DEF PutPrevStep
  <2>2. ASSUME NEW b, StartNext(c, b) PROVE Head(local[c]) \in Tasks
    <3>1. local[c] \in Seq(Tasks) /\ local[c] # <<>>
      BY <2>2 DEF StartNext, SetNext, CoreInv, CoreTypeOK, LocalReady
    <3> QED
      BY <3>1, HeadTailSeq
  <2>3. ASSUME NEW b, TaskBlocks(c, b) PROVE curr[c] \in Tasks
    BY <2>3 DEF TaskBlocks, Block, CoreInv, PlaceInv, CpuOwns
  <2>4. CASE SliceStep(c)
    BY <2>4 DEF SliceStep
  <2>5. CASE BlockStep(c)
    BY <2>5, <2>3 DEF BlockStep
  <2>6. CASE ScheduleStep(c) /\ ~PutPrevStep(c)
    BY <2>6, <2>2 DEF ScheduleStep
  <2> QED
    BY <1>2, <2>1, <2>4, <2>5, <2>6
<1>3. CASE TimePasses /\ UNCHANGED classVars
  BY <1>3
<1>4. CASE UNCHANGED vars
  BY <1>4 DEF vars
<1> QED
  BY <1>1, <1>2, <1>3, <1>4 DEF Next

LEMMA ClassTypesNext ==
  ASSUME CoreInv, ClassTypes, [Next]_vars PROVE ClassTypes'
<1>1. ASSUME NEW c \in CPUs, Exec(c) PROVE ClassTypes'
  BY <1>1 DEF Exec, ClassTypes, Classes
<1>2. ASSUME UNCHANGED classVars PROVE ClassTypes'
  BY <1>2 DEF classVars, ClassTypes
<1> QED
  BY <1>1, <1>2, ClassStep, CacheTypes

LEMMA PreemptTypesNext ==
  ASSUME tpc \in [Tasks -> TaskPcs], PreemptTypes, [Next]_vars PROVE PreemptTypes'
<1>1. ASSUME NEW t \in Tasks, SelectCpu(t) \/ WakeupStep(t) PROVE PreemptTypes'
  <2>1. \E b : WakeupAs(t, b)
    BY <1>1, LimitInRange, ScanIsOn DEF SelectCpu, WakeupStep, WakeupAs
  <2> QED
    BY <2>1, PreemptTypesWakeup
<1>2. ASSUME NEW c \in CPUs, ScheduleStep(c) \/ SliceStep(c) \/ BlockStep(c) PROVE PreemptTypes'
  <2>1. CASE LookStep(c)
    BY <2>1, LookIsDispatch, PreemptTypesDispatch
  <2>2. CASE ~LookStep(c)
    <3>1. \E b : ScheduleAs(c, b)
      BY <1>2, <2>2 DEF ScheduleStep, SliceStep, BlockStep, PutPrevStep, ScheduleAs, LookStep
    <3> QED
      BY <3>1, PreemptTypesSchedule
  <2> QED
    BY <2>1, <2>2
<1>3. ASSUME NEW c \in CPUs, Exec(c) PROVE PreemptTypes'
  BY <1>3, PreemptTypesKept DEF Exec, coreVars
<1>4. CASE TimePasses
  BY <1>4, PreemptTypesTime
<1>5. CASE UNCHANGED vars
  BY <1>5, PreemptTypesKept DEF vars, coreVars
<1> QED
  BY <1>1, <1>2, <1>3, <1>4, <1>5 DEF Next

LEMMA AsymmetricInvHolds == Spec => []AsymmetricInv
<1>1. Init => AsymmetricInv
  <2>1. Init => ClassTypes
    BY DEF Init, ClassTypes, Classes
  <2> QED
    BY <2>1, CoreInvInit, PreemptTypesInit DEF Init, AsymmetricInv
<1>2. ASSUME AsymmetricInv, [Next]_vars PROVE AsymmetricInv'
  <2>1. CoreInv'
    BY <1>2, StepOfPolicy, CoreInvNext DEF AsymmetricInv
  <2>2. PreemptTypes'
    BY <1>2, PreemptTypesNext DEF AsymmetricInv, CoreInv, CoreTypeOK
  <2>3. ClassTypes'
    BY <1>2, ClassTypesNext DEF AsymmetricInv
  <2> QED
    BY <2>1, <2>2, <2>3 DEF AsymmetricInv
<1> QED
  BY <1>1, <1>2, PTL DEF Spec

\* Type correctness of nginx_aware: in particular the scan stays inside the arrays
\* whether the machine has more or fewer CPUs than they have slots.
THEOREM TypeCorrect == Spec => []TypeOK
<1>1. AsymmetricInv => TypeOK
  BY DEF AsymmetricInv, CoreInv, PreemptTypes, ClassTypes, TypeOK
<1> QED
  BY <1>1, AsymmetricInvHolds, PTL

\* nginx_aware implements the abstract scheduler although one of its queues is
\* drained by the kernel.
THEOREM AsymmetricIsPolicy == Spec => AnyPolicy
<1>1. Init => CoreInit
  BY DEF Init
<1>2. AsymmetricInv /\ [Next]_vars => [AnyNext]_<<coreVars, dsqVars>>
  BY StepOfPolicy DEF AsymmetricInv
<1> QED
  BY <1>1, <1>2, AsymmetricInvHolds, PTL DEF Spec, AnyPolicy

\* No thread is lost or queued twice between SCX_DSQ_GLOBAL, BACKGROUND_DSQ and
\* the local DSQs.
THEOREM AsymmetricOnePlace == Spec => []OnePlace
BY AsymmetricIsPolicy, NoTaskLostOrDoubled, PTL

\* No thread waits in SCX_DSQ_GLOBAL or BACKGROUND_DSQ unseen by all CPUs.
THEOREM AsymmetricNoStall == Spec => []NoStall
BY AsymmetricIsPolicy, WorkIsNeverStranded, PTL

-------------------------------------------------------------------------------
(***************************************************************************)
(* A thread that runs, or is about to, has its class in the cache if the   *)
(* cache can hold it, so that exec does not change it.  An exec can only   *)
(* turn a thread into a hog.                                               *)
(***************************************************************************)
Classified ==
  \A t \in Tasks \ Failing : class[t] = "unknown" => tpc[t] = "asleep" /\ \A c \in CPUs : curr[c] # t

LEMMA HogNext ==
  ASSUME AsymmetricInv, Classified, [Next]_vars
  PROVE  /\ \A u \in Tasks : Hog(u) => Hog(u)'
         /\ \A u \in Tasks \ Failing : Hog(u)' => Hog(u)
<1>t. CoreTypeOK /\ ClassTypes
  BY DEF AsymmetricInv, CoreInv
<1>1. ASSUME NEW c \in CPUs, Exec(c)
      PROVE  /\ \A u \in Tasks : Hog(u) => Hog(u)'
             /\ \A u \in Tasks \ Failing : Hog(u)' => Hog(u)
  <2>1. curr[c] \in Tasks
    BY <1>1 DEF Exec, AsymmetricInv, CoreInv, PlaceInv, CpuOwns
  <2>2. curr[c] \notin Failing => class[curr[c]] # "unknown"
    BY <2>1 DEF Classified
  <2> QED
    BY <1>1, <2>1, <2>2, <1>t DEF Exec, Hog, TaskClass, ClassTypes
<1>2. ASSUME UNCHANGED classVars PROVE \A u \in Tasks : Hog(u)' = Hog(u)
  BY <1>2 DEF classVars, Hog, TaskClass
<1>3. ASSUME NEW t \in Tasks, CacheClass(t) PROVE \A u \in Tasks : Hog(u)' = Hog(u)
  BY <1>3, <1>t, CacheTypes DEF Hog
<1> QED
  BY <1>1, <1>2, <1>3, ClassStep DEF AsymmetricInv

LEMMA ClassifiedNext ==
  ASSUME AsymmetricInv, Classified, [Next]_vars
  PROVE  Classified'
<1>t. CoreTypeOK /\ ClassTypes /\ "unknown" \notin Classes
  BY DEF AsymmetricInv, CoreInv, Classes
\* The cache is never emptied.
<1>1. \A u \in Tasks : class'[u] = "unknown" => class[u] = "unknown"
  <2>1. ASSUME NEW t \in Tasks, CacheClass(t)
        PROVE  \A u \in Tasks : class'[u] = "unknown" => class[u] = "unknown"
    <3>1. TaskClass(t) # "unknown"
      BY <1>t DEF TaskClass, ClassTypes
    <3> QED
      BY <2>1, <3>1, <1>t DEF CacheClass, ClassTypes
  <2> QED
    BY <2>1, ClassStep DEF AsymmetricInv, Exec, classVars
\* Only tasks with a cached class leave their sleep or come onto a CPU.
<1>3. ASSUME NEW u \in Tasks \ Failing, class'[u] = "unknown", class[u] = "unknown", tpc[u] = "asleep",
             \A c \in CPUs : curr[c] # u
      PROVE  tpc'[u] = "asleep" /\ \A c \in CPUs : curr'[c] # u
  <2>1. ASSUME NEW t \in Tasks, SelectCpu(t) PROVE u # t /\ tpc'[u] = tpc[u] /\ UNCHANGED curr
    <3>1. t \notin Failing => class'[t] # "unknown"
      <4>1. TaskClass(t) # "unknown"
        BY <1>t DEF TaskClass, ClassTypes
      <4> QED
        BY <2>1, <4>1, <1>t DEF SelectCpu, CacheClass, ClassTypes
    <3>2. u # t
      BY <3>1, <1>3
    <3> QED
      BY <2>1, <3>2, <1>t DEF SelectCpu, SelectIdle, SelectBusy, WakeIdle, WakeBusy, CoreTypeOK
  <2>2. ASSUME NEW t \in Tasks, WakeupStep(t) PROVE tpc'[u] = tpc[u] /\ UNCHANGED curr
    <3>1. CASE DeliverKick(t)
      BY <3>1 DEF DeliverKick, Preempt
    <3>2. ASSUME NEW pc \in {"scan", "age", "enq"}, ScanStep(t, pc)
          PROVE  tpc'[u] = tpc[u] /\ UNCHANGED curr
      BY <3>2, <1>3, <1>t DEF ScanStep, CoreTypeOK
    <3>3. CASE ScanFlag(t, ScanLimit) \/ CheckAge(t, ScanLimit)
      <4>1. \E pc \in {"scan", "age", "enq"} : ScanStep(t, pc)
        BY <3>3, NextSlotScans DEF ScanFlag, CheckAge, EndScan
      <4> QED
        BY <4>1, <3>2
    <3>4. ASSUME NEW b, EnqueueWoken(t, b) \/ EnqueueDirect(t)
          PROVE  tpc'[u] = tpc[u] /\ UNCHANGED curr
      BY <3>4, <1>3, <1>t DEF EnqueueWoken, EnqueueDirect, ActivateShared, ActivateLocal,
                              Activate, CoreTypeOK
    <3> QED
      BY <2>2, <3>1, <3>3, <3>4 DEF WakeupStep
  <2>3. ASSUME NEW c \in CPUs, ScheduleStep(c) \/ SliceStep(c) \/ BlockStep(c)
        PROVE  tpc'[u] = "asleep" /\ \A d \in CPUs : curr'[d] # u
    <3>1. ASSUME NEW b, StartNext(c, b) PROVE tpc'[u] = "asleep" /\ \A d \in CPUs : curr'[d] # u
      <4>1. local[c] \in Seq(Tasks) /\ local[c] # <<>> /\ NoDup(local[c])
        BY <3>1, <1>t DEF StartNext, SetNext, CoreTypeOK, AsymmetricInv, CoreInv, LocalReady,
                          PlaceInv, NoDuplicates
      <4>2. Head(local[c]) \in Tasks /\ In(local[c], Head(local[c]))
        BY <4>1, TakeHead, HeadTailSeq
      <4>3. tpc[Head(local[c])] = "ready"
        BY <4>2 DEF AsymmetricInv, CoreInv, PlaceInv, TaskPlaced, Queued
      <4> QED
        BY <3>1, <1>3, <1>t, <4>3 DEF StartNext, SetNext, CoreTypeOK
    <3>2. CASE LookStep(c)
      <4>1. UNCHANGED tpc
        BY <3>2, LookIsDispatch
           DEF AnyDispatch, TakeForeground, TakeBackground, MoveToLocal, Advance, NothingFound
      <4>2. \A d \in CPUs : curr'[d] = curr[d] \/ curr'[d] = NoTask
        BY <3>2, LookIsDispatch, <1>t DEF AnyDispatch, TakeForeground, TakeBackground, MoveToLocal,
                                         Advance, NothingFound, CoreTypeOK
      <4> QED
        BY <4>1, <4>2, <1>3, CoreAssumption
    <3>3. ASSUME NEW b, TaskBlocks(c, b) PROVE tpc'[u] = "asleep" /\ \A d \in CPUs : curr'[d] # u
      BY <3>3, <1>3, <1>t DEF TaskBlocks, Block, CoreTypeOK
    <3>4. ASSUME NEW b, BalanceCpu(c) \/ SliceEnds(c) \/ StampStart(c) \/ PutPrevTask(c, b)
          PROVE  UNCHANGED <<tpc, curr>>
      BY <3>4 DEF BalanceCpu, Balance, SliceEnds, SliceExpires, StampStart, RunningDone,
                  PutPrevTask, PutPrev
    <3> QED
      BY <2>3, <1>3, <3>1, <3>2, <3>3, <3>4
         DEF ScheduleStep, SliceStep, BlockStep, PutPrevStep, LookStep
  <2>4. ASSUME (\E c \in CPUs : Exec(c)) \/ TimePasses \/ UNCHANGED vars
        PROVE  UNCHANGED <<tpc, curr>>
    BY <2>4 DEF Exec, TimePasses, vars, coreVars
  <2> QED
    BY <1>3, <2>1, <2>2, <2>3, <2>4 DEF Next
<1>4. Classified'
  BY <1>1, <1>3 DEF Classified
<1> QED
  BY <1>4

LEMMA FlagNext ==
  ASSUME AsymmetricInv, Classified, FlagMatchesClass, [Next]_vars
  PROVE  FlagMatchesClass'
<1> DEFINE firm == Tasks \ Failing
<1>1. PICK hog \in [Tasks -> BOOLEAN] : hog = [t \in Tasks |-> Hog(t)]
  BY DEF Hog
<1>c. CoreInv /\ PreemptTypes /\ FlagsShow(hog, firm)
  BY <1>1 DEF AsymmetricInv, FlagMatchesClass
<1>2. PICK later \in [Tasks -> BOOLEAN] : later = [t \in Tasks |-> Hog(t)']
  BY DEF Hog
<1>h. /\ \A t \in Tasks : hog[t] => later[t]
      /\ \A t \in firm : later[t] => hog[t]
  BY <1>1, <1>2, HogNext
<1> HIDE DEF firm
<1>3. ASSUME NEW t \in Tasks, SelectCpu(t) \/ WakeupStep(t) PROVE FlagsShow(hog, firm)'
  <2>1. \E b : WakeupAs(t, b)
    BY <1>3, LimitInRange, ScanIsOn DEF SelectCpu, WakeupStep, WakeupAs
  <2> QED
    BY <2>1, <1>c, FlagsWakeup
<1>4. ASSUME NEW c \in CPUs, ScheduleStep(c) \/ SliceStep(c) \/ BlockStep(c)
      PROVE  FlagsShow(hog, firm)'
  <2>1. CASE LookStep(c)
    <3>1. AnyDispatch(c) /\ UNCHANGED bg_running
      BY <2>1, LookIsDispatch DEF preemptVars, mapVars
    <3> QED
      BY <3>1, <1>c, FlagsDispatch
  <2>2. CASE PutPrevStep(c)
    <3>1. PrevRunnable(c) => (curr[c] # NoTask /\ Hog(curr[c])) = hog[curr[c]]
      <4>1. PrevRunnable(c) => curr[c] # NoTask /\ curr[c] \in Tasks
        BY <1>c DEF PrevRunnable, CoreInv, CoreTypeOK
      <4> QED
        BY <4>1, <1>1 DEF Hog
    <3> QED
      BY <2>2, <3>1, <1>c, FlagsSchedule DEF PutPrevStep
  <2>3. ASSUME StartNext(c, Hog(Head(local[c]))) PROVE FlagsShow(hog, firm)'
    <3>1. local[c] \in Seq(Tasks) /\ local[c] # <<>>
      BY <2>3, <1>c DEF StartNext, SetNext, CoreInv, CoreTypeOK, LocalReady
    <3>2. Hog(Head(local[c])) = hog[Head(local[c])]
      BY <3>1, <1>1, HeadTailSeq
    <3> QED
      BY <2>3, <3>2, <1>c, FlagsSchedule
  <2>4. ASSUME TaskBlocks(c, Hog(curr[c])) PROVE FlagsShow(hog, firm)'
    <3>1. curr[c] \in Tasks
      BY <2>4, <1>c DEF TaskBlocks, Block, CoreInv, PlaceInv, CpuOwns
    <3>2. Hog(curr[c]) = hog[curr[c]]
      BY <3>1, <1>1
    <3> QED
      BY <2>4, <3>2, <1>c, FlagsSchedule
  <2>5. ASSUME BalanceCpu(c) \/ StampStart(c) \/ SliceEnds(c) PROVE FlagsShow(hog, firm)'
    BY <2>5, <1>c, FlagsSchedule
  <2> QED
    BY <1>4, <2>1, <2>2, <2>3, <2>4, <2>5 DEF ScheduleStep, SliceStep, BlockStep, LookStep
<1>5. ASSUME (\E c \in CPUs : Exec(c)) \/ TimePasses \/ UNCHANGED vars PROVE FlagsShow(hog, firm)'
  <2>1. UNCHANGED <<coreVars, bg_running>>
    BY <1>5 DEF Exec, TimePasses, vars, preemptVars, mapVars
  <2> QED
    BY <2>1, <1>c, FlagsTime
<1>6. FlagsShow(hog, firm)'
  BY <1>3, <1>4, <1>5 DEF Next
<1>7. CoreTypeOK'
  BY StepOfPolicy, CoreInvNext DEF AsymmetricInv, CoreInv
<1>8. FlagsShow(later, firm)'
  BY <1>h, <1>6, <1>7, FlagsChange
<1> QED
  BY <1>2, <1>8 DEF FlagMatchesClass, firm

\* The flag is exact whatever threads exec while they run, because the cached class
\* cannot change between running and stopping; and if a class cannot be cached, the
\* flag of its thread may be missing, but none is left behind.
THEOREM FlagIsExact == Spec => []FlagMatchesClass
<1>1. Init => Classified /\ FlagMatchesClass
  BY CoreAssumption DEF Init, CoreInit, PreemptInit, Classified, FlagMatchesClass, FlagsShow,
                        BetweenCallbacks, PrevRunnable
<1>2. AsymmetricInv /\ Classified /\ FlagMatchesClass /\ [Next]_vars
        => (Classified /\ FlagMatchesClass)'
  BY ClassifiedNext, FlagNext
<1> QED
  BY <1>1, <1>2, AsymmetricInvHolds, PTL DEF Spec

===============================================================================
