---------------------------- MODULE BgPreempt_proofs ---------------------------
(***************************************************************************)
(* Lemmas about the steps that the preempting schedulers share, for any    *)
(* number of tasks and CPUs and any classification of the tasks.           *)
(***************************************************************************)
EXTENDS BgPreempt, TwoDsq_proofs

\* Only the slot of an existing CPU is ever flagged, hence ever kicked.
FlaggedSlots ==
  /\ \A i \in Slots : bg_running[i] => i \in CPUs
  /\ \A t \in Tasks : tpc[t] = "age" => wi[t] \in CPUs

PreemptTypes == PreemptTypeOK /\ FlaggedSlots

\* A step of the scan, whatever its limit.
ScanOn(t) == \E limit \in 1 .. MaxCpus : ScanFlag(t, limit) \/ CheckAge(t, limit)

\* The steps of a wake-up, and of a CPU outside ops.dispatch; b is the class the
\* callbacks of the step compute.
WakeupAs(t, b) ==
  \/ SelectIdle(t) \/ SelectBusy(t, b) \/ ScanOn(t)
  \/ EnqueueWoken(t, b) \/ EnqueueDirect(t) \/ DeliverKick(t)

ScheduleAs(c, b) ==
  \/ BalanceCpu(c) \/ SliceEnds(c) \/ StampStart(c)
  \/ TaskBlocks(c, b) \/ PutPrevTask(c, b) \/ StartNext(c, b)

\* What a scan with some limit of the array's size does is such a step.
LEMMA ScanIsOn ==
  ASSUME NEW t, NEW limit \in 1 .. MaxCpus, ScanFlag(t, limit) \/ CheckAge(t, limit)
  PROVE  ScanOn(t)
BY DEF ScanOn

LEMMA WholeArray == MaxCpus \in 1 .. MaxCpus
BY PreemptAssumption

-------------------------------------------------------------------------------
(***************************************************************************)
(* The refinement: these steps are steps of the abstract scheduler.        *)
(***************************************************************************)
LEMMA EnqueueInserts == ASSUME NEW t, NEW b, enqueue(t, b) PROVE AnyInsert(t)
BY DEF enqueue, AnyInsert

LEMMA NextSlotScans ==
  ASSUME NEW t, NEW limit, NextSlot(t, limit) PROVE ScanStep(t, "scan") \/ ScanStep(t, "enq")
BY DEF NextSlot, EndScan

LEMMA WakeupIsPolicy ==
  ASSUME PreemptTypes, NEW t \in Tasks, NEW b, WakeupAs(t, b)
  PROVE  AnyNext
<1>1. CASE SelectIdle(t) \/ SelectBusy(t, b)
  <2>1. AnyWakeup(t)
    BY <1>1 DEF SelectIdle, SelectBusy, AnyWakeup
  <2> QED
    BY <2>1 DEF AnyNext
<1>2. CASE ScanOn(t)
  <2>1. \E pc \in {"scan", "age", "enq"} : ScanStep(t, pc)
    BY <1>2, NextSlotScans DEF ScanOn, ScanFlag, CheckAge, EndScan
  <2> QED
    BY <2>1 DEF AnyNext, AnyWakeup
<1>3. CASE EnqueueWoken(t, b) \/ EnqueueDirect(t)
  <2>1. AnyWakeup(t)
    BY <1>3, EnqueueInserts DEF EnqueueWoken, EnqueueDirect, AnyWakeup
  <2> QED
    BY <2>1 DEF AnyNext
<1>4. CASE DeliverKick(t)
  <2>1. \E c \in CPUs : Preempt(c)
    BY <1>4 DEF DeliverKick, PreemptTypes, PreemptTypeOK
  <2> QED
    BY <2>1 DEF AnyNext
<1> QED
  BY <1>1, <1>2, <1>3, <1>4 DEF WakeupAs

LEMMA ScheduleIsPolicy ==
  ASSUME NEW c \in CPUs, NEW b, ScheduleAs(c, b)
  PROVE  AnyNext
<1>1. CASE BalanceCpu(c) \/ SliceEnds(c) \/ TaskBlocks(c, b) \/ StampStart(c)
  <2>1. AnySchedule(c)
    BY <1>1 DEF BalanceCpu, SliceEnds, TaskBlocks, StampStart, AnySchedule
  <2> QED
    BY <2>1 DEF AnyNext
<1>2. CASE PutPrevTask(c, b)
  <2>1. AnyPutPrev(c)
    BY <1>2, EnqueueInserts DEF PutPrevTask, AnyPutPrev
  <2> QED
    BY <2>1 DEF AnyNext, AnySchedule
<1>3. CASE StartNext(c, b)
  <2>1. \E pc \in {"run", "running"} : SetNext(c, pc)
    BY <1>3 DEF StartNext
  <2> QED
    BY <2>1 DEF AnyNext, AnySchedule
<1> QED
  BY <1>1, <1>2, <1>3 DEF ScheduleAs

-------------------------------------------------------------------------------
(***************************************************************************)
(* Types.                                                                  *)
(***************************************************************************)
LEMMA EndScanTypes ==
  ASSUME tpc \in [Tasks -> TaskPcs], PreemptTypes, NEW t \in Tasks, EndScan(t)
  PROVE  /\ wnow' \in [Tasks -> Times] /\ wi' \in [Tasks -> Slots]
         /\ tpc'[t] = "enq" /\ \A u \in Tasks \ {t} : tpc'[u] = tpc[u] /\ wi'[u] = wi[u]
<1>1. 0 \in Slots /\ 0 \in Times
  BY PreemptAssumption DEF Slots, Times
<1>2. tpc'[t] = "enq" /\ \A u \in Tasks \ {t} : tpc'[u] = tpc[u]
  BY DEF EndScan, ScanStep
<1>3. wnow' \in [Tasks -> Times]
  BY <1>1 DEF EndScan, PreemptTypes, PreemptTypeOK
<1>4. wi' \in [Tasks -> Slots] /\ \A u \in Tasks \ {t} : wi'[u] = wi[u]
  BY <1>1 DEF EndScan, PreemptTypes, PreemptTypeOK
<1> QED
  BY <1>2, <1>3, <1>4

LEMMA NextSlotTypes ==
  ASSUME tpc \in [Tasks -> TaskPcs], PreemptTypes, NEW t \in Tasks,
         NEW limit \in 1 .. MaxCpus, NextSlot(t, limit)
  PROVE  /\ wnow' \in [Tasks -> Times] /\ wi' \in [Tasks -> Slots]
         /\ tpc'[t] # "age" /\ \A u \in Tasks \ {t} : tpc'[u] = tpc[u] /\ wi'[u] = wi[u]
<1>0. wi[t] \in Int /\ limit \in Int
  <2>1. wi[t] \in Slots
    BY DEF PreemptTypes, PreemptTypeOK
  <2> QED
    BY <2>1 DEF Slots
<1>1. CASE wi[t] + 1 < limit
  <2>1. wi[t] + 1 \in Slots
    BY <1>1, PreemptAssumption DEF Slots, PreemptTypes, PreemptTypeOK
  <2> QED
    BY <1>1, <2>1 DEF NextSlot, ScanStep, Slots, PreemptTypes, PreemptTypeOK
<1>2. CASE wi[t] + 1 >= limit
  <2>1. EndScan(t)
    BY <1>2, <1>0 DEF NextSlot
  <2> QED
    BY <2>1, EndScanTypes
<1> QED
  BY <1>0, <1>1, <1>2

LEMMA PreemptTypesInit == CoreInit /\ PreemptInit => PreemptTypes
<1> SUFFICES ASSUME CoreInit, PreemptInit PROVE PreemptTypes
  OBVIOUS
<1>1. 0 \in Slots /\ 0 \in Times
  BY PreemptAssumption DEF Slots, Times
<1> QED
  BY <1>1 DEF CoreInit, PreemptInit, PreemptTypes, PreemptTypeOK, FlaggedSlots

\* Steps that leave the state of BgPreempt alone and start no age test.
LEMMA PreemptTypesKept ==
  ASSUME PreemptTypes, UNCHANGED preemptVars,
         \A t \in Tasks : tpc'[t] = "age" => tpc[t] = "age"
  PROVE  PreemptTypes'
BY DEF PreemptTypes, PreemptTypeOK, FlaggedSlots, preemptVars, mapVars, scanVars

LEMMA PreemptTypesWakeup ==
  ASSUME tpc \in [Tasks -> TaskPcs], PreemptTypes, NEW t \in Tasks, NEW b, WakeupAs(t, b)
  PROVE  PreemptTypes'
<1> USE DEF mapVars, scanVars
<1>a. 0 \in Slots /\ 0 \in Times
  BY PreemptAssumption DEF Slots, Times
<1>1. CASE SelectIdle(t)
  BY <1>1, PreemptTypesKept DEF SelectIdle, WakeIdle
<1>2. CASE SelectBusy(t, b)
  BY <1>2, <1>a DEF SelectBusy, WakeBusy, PreemptTypes, PreemptTypeOK, FlaggedSlots
<1>3. ASSUME NEW limit \in 1 .. MaxCpus, ScanFlag(t, limit) PROVE PreemptTypes'
  <2>1. CASE bg_running[wi[t]]
    BY <1>3, <2>1 DEF ScanFlag, ScanStep, PreemptTypes, PreemptTypeOK, FlaggedSlots
  <2>2. CASE ~bg_running[wi[t]]
    <3>1. NextSlot(t, limit) /\ UNCHANGED <<mapVars, kick, rnow, clock>>
      BY <1>3, <2>2 DEF ScanFlag
    <3> QED
      BY <3>1, NextSlotTypes DEF PreemptTypes, PreemptTypeOK, FlaggedSlots
  <2> QED
    BY <2>1, <2>2
<1>4. ASSUME NEW limit \in 1 .. MaxCpus, CheckAge(t, limit) PROVE PreemptTypes'
  <2>1. CASE OldEnough(t)
    <3>1. /\ EndScan(t) /\ kick' = [kick EXCEPT ![t] = @ \cup {wi[t]}]
          /\ tpc[t] = "age" /\ UNCHANGED <<mapVars, rnow, clock>>
      BY <1>4, <2>1 DEF CheckAge
    <3>2. kick' \in [Tasks -> SUBSET CPUs]
      BY <3>1 DEF PreemptTypes, PreemptTypeOK, FlaggedSlots
    <3> QED
      BY <3>1, <3>2, EndScanTypes DEF PreemptTypes, PreemptTypeOK, FlaggedSlots
  <2>2. CASE ~OldEnough(t)
    <3>1. NextSlot(t, limit) /\ UNCHANGED <<mapVars, kick, rnow, clock>>
      BY <1>4, <2>2 DEF CheckAge
    <3> QED
      BY <3>1, NextSlotTypes DEF PreemptTypes, PreemptTypeOK, FlaggedSlots
  <2> QED
    BY <2>1, <2>2
<1>5. CASE EnqueueWoken(t, b) \/ EnqueueDirect(t)
  BY <1>5, PreemptTypesKept
     DEF EnqueueWoken, EnqueueDirect, ActivateShared, ActivateLocal, Activate
<1>6. CASE DeliverKick(t)
  BY <1>6 DEF DeliverKick, Preempt, PreemptTypes, PreemptTypeOK, FlaggedSlots
<1> QED
  BY <1>1, <1>2, <1>3, <1>4, <1>5, <1>6 DEF WakeupAs, ScanOn

LEMMA PreemptTypesSchedule ==
  ASSUME tpc \in [Tasks -> TaskPcs], PreemptTypes, NEW c \in CPUs, NEW b, ScheduleAs(c, b)
  PROVE  PreemptTypes'
<1> USE DEF mapVars, scanVars
<1>a. 0 \in Times
  BY PreemptAssumption DEF Times
<1>1. CASE BalanceCpu(c) \/ SliceEnds(c)
  BY <1>1, PreemptTypesKept DEF BalanceCpu, Balance, SliceEnds, SliceExpires
<1>2. CASE StampStart(c)
  BY <1>2, <1>a DEF StampStart, RunningDone, PreemptTypes, PreemptTypeOK, FlaggedSlots
<1>3. CASE TaskBlocks(c, b)
  BY <1>3 DEF TaskBlocks, Block, stopping, PreemptTypes, PreemptTypeOK, FlaggedSlots
<1>4. CASE PutPrevTask(c, b)
  <2>1. stopping(b, c) \/ UNCHANGED bg_running
    BY <1>4 DEF PutPrevTask
  <2>2. bg_running' \in [Slots -> BOOLEAN] /\ \A i \in Slots : bg_running'[i] => bg_running[i]
    BY <2>1 DEF stopping, PreemptTypes, PreemptTypeOK
  <2> QED
    BY <1>4, <2>2 DEF PutPrevTask, PutPrev, PreemptTypes, PreemptTypeOK, FlaggedSlots
<1>5. CASE StartNext(c, b)
  BY <1>5, <1>a DEF StartNext, SetNext, PreemptTypes, PreemptTypeOK, FlaggedSlots
<1> QED
  BY <1>1, <1>2, <1>3, <1>4, <1>5 DEF ScheduleAs

LEMMA PreemptTypesDispatch ==
  ASSUME PreemptTypes, NEW c \in CPUs, AnyDispatch(c), UNCHANGED preemptVars
  PROVE  PreemptTypes'
<1>1. UNCHANGED tpc
  BY DEF AnyDispatch, TakeForeground, TakeBackground, MoveToLocal, Advance, NothingFound
<1> QED
  BY <1>1, PreemptTypesKept

LEMMA PreemptTypesTime == ASSUME PreemptTypes, TimePasses PROVE PreemptTypes'
BY PreemptAssumption
   DEF TimePasses, coreVars, mapVars, scanVars, Times, PreemptTypes, PreemptTypeOK, FlaggedSlots

-------------------------------------------------------------------------------
(***************************************************************************)
(* The flags: FlagsShow(hog, firm) is kept by every step whose class       *)
(* argument is that of its thread in hog, a fixed classification.  This is *)
(* relative to PlaceInv, which says that a task is current on one CPU only *)
(* and that a waking task is on none.                                      *)
(***************************************************************************)
LEMMA FlagKept ==
  ASSUME NEW hog, NEW firm, FlagsShow(hog, firm), UNCHANGED bg_running,
         \A c \in CPUs : BetweenCallbacks(c)' <=> BetweenCallbacks(c),
         \A c \in CPUs : BetweenCallbacks(c) => curr'[c] = curr[c]
  PROVE  FlagsShow(hog, firm)'
BY DEF FlagsShow

\* A task that is current on no CPU changes state.
LEMMA FlagKeptElsewhere ==
  ASSUME NEW hog, NEW firm, CoreTypeOK, FlagsShow(hog, firm),
         NEW t \in Tasks, \A c \in CPUs : curr[c] # t,
         \A u \in Tasks \ {t} : tpc'[u] = tpc[u],
         UNCHANGED <<bg_running, curr, cpc>>
  PROVE  FlagsShow(hog, firm)'
<1>1. \A c \in CPUs : curr[c] # NoTask => curr[c] \in Tasks \ {t}
  BY DEF CoreTypeOK
<1>2. \A c \in CPUs : BetweenCallbacks(c)' <=> BetweenCallbacks(c)
  BY <1>1 DEF BetweenCallbacks, PrevRunnable
<1> QED
  BY <1>2, FlagKept

\* One CPU changes phase, between two phases that agree on BetweenCallbacks.
LEMMA FlagKeptStep ==
  ASSUME NEW hog, NEW firm, FlagsShow(hog, firm),
         NEW c \in CPUs, BetweenCallbacks(c)' <=> BetweenCallbacks(c),
         \A d \in CPUs \ {c} : cpc'[d] = cpc[d],
         UNCHANGED <<bg_running, curr, tpc>>
  PROVE  FlagsShow(hog, firm)'
<1>1. ASSUME NEW d \in CPUs PROVE BetweenCallbacks(d)' <=> BetweenCallbacks(d)
  <2>1. CASE d # c
    BY <2>1 DEF BetweenCallbacks, PrevRunnable
  <2> QED
    BY <2>1
<1> QED
  BY <1>1, FlagKept

LEMMA FlagsWakeup ==
  ASSUME NEW hog, NEW firm, CoreInv, PreemptTypes, FlagsShow(hog, firm), NEW t \in Tasks, NEW b, WakeupAs(t, b)
  PROVE  FlagsShow(hog, firm)'
<1>t. CoreTypeOK /\ tpc \in [Tasks -> TaskPcs]
  BY DEF CoreInv, CoreTypeOK
<1>1. CASE DeliverKick(t)
  BY <1>1 DEF DeliverKick, Preempt, mapVars, FlagsShow, BetweenCallbacks, PrevRunnable
<1>2. CASE ~DeliverKick(t)
  <2>1. \A c \in CPUs : curr[c] # t
    <3>1. CASE SelectIdle(t) \/ SelectBusy(t, b)
      BY <3>1 DEF SelectIdle, SelectBusy, WakeIdle, WakeBusy, Wakeable
    <3>2. CASE ScanOn(t) \/ EnqueueWoken(t, b) \/ EnqueueDirect(t)
      <4>1. tpc[t] \in {"scan", "age", "enq", "enqLocal"}
        BY <3>2 DEF ScanOn, ScanFlag, CheckAge, EnqueueWoken, EnqueueDirect, ActivateShared, ActivateLocal
      <4> QED
        BY <4>1 DEF CoreInv, PlaceInv, CpuOwns
    <3> QED
      BY <1>2, <3>1, <3>2 DEF WakeupAs
  <2>2. (\A u \in Tasks \ {t} : tpc'[u] = tpc[u]) /\ UNCHANGED <<bg_running, curr, cpc>>
    <3>1. CASE SelectIdle(t) \/ SelectBusy(t, b)
      BY <3>1, <1>t DEF SelectIdle, SelectBusy, WakeIdle, WakeBusy, preemptVars, mapVars
    <3>2. ASSUME NEW pc, ScanStep(t, pc), UNCHANGED mapVars
          PROVE  (\A u \in Tasks \ {t} : tpc'[u] = tpc[u]) /\ UNCHANGED <<bg_running, curr, cpc>>
      BY <3>2, <1>t DEF ScanStep, mapVars
    <3>3. CASE ScanOn(t)
      <4>1. UNCHANGED mapVars /\ \E pc \in {"scan", "age", "enq"} : ScanStep(t, pc)
        BY <3>3, NextSlotScans DEF ScanOn, ScanFlag, CheckAge, EndScan
      <4> QED
        BY <4>1, <3>2
    <3>4. CASE EnqueueWoken(t, b) \/ EnqueueDirect(t)
      BY <3>4, <1>t DEF EnqueueWoken, EnqueueDirect, ActivateShared, ActivateLocal, Activate,
                        preemptVars, mapVars
    <3> QED
      BY <1>2, <3>1, <3>3, <3>4 DEF WakeupAs
  <2> QED
    BY <2>1, <2>2, <1>t, FlagKeptElsewhere
<1> QED
  BY <1>1, <1>2

LEMMA FlagsDispatch ==
  ASSUME NEW hog, NEW firm, CoreInv, FlagsShow(hog, firm), NEW c \in CPUs, AnyDispatch(c), UNCHANGED bg_running
  PROVE  FlagsShow(hog, firm)'
<1>t. CoreTypeOK
  BY DEF CoreInv
<1>1. CASE NothingFound(c) /\ ~PrevRunnable(c)
  <2>1. /\ cpc'[c] = "idle"
        /\ \A d \in CPUs \ {c} : cpc'[d] = cpc[d] /\ curr'[d] = curr[d]
        /\ UNCHANGED tpc
    BY <1>1, <1>t DEF NothingFound, CoreTypeOK
  <2>2. ASSUME NEW d \in CPUs
        PROVE  /\ BetweenCallbacks(d)' <=> BetweenCallbacks(d)
               /\ BetweenCallbacks(d) => curr'[d] = curr[d]
    BY <1>1, <2>1 DEF BetweenCallbacks, PrevRunnable
  <2> QED
    BY <2>2, FlagKept
<1>2. CASE ~(NothingFound(c) /\ ~PrevRunnable(c))
  <2>1. /\ cpc[c] \in {"dispatch", "dispatchBg", "recheck"}
        /\ cpc'[c] \in {"dispatchBg", "recheck", "put", "run"}
        /\ \A d \in CPUs \ {c} : cpc'[d] = cpc[d]
        /\ UNCHANGED <<curr, tpc>>
    <3>1. cpc[c] \in {"dispatch", "dispatchBg", "recheck"}
      BY DEF AnyDispatch
    <3>2. CASE TakeForeground(c) \/ TakeBackground(c)
      BY <3>1, <3>2, <1>t DEF TakeForeground, TakeBackground, MoveToLocal, CoreTypeOK
    <3>3. ASSUME NEW pc \in {"dispatchBg", "recheck"}, Advance(c, pc)
          PROVE  /\ cpc'[c] = pc /\ \A d \in CPUs \ {c} : cpc'[d] = cpc[d]
                 /\ UNCHANGED <<curr, tpc>>
      BY <3>3, <1>t DEF Advance, CoreTypeOK
    <3>4. CASE NothingFound(c) /\ PrevRunnable(c)
      BY <3>1, <3>4, <1>t DEF NothingFound, CoreTypeOK
    <3> QED
      BY <1>2, <3>1, <3>2, <3>3, <3>4 DEF AnyDispatch
  <2>2. BetweenCallbacks(c)' <=> BetweenCallbacks(c)
    BY <2>1 DEF BetweenCallbacks, PrevRunnable
  <2> QED
    BY <2>1, <2>2, FlagKeptStep
<1> QED
  BY <1>1, <1>2

LEMMA FlagsSchedule ==
  ASSUME NEW hog \in [Tasks -> BOOLEAN], NEW firm, CoreInv, FlagsShow(hog, firm), NEW c \in CPUs, NEW b,
         \/ BalanceCpu(c) \/ SliceEnds(c) \/ StampStart(c)
         \/ (TaskBlocks(c, b) \/ PutPrevTask(c, b)) /\ (PrevRunnable(c) => b = hog[curr[c]])
         \/ StartNext(c, b) /\ b = hog[Head(local[c])]
  PROVE  FlagsShow(hog, firm)'
<1>t. CoreTypeOK
  BY DEF CoreInv
<1>n. NoTask \notin Tasks
  BY CoreAssumption
<1>1. CASE SliceEnds(c)
  BY <1>1 DEF SliceEnds, SliceExpires, preemptVars, mapVars, FlagsShow, BetweenCallbacks, PrevRunnable
<1>2. CASE BalanceCpu(c) \/ StampStart(c)
  <2>1. /\ cpc[c] \in {"idle", "run", "blocked", "running"}
        /\ cpc'[c] \in {"run", "dispatch", "put"}
        /\ \A d \in CPUs \ {c} : cpc'[d] = cpc[d]
        /\ UNCHANGED <<bg_running, curr, tpc>>
    <3>1. CASE BalanceCpu(c)
      BY <3>1, <1>t DEF BalanceCpu, Balance, LockFree, CoreTypeOK, preemptVars, mapVars
    <3>2. CASE StampStart(c)
      BY <3>2, <1>t DEF StampStart, RunningDone, CoreTypeOK
    <3> QED
      BY <1>2, <3>1, <3>2
  <2>2. BetweenCallbacks(c)' <=> BetweenCallbacks(c)
    BY <2>1, <1>n DEF BetweenCallbacks, PrevRunnable, CoreInv, PlaceInv, CpuOwns
  <2> QED
    BY <2>1, <2>2, FlagKeptStep
<1>3. CASE PutPrevTask(c, b) /\ (PrevRunnable(c) => b = hog[curr[c]])
  <2>1. /\ cpc[c] = "put" /\ cpc'[c] = "next" /\ \A d \in CPUs \ {c} : cpc'[d] = cpc[d]
        /\ UNCHANGED <<curr, tpc>>
    BY <1>3, <1>t DEF PutPrevTask, PutPrev, CoreTypeOK
  <2>2. \A d \in CPUs \ {c} : BetweenCallbacks(d)' <=> BetweenCallbacks(d)
    BY <2>1 DEF BetweenCallbacks, PrevRunnable
  <2>3. /\ \A i \in Slots \ {c} : bg_running'[i] = bg_running[i]
        /\ c \in Slots => ~bg_running'[c]
    <3>1. CASE PrevRunnable(c)
      <4>1. stopping(b, c) /\ b = hog[curr[c]]
        BY <1>3, <3>1 DEF PutPrevTask
      <4>2. CASE b
        BY <4>1, <4>2 DEF stopping
      <4>3. CASE ~b
        <5>1. c \in Slots => ~bg_running[c]
          BY <4>1, <4>3 DEF FlagsShow
        <5> QED
          BY <4>1, <4>3, <5>1 DEF stopping
      <4> QED
        BY <4>2, <4>3
    <3>2. CASE ~PrevRunnable(c)
      <4>1. UNCHANGED bg_running
        BY <1>3, <3>2 DEF PutPrevTask
      <4> QED
        BY <3>2, <4>1 DEF FlagsShow, BetweenCallbacks
    <3> QED
      BY <3>1, <3>2
  <2> QED
    BY <2>1, <2>2, <2>3 DEF FlagsShow, BetweenCallbacks
<1>4. CASE StartNext(c, b) /\ b = hog[Head(local[c])]
  <2> DEFINE h == Head(local[c])
  <2>1. /\ local[c] \in Seq(Tasks) /\ local[c] # <<>> /\ NoDup(local[c])
        /\ cpc[c] = "next" /\ cpc'[c] \in {"running", "run"}
        /\ curr'[c] = h
        /\ bg_running' = [i \in Slots |-> IF b /\ i = c THEN TRUE ELSE bg_running[i]]
        /\ \A d \in CPUs \ {c} : cpc'[d] = cpc[d] /\ curr'[d] = curr[d]
        /\ UNCHANGED tpc
    BY <1>4, <1>t DEF StartNext, SetNext, CoreTypeOK, CoreInv, LocalReady, PlaceInv, NoDuplicates
  <2>2. h \in Tasks /\ In(local[c], h) /\ b = hog[h]
    BY <1>4, <2>1, TakeHead, HeadTailSeq
  <2> HIDE DEF h
  <2>3. tpc[h] = "ready" /\ h # NoTask
    BY <2>2, <1>n DEF CoreInv, PlaceInv, TaskPlaced, Queued
  <2>4. BetweenCallbacks(c)'
    BY <2>1, <2>3 DEF BetweenCallbacks, PrevRunnable
  <2>5. \A d \in CPUs \ {c} : BetweenCallbacks(d)' <=> BetweenCallbacks(d)
    BY <2>1 DEF BetweenCallbacks, PrevRunnable
  <2>6. c \in Slots => ~bg_running[c]
    BY <2>1 DEF FlagsShow, BetweenCallbacks
  <2>7. b \in BOOLEAN
    BY <2>2
  <2>8. /\ \A i \in Slots \ {c} : bg_running'[i] = bg_running[i]
        /\ c \in Slots => (bg_running'[c] <=> b)
    <3>1. CASE b
      BY <2>1, <3>1
    <3>2. CASE ~b
      BY <2>1, <2>6, <3>2
    <3> QED
      BY <3>1, <3>2
  <2> QED
    BY <2>1, <2>2, <2>4, <2>5, <2>8 DEF FlagsShow
<1>5. CASE TaskBlocks(c, b) /\ (PrevRunnable(c) => b = hog[curr[c]])
  <2>1. /\ cpc[c] = "run" /\ cpc'[c] = "blocked" /\ \A d \in CPUs \ {c} : cpc'[d] = cpc[d]
        /\ curr[c] \in Tasks /\ tpc[curr[c]] = "ready" /\ stopping(b, c)
        /\ \A t \in Tasks \ {curr[c]} : tpc'[t] = tpc[t]
        /\ UNCHANGED curr
    BY <1>5, <1>t DEF TaskBlocks, Block, CoreTypeOK, CoreInv, PlaceInv, CpuOwns
  <2>2. ASSUME NEW d \in CPUs \ {c} PROVE BetweenCallbacks(d)' <=> BetweenCallbacks(d)
    <3>1. curr[d] = NoTask \/ curr[d] \in Tasks \ {curr[c]}
      BY <2>1, <1>t DEF CoreTypeOK, CoreInv, PlaceInv, TaskPlaced
    <3> QED
      BY <2>1, <3>1 DEF BetweenCallbacks, PrevRunnable
  <2>3. b = hog[curr[c]]
    BY <1>5, <2>1, <1>n DEF PrevRunnable
  <2>4. /\ \A i \in Slots \ {c} : bg_running'[i] = bg_running[i]
        /\ c \in Slots => ~bg_running'[c]
    <3>1. CASE b
      BY <2>1, <3>1 DEF stopping
    <3>2. CASE ~b
      BY <2>1, <2>3, <3>2 DEF stopping, FlagsShow
    <3> QED
      BY <3>1, <3>2
  <2> QED
    BY <2>1, <2>2, <2>4 DEF FlagsShow, BetweenCallbacks
<1> QED
  BY <1>1, <1>2, <1>3, <1>4, <1>5

LEMMA FlagsTime ==
  ASSUME NEW hog, NEW firm, FlagsShow(hog, firm), UNCHANGED <<coreVars, bg_running>> PROVE FlagsShow(hog, firm)'
BY DEF coreVars, FlagsShow, BetweenCallbacks, PrevRunnable

\* Between two callbacks a thread may turn into a background one, unless it is firm.
LEMMA FlagsChange ==
  ASSUME NEW hog, NEW later, NEW firm, CoreTypeOK', FlagsShow(hog, firm)',
         \A t \in Tasks : hog[t] => later[t],
         \A t \in firm : later[t] => hog[t]
  PROVE  FlagsShow(later, firm)'
<1>1. \A c \in CPUs : BetweenCallbacks(c)' => curr'[c] \in Tasks
  BY DEF BetweenCallbacks, PrevRunnable, CoreTypeOK
<1> QED
  BY <1>1 DEF FlagsShow

===============================================================================
