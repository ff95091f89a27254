----------------------------- MODULE TwoDsq_proofs -----------------------------
(***************************************************************************)
(* What the abstract two-DSQ scheduler promises, proved for any number of  *)
(* tasks and CPUs: CoreInv is inductive.                                   *)
(***************************************************************************)
EXTENDS TwoDsq, SequenceTheorems, TLAPS

LEMMA AppendSeq ==
  ASSUME NEW S, NEW s \in Seq(S), NEW x \in S
  PROVE  Append(s, x) \in Seq(S) /\ Append(s, x) # <<>>
BY AppendProperties

LEMMA HeadTailSeq ==
  ASSUME NEW S, NEW s \in Seq(S), s # <<>>
  PROVE  Head(s) \in S /\ Tail(s) \in Seq(S)
BY HeadTailProperties

-------------------------------------------------------------------------------
(***************************************************************************)
(* Types, and that a CPU that switches has a task to switch to.            *)
(***************************************************************************)
CoreTypes == CoreTypeOK /\ LocalReady

LEMMA MoveTypes ==
  ASSUME CoreTypes, NEW c \in CPUs, NEW q \in Seq(Tasks), MoveToLocal(c, q),
         \/ fgq' = Tail(q) /\ UNCHANGED bgq
         \/ bgq' = Tail(q) /\ UNCHANGED fgq
  PROVE  CoreTypes'
<1>1. Head(q) \in Tasks /\ Tail(q) \in Seq(Tasks)
  BY HeadTailSeq DEF MoveToLocal
<1>2. local[c] \in Seq(Tasks)
  BY DEF CoreTypes, CoreTypeOK
<1>3. Append(local[c], Head(q)) \in Seq(Tasks) /\ Append(local[c], Head(q)) # <<>>
  BY <1>1, <1>2, AppendSeq
<1> QED
  BY <1>1, <1>3 DEF MoveToLocal, CoreTypes, CoreTypeOK, CpuPcs, LocalReady

LEMMA InsertTypes ==
  ASSUME fgq \in Seq(Tasks), bgq \in Seq(Tasks), NEW t \in Tasks, AnyInsert(t)
  PROVE  fgq' \in Seq(Tasks) /\ bgq' \in Seq(Tasks)
<1>1. Append(fgq, t) \in Seq(Tasks) /\ Append(bgq, t) \in Seq(Tasks)
  BY AppendSeq
<1> QED
  BY <1>1 DEF AnyInsert, InsertForeground, InsertBackground

LEMMA TypesNext == CoreTypes /\ [AnyNext]_<<coreVars, dsqVars>> => CoreTypes'
<1> SUFFICES ASSUME CoreTypes, [AnyNext]_<<coreVars, dsqVars>> PROVE CoreTypes'
  OBVIOUS
<1> USE DEF CoreTypes, CoreTypeOK, LocalReady, TaskPcs, CpuPcs, dsqVars
<1>1. ASSUME NEW t \in Tasks, WakeIdle(t) PROVE CoreTypes'
  BY <1>1 DEF WakeIdle, ClaimIdle
<1>2. ASSUME NEW t \in Tasks, NEW pc \in {"scan", "age", "enq"}, WakeBusy(t, pc) \/ ScanStep(t, pc)
      PROVE  CoreTypes'
  BY <1>2 DEF WakeBusy, ScanStep
<1>3. ASSUME NEW t \in Tasks, ActivateShared(t), AnyInsert(t) PROVE CoreTypes'
  BY <1>3, InsertTypes DEF ActivateShared, Activate
<1>4. ASSUME NEW t \in Tasks, ActivateLocal(t) PROVE CoreTypes'
  <2>1. local[cpu[t]] \in Seq(Tasks)
    OBVIOUS
  <2>2. Append(local[cpu[t]], t) \in Seq(Tasks) /\ Append(local[cpu[t]], t) # <<>>
    BY <2>1, AppendSeq
  <2> QED
    BY <1>4, <2>2 DEF ActivateLocal, Activate
<1>5. ASSUME NEW c \in CPUs, Preempt(c) \/ SliceExpires(c) PROVE CoreTypes'
  BY <1>5 DEF Preempt, SliceExpires
<1>6. ASSUME NEW c \in CPUs, Block(c) \/ Balance(c) \/ RunningDone(c) PROVE CoreTypes'
  BY <1>6 DEF Block, Balance, RunningDone
<1>7. ASSUME NEW c \in CPUs, AnyDispatch(c) PROVE CoreTypes'
  <2>1. ASSUME TakeForeground(c) \/ TakeBackground(c) PROVE CoreTypes'
    BY <2>1, MoveTypes DEF TakeForeground, TakeBackground
  <2>2. ASSUME NEW pc \in {"dispatchBg", "recheck"}, Advance(c, pc) PROVE CoreTypes'
    BY <2>2 DEF Advance
  <2>3. ASSUME NothingFound(c) PROVE CoreTypes'
    BY <2>3 DEF NothingFound
  <2> QED
    BY <1>7, <2>1, <2>2, <2>3 DEF AnyDispatch
<1>8. ASSUME NEW c \in CPUs, AnyPutPrev(c) PROVE CoreTypes'
  <2>1. fgq' \in Seq(Tasks) /\ bgq' \in Seq(Tasks)
    BY <1>8, InsertTypes DEF AnyPutPrev, PrevRunnable
  <2> QED
    BY <1>8, <2>1 DEF AnyPutPrev, PutPrev
<1>9. ASSUME NEW c \in CPUs, NEW pc \in {"run", "running"}, SetNext(c, pc) PROVE CoreTypes'
  <2>1. Head(local[c]) \in Tasks /\ Tail(local[c]) \in Seq(Tasks)
    BY <1>9, HeadTailSeq DEF SetNext
  <2> QED
    BY <1>9, <2>1 DEF SetNext
<1>10. CASE UNCHANGED <<coreVars, dsqVars>>
  BY <1>10 DEF coreVars
<1> QED
  BY <1>1, <1>2, <1>3, <1>4, <1>5, <1>6, <1>7, <1>8, <1>9, <1>10
     DEF AnyNext, AnyWakeup, AnySchedule

-------------------------------------------------------------------------------
(***************************************************************************)
(* The machine never falls asleep with work queued: the CPU an enqueue     *)
(* targets is either running or told to reschedule, under its run-queue    *)
(* lock, and a CPU goes idle only after it has found each queue empty.     *)
(***************************************************************************)
LEMMA NoStallNext == CoreTypes /\ NoStall /\ [AnyNext]_<<coreVars, dsqVars>> => NoStall'
<1> SUFFICES ASSUME CoreTypes, NoStall, [AnyNext]_<<coreVars, dsqVars>> PROVE NoStall'
  OBVIOUS
<1> USE DEF NoStall, WillProbeForeground, WillProbeBackground
<1>t. CoreTypeOK
  BY DEF CoreTypes
<1>1. ASSUME NEW t \in Tasks, WakeIdle(t) PROVE NoStall'
  BY <1>1 DEF WakeIdle, dsqVars
<1>2. ASSUME NEW t \in Tasks, NEW pc, WakeBusy(t, pc) \/ ScanStep(t, pc) PROVE NoStall'
  BY <1>2 DEF WakeBusy, ScanStep, dsqVars
<1>3. ASSUME NEW t \in Tasks, ActivateShared(t) PROVE NoStall'
  <2>1. \E c \in CPUs : WillProbeForeground(c)' /\ WillProbeBackground(c)'
    BY <1>3, <1>t DEF ActivateShared, Activate, LockFree, CoreTypeOK
  <2> QED
    BY <2>1
<1>4. ASSUME NEW t \in Tasks, ActivateLocal(t) PROVE NoStall'
  BY <1>4 DEF ActivateLocal, Activate, dsqVars
<1>5. ASSUME NEW c \in CPUs, Preempt(c) \/ SliceExpires(c) PROVE NoStall'
  BY <1>5 DEF Preempt, SliceExpires, dsqVars
<1>6. ASSUME NEW c \in CPUs, Block(c) \/ Balance(c) \/ RunningDone(c) PROVE NoStall'
  BY <1>6, <1>t DEF Block, Balance, RunningDone, LockFree, CoreTypeOK, dsqVars
<1>7. ASSUME NEW c \in CPUs, AnyDispatch(c) PROVE NoStall'
  <2>1. ASSUME TakeForeground(c) \/ TakeBackground(c) PROVE NoStall'
    BY <2>1, <1>t DEF TakeForeground, TakeBackground, MoveToLocal, CoreTypeOK
  <2>2. CASE cpc[c] = "dispatch" /\ fgq = <<>> /\ Advance(c, "dispatchBg")
    BY <2>2, <1>t DEF Advance, CoreTypeOK, dsqVars
  <2>3. CASE cpc[c] = "dispatchBg" /\ bgq = <<>> /\ Advance(c, "recheck")
    BY <2>3, <1>t DEF Advance, CoreTypeOK, dsqVars
  <2>4. CASE cpc[c] = "dispatchBg" /\ bgq = <<>> /\ NothingFound(c)
    BY <2>4, <1>t DEF NothingFound, CoreTypeOK, dsqVars
  <2>5. CASE cpc[c] = "recheck" /\ fgq = <<>> /\ NothingFound(c)
    BY <2>5, <1>t DEF NothingFound, CoreTypeOK, dsqVars
  <2> QED
    BY <1>7, <2>1, <2>2, <2>3, <2>4, <2>5 DEF AnyDispatch
<1>8. ASSUME NEW c \in CPUs, AnyPutPrev(c) PROVE NoStall'
  BY <1>8, <1>t DEF AnyPutPrev, PutPrev, CoreTypeOK
<1>9. ASSUME NEW c \in CPUs, NEW pc \in {"run", "running"}, SetNext(c, pc) PROVE NoStall'
  BY <1>9, <1>t DEF SetNext, CoreTypeOK, dsqVars
<1>10. CASE UNCHANGED <<coreVars, dsqVars>>
  BY <1>10 DEF coreVars, dsqVars
<1> QED
  BY <1>1, <1>2, <1>3, <1>4, <1>5, <1>6, <1>7, <1>8, <1>9, <1>10
     DEF AnyNext, AnyWakeup, AnySchedule

-------------------------------------------------------------------------------
(***************************************************************************)
(* Every runnable task is in exactly one place.  Queues are handled through *)
(* In and NoDup, which the next lemmas relate to Append, Head and Tail.    *)
(***************************************************************************)
LEMMA InAppend ==
  ASSUME NEW S, NEW q \in Seq(S), NEW x \in S, NEW t
  PROVE  In(Append(q, x), t) <=> In(q, t) \/ t = x
<1>1. /\ Len(q) \in Nat /\ Len(Append(q, x)) = Len(q) + 1
      /\ Append(q, x)[Len(q) + 1] = x
      /\ \A i \in 1 .. Len(q) : Append(q, x)[i] = q[i]
  BY AppendProperties
<1>2. In(Append(q, x), t) => In(q, t) \/ t = x
  BY <1>1 DEF In
<1>3. In(q, t) => In(Append(q, x), t)
  BY <1>1 DEF In
<1>4. t = x => In(Append(q, x), t)
  BY <1>1 DEF In
<1> QED
  BY <1>2, <1>3, <1>4

LEMMA NoDupAppend ==
  ASSUME NEW S, NEW q \in Seq(S), NEW x \in S, NoDup(q), ~In(q, x)
  PROVE  NoDup(Append(q, x))
<1>1. /\ Len(q) \in Nat /\ Len(Append(q, x)) = Len(q) + 1
      /\ Append(q, x)[Len(q) + 1] = x
      /\ \A i \in 1 .. Len(q) : Append(q, x)[i] = q[i]
  BY AppendProperties
<1> QED
  BY <1>1 DEF In, NoDup

LEMMA TakeHead ==
  ASSUME NEW S, NEW q \in Seq(S), q # <<>>, NoDup(q)
  PROVE  /\ In(q, Head(q)) /\ NoDup(Tail(q))
         /\ \A t : In(Tail(q), t) <=> In(q, t) /\ t # Head(q)
<1>1. /\ Len(q) \in Nat \ {0} /\ Head(q) = q[1]
      /\ Len(Tail(q)) = Len(q) - 1
      /\ \A i \in 1 .. Len(Tail(q)) : Tail(q)[i] = q[i + 1]
  BY HeadTailProperties
<1>2. In(q, Head(q))
  BY <1>1 DEF In
<1>3. NoDup(Tail(q))
  BY <1>1 DEF NoDup
<1>4. ASSUME NEW t PROVE In(Tail(q), t) <=> In(q, t) /\ t # Head(q)
  <2>1. ASSUME In(Tail(q), t) PROVE In(q, t) /\ t # Head(q)
    BY <1>1, <2>1 DEF In, NoDup
  <2>2. ASSUME In(q, t), t # Head(q) PROVE In(Tail(q), t)
    <3>1. PICK i \in 1 .. Len(q) : q[i] = t
      BY <2>2 DEF In
    <3>2. i - 1 \in 1 .. Len(Tail(q)) /\ Tail(q)[i - 1] = t
      BY <1>1, <2>2, <3>1
    <3> QED
      BY <3>2 DEF In
  <2> QED
    BY <2>1, <2>2
<1> QED
  BY <1>2, <1>3, <1>4

LEMMA InEmpty == \A t : ~In(<<>>, t)
BY DEF In

\* Steps that move no task between queues and CPUs.
LEMMA PlaceWaking ==
  ASSUME CoreTypeOK, PlaceInv, NEW t \in Tasks, tpc[t] # "ready", \A c \in CPUs : curr[c] # t,
         tpc' \in [Tasks -> TaskPcs], tpc'[t] # "ready",
         \A u \in Tasks \ {t} : tpc'[u] = tpc[u],
         UNCHANGED <<fgq, bgq, local, curr, cpc>>
  PROVE  PlaceInv'
BY DEF PlaceInv, NoDuplicates, TaskPlaced, CpuOwns, Queued, OnCpu

\* Steps in which only one CPU advances, away from the switch.
LEMMA PlaceCpuStep ==
  ASSUME CoreTypeOK, PlaceInv, NEW c \in CPUs, cpc[c] # "next", cpc'[c] # "next",
         \A d \in CPUs \ {c} : cpc'[d] = cpc[d], CpuOwns(c)',
         UNCHANGED <<fgq, bgq, local, curr, tpc>>
  PROVE  PlaceInv'
<1>1. NoDuplicates'
  BY DEF PlaceInv, NoDuplicates
<1>2. ASSUME NEW t \in Tasks PROVE TaskPlaced(t)'
  BY DEF PlaceInv, TaskPlaced, Queued, OnCpu
<1>3. ASSUME NEW d \in CPUs PROVE CpuOwns(d)'
  <2>1. CASE d # c
    BY <2>1 DEF PlaceInv, CpuOwns
  <2> QED
    BY <2>1
<1> QED
  BY <1>1, <1>2, <1>3 DEF PlaceInv

\* Moving the head of a shared DSQ to the local DSQ of a CPU.
LEMMA PlaceMove ==
  ASSUME CoreTypeOK, PlaceInv, NEW c \in CPUs, cpc[c] \in {"dispatch", "dispatchBg", "recheck"},
         TakeForeground(c) \/ TakeBackground(c)
  PROVE  PlaceInv'
<1> DEFINE q == IF fgq # <<>> /\ MoveToLocal(c, fgq) /\ fgq' = Tail(fgq) /\ UNCHANGED bgq THEN fgq ELSE bgq
           h == Head(q)
<1>1. /\ q \in Seq(Tasks) /\ q # <<>> /\ MoveToLocal(c, q) /\ NoDup(q)
      /\ \/ q = fgq /\ fgq' = Tail(fgq) /\ UNCHANGED bgq
         \/ q = bgq /\ bgq' = Tail(bgq) /\ UNCHANGED fgq
  BY DEF TakeForeground, TakeBackground, MoveToLocal, CoreTypeOK, PlaceInv, NoDuplicates
<1> HIDE DEF q
<1>2. h \in Tasks /\ In(q, h) /\ NoDup(Tail(q)) /\ \A t : In(Tail(q), t) <=> In(q, t) /\ t # h
  BY <1>1, TakeHead, HeadTailSeq
<1>3. ~In(local[c], h) /\ \A d \in CPUs : curr[d] # h /\ ~In(local[d], h)
  BY <1>1, <1>2 DEF PlaceInv, TaskPlaced, MoveToLocal, HeldElsewhere
<1>4. /\ local[c] \in Seq(Tasks) /\ local' = [local EXCEPT ![c] = Append(@, h)]
      /\ local \in [CPUs -> Seq(Tasks)]
  BY <1>1 DEF MoveToLocal, CoreTypeOK
<1>5. /\ NoDup(local'[c]) /\ \A t : In(local'[c], t) <=> In(local[c], t) \/ t = h
      /\ \A d \in CPUs \ {c} : local'[d] = local[d]
  BY <1>2, <1>3, <1>4, InAppend, NoDupAppend DEF PlaceInv, NoDuplicates
<1>6. UNCHANGED <<curr, tpc>> /\ cpc'[c] = "put" /\ \A d \in CPUs \ {c} : cpc'[d] = cpc[d]
  BY <1>1 DEF MoveToLocal, CoreTypeOK
<1>7. NoDuplicates'
  BY <1>1, <1>2, <1>5 DEF PlaceInv, NoDuplicates
<1>a. ~(In(fgq, h) /\ In(bgq, h)) /\ tpc[h] = "ready"
  BY <1>1, <1>2 DEF PlaceInv, TaskPlaced, Queued
<1>b. ~In(fgq', h) /\ ~In(bgq', h)
  BY <1>1, <1>2, <1>a
<1>c. \A t : t # h => (In(fgq', t) <=> In(fgq, t)) /\ (In(bgq', t) <=> In(bgq, t))
  BY <1>1, <1>2
<1>d. /\ In(local'[c], h)
      /\ \A d \in CPUs : In(local'[d], h) => d = c
      /\ \A t : t # h => \A d \in CPUs : In(local'[d], t) <=> In(local[d], t)
  BY <1>3, <1>5
<1> HIDE DEF h
<1>8. ASSUME NEW t \in Tasks PROVE TaskPlaced(t)'
  <2>1. CASE t = h
    BY <2>1, <1>a, <1>b, <1>d, <1>3, <1>6 DEF TaskPlaced, Queued
  <2>2. CASE t # h
    <3>1. TaskPlaced(t) /\ cpc[c] # "next"
      BY DEF PlaceInv
    <3>2. Queued(t)' <=> Queued(t)
      BY <2>2, <1>c, <1>d DEF Queued
    <3>3. OnCpu(t) => OnCpu(t)'
      BY <1>6 DEF OnCpu
    <3>4. \A d \in CPUs : cpc[d] = "next" => cpc'[d] = "next"
      BY <3>1, <1>6
    <3> QED
      BY <2>2, <3>1, <3>2, <3>3, <3>4, <1>c, <1>d, <1>6 DEF TaskPlaced
  <2> QED
    BY <2>1, <2>2
<1>9. ASSUME NEW d \in CPUs PROVE CpuOwns(d)'
  BY <1>6 DEF PlaceInv, CpuOwns
<1> QED
  BY <1>7, <1>8, <1>9 DEF PlaceInv

\* ops.enqueue of a task that is in no queue.
LEMMA PlaceInsert ==
  ASSUME CoreTypeOK, PlaceInv, NEW t \in Tasks, ~Queued(t), AnyInsert(t)
  PROVE  /\ NoDup(fgq') /\ NoDup(bgq') /\ ~(In(fgq', t) /\ In(bgq', t))
         /\ In(fgq', t) \/ In(bgq', t)
         /\ \A u : u # t => (In(fgq', u) <=> In(fgq, u)) /\ (In(bgq', u) <=> In(bgq, u))
<1>1. fgq \in Seq(Tasks) /\ bgq \in Seq(Tasks) /\ NoDup(fgq) /\ NoDup(bgq)
      /\ ~In(fgq, t) /\ ~In(bgq, t)
  BY DEF CoreTypeOK, PlaceInv, NoDuplicates, Queued
<1>2. /\ NoDup(Append(fgq, t)) /\ \A u : In(Append(fgq, t), u) <=> In(fgq, u) \/ u = t
      /\ NoDup(Append(bgq, t)) /\ \A u : In(Append(bgq, t), u) <=> In(bgq, u) \/ u = t
  BY <1>1, InAppend, NoDupAppend
<1>3. \/ bgq' = Append(bgq, t) /\ fgq' = fgq
      \/ fgq' = Append(fgq, t) /\ bgq' = bgq
  BY DEF AnyInsert, InsertForeground, InsertBackground
<1>4. CASE bgq' = Append(bgq, t) /\ fgq' = fgq
  BY <1>1, <1>2, <1>4
<1>5. CASE fgq' = Append(fgq, t) /\ bgq' = bgq
  BY <1>1, <1>2, <1>5
<1> QED
  BY <1>3, <1>4, <1>5

LEMMA PlaceIdle ==
  ASSUME CoreTypeOK, PlaceInv, NEW c \in CPUs, cpc[c] \in {"dispatchBg", "recheck"}, NothingFound(c)
  PROVE  PlaceInv'
<1>n. NoTask \notin Tasks
  BY CoreAssumption
<1>1. CASE PrevRunnable(c)
  <2>1. /\ cpc'[c] = "run" /\ \A d \in CPUs \ {c} : cpc'[d] = cpc[d]
        /\ UNCHANGED <<fgq, bgq, local, curr, tpc>>
    BY <1>1 DEF NothingFound, CoreTypeOK, dsqVars
  <2>2. CpuOwns(c)'
    BY <2>1, <1>1 DEF PlaceInv, CpuOwns, PrevRunnable, CoreTypeOK
  <2> QED
    BY <2>1, <2>2, PlaceCpuStep
<1>2. CASE ~PrevRunnable(c)
  <2>1. /\ cpc'[c] = "idle" /\ curr'[c] = NoTask
        /\ \A d \in CPUs \ {c} : cpc'[d] = cpc[d] /\ curr'[d] = curr[d]
        /\ UNCHANGED <<fgq, bgq, local, tpc>>
    BY <1>2 DEF NothingFound, CoreTypeOK, dsqVars
  <2>2. NoDuplicates'
    BY <2>1 DEF PlaceInv, NoDuplicates
  <2>3. ASSUME NEW t \in Tasks PROVE TaskPlaced(t)'
    BY <1>2, <2>1, <1>n DEF PlaceInv, TaskPlaced, Queued, OnCpu, PrevRunnable
  <2>4. ASSUME NEW d \in CPUs PROVE CpuOwns(d)'
    BY <2>1, <1>n DEF PlaceInv, CpuOwns
  <2> QED
    BY <2>2, <2>3, <2>4 DEF PlaceInv
<1> QED
  BY <1>1, <1>2

LEMMA PlaceNext == CoreTypes /\ PlaceInv /\ [AnyNext]_<<coreVars, dsqVars>> => PlaceInv'
<1> SUFFICES ASSUME CoreTypes, PlaceInv, [AnyNext]_<<coreVars, dsqVars>> PROVE PlaceInv'
  OBVIOUS
<1>t. CoreTypeOK
  BY DEF CoreTypes
<1>n. NoTask \notin Tasks
  BY CoreAssumption
<1>w. ASSUME NEW t \in Tasks, tpc[t] \in {"scan", "age", "enq", "enqLocal"}
      PROVE  \A c \in CPUs : curr[c] # t
  BY <1>w DEF PlaceInv, CpuOwns
<1>1. ASSUME NEW t \in Tasks, WakeIdle(t) PROVE PlaceInv'
  <2>1. /\ tpc' \in [Tasks -> TaskPcs] /\ tpc'[t] # "ready" /\ tpc[t] # "ready"
        /\ \A u \in Tasks \ {t} : tpc'[u] = tpc[u]
        /\ UNCHANGED <<fgq, bgq, local, curr, cpc>>
        /\ \A c \in CPUs : curr[c] # t
    BY <1>1, <1>t DEF WakeIdle, Wakeable, CoreTypeOK, TaskPcs, dsqVars
  <2> QED
    BY <2>1, <1>t, PlaceWaking
<1>2. ASSUME NEW t \in Tasks, NEW pc \in {"scan", "age", "enq"}, WakeBusy(t, pc) \/ ScanStep(t, pc)
      PROVE  PlaceInv'
  <2>1. /\ tpc' \in [Tasks -> TaskPcs] /\ tpc'[t] # "ready" /\ tpc[t] # "ready"
        /\ \A u \in Tasks \ {t} : tpc'[u] = tpc[u]
        /\ UNCHANGED <<fgq, bgq, local, curr, cpc>>
    BY <1>2, <1>t DEF WakeBusy, ScanStep, Wakeable, CoreTypeOK, TaskPcs, dsqVars
  <2>2. \A c \in CPUs : curr[c] # t
    BY <1>2, <1>w DEF WakeBusy, ScanStep, Wakeable
  <2> QED
    BY <2>1, <2>2, <1>t, PlaceWaking
<1>3. ASSUME NEW t \in Tasks, ActivateShared(t), AnyInsert(t) PROVE PlaceInv'
  <2>1. ~Queued(t) /\ AnyInsert(t) /\ UNCHANGED <<local, curr, cpc>> /\ tpc[t] = "enq"
        /\ tpc'[t] = "ready" /\ \A u \in Tasks \ {t} : tpc'[u] = tpc[u]
    BY <1>3, <1>t DEF ActivateShared, Activate, CoreTypeOK, PlaceInv, TaskPlaced
  <2>2. \A c \in CPUs : curr[c] # t
    BY <2>1, <1>w
  <2>3. NoDuplicates'
    BY <2>1, <1>t, PlaceInsert DEF PlaceInv, NoDuplicates
  <2>4. ASSUME NEW u \in Tasks PROVE TaskPlaced(u)'
    <3>1. CASE u = t
      BY <3>1, <2>1, <2>2, <1>t, PlaceInsert DEF TaskPlaced, Queued, OnCpu
    <3>2. CASE u # t
      BY <3>2, <2>1, <1>t, PlaceInsert DEF PlaceInv, TaskPlaced, Queued, OnCpu
    <3> QED
      BY <3>1, <3>2
  <2>5. ASSUME NEW c \in CPUs PROVE CpuOwns(c)'
    BY <2>1, <2>2 DEF PlaceInv, CpuOwns
  <2> QED
    BY <2>3, <2>4, <2>5 DEF PlaceInv
<1>4. ASSUME NEW t \in Tasks, ActivateLocal(t) PROVE PlaceInv'
  <2>1. /\ ~Queued(t) /\ UNCHANGED <<fgq, bgq, curr, cpc>> /\ tpc[t] = "enqLocal"
        /\ tpc'[t] = "ready" /\ \A u \in Tasks \ {t} : tpc'[u] = tpc[u]
        /\ cpu[t] \in CPUs /\ local[cpu[t]] \in Seq(Tasks)
        /\ local'[cpu[t]] = Append(local[cpu[t]], t)
        /\ \A c \in CPUs \ {cpu[t]} : local'[c] = local[c]
    BY <1>4, <1>t DEF ActivateLocal, Activate, CoreTypeOK, PlaceInv, TaskPlaced, dsqVars
  <2>2. \A c \in CPUs : curr[c] # t
    BY <2>1, <1>w
  <2>3. /\ NoDup(local'[cpu[t]])
        /\ \A u : In(local'[cpu[t]], u) <=> In(local[cpu[t]], u) \/ u = t
    BY <2>1, InAppend, NoDupAppend DEF PlaceInv, NoDuplicates, Queued
  <2>4. NoDuplicates'
    BY <2>1, <2>3 DEF PlaceInv, NoDuplicates
  <2>5. ASSUME NEW u \in Tasks PROVE TaskPlaced(u)'
    <3>1. CASE u = t
      BY <3>1, <2>1, <2>2, <2>3 DEF TaskPlaced, Queued, OnCpu
    <3>2. CASE u # t
      <4>1. \A c \in CPUs : In(local'[c], u) <=> In(local[c], u)
        BY <3>2, <2>1, <2>3
      <4>2. TaskPlaced(u) /\ (Queued(u)' <=> Queued(u)) /\ (OnCpu(u)' <=> OnCpu(u))
        BY <2>1, <4>1 DEF PlaceInv, Queued, OnCpu
      <4> QED
        BY <3>2, <2>1, <4>1, <4>2 DEF TaskPlaced
    <3> QED
      BY <3>1, <3>2
  <2>6. ASSUME NEW c \in CPUs PROVE CpuOwns(c)'
    BY <2>1, <2>2 DEF PlaceInv, CpuOwns
  <2> QED
    BY <2>4, <2>5, <2>6 DEF PlaceInv
<1>5. ASSUME NEW c \in CPUs, Preempt(c) \/ SliceExpires(c) PROVE PlaceInv'
  BY <1>5 DEF Preempt, SliceExpires, dsqVars, PlaceInv, NoDuplicates, TaskPlaced, CpuOwns, Queued, OnCpu
<1>6. ASSUME NEW c \in CPUs, Balance(c) \/ RunningDone(c) PROVE PlaceInv'
  <2>1. /\ cpc[c] # "next" /\ cpc'[c] \in {"put", "dispatch", "run"}
        /\ cpc'[c] = "run" => cpc[c] = "running"
        /\ \A d \in CPUs \ {c} : cpc'[d] = cpc[d]
        /\ UNCHANGED <<fgq, bgq, local, curr, tpc>>
    BY <1>6, <1>t DEF Balance, RunningDone, LockFree, CoreTypeOK, dsqVars
  <2>2. CpuOwns(c)'
    BY <2>1 DEF PlaceInv, CpuOwns
  <2> QED
    BY <2>1, <2>2, <1>t, PlaceCpuStep
<1>7. ASSUME NEW c \in CPUs, AnyDispatch(c) PROVE PlaceInv'
  <2>1. cpc[c] \in {"dispatch", "dispatchBg", "recheck"}
    BY <1>7 DEF AnyDispatch
  <2>2. ASSUME TakeForeground(c) \/ TakeBackground(c) PROVE PlaceInv'
    BY <2>1, <2>2, <1>t, PlaceMove
  <2>3. ASSUME NEW pc \in {"dispatchBg", "recheck"}, Advance(c, pc) PROVE PlaceInv'
    <3>1. /\ cpc'[c] = pc /\ \A d \in CPUs \ {c} : cpc'[d] = cpc[d]
          /\ UNCHANGED <<fgq, bgq, local, curr, tpc>>
      BY <2>3, <1>t DEF Advance, CoreTypeOK, dsqVars
    <3>2. CpuOwns(c)'
      BY <2>1, <3>1 DEF PlaceInv, CpuOwns
    <3> QED
      BY <2>1, <3>1, <3>2, <1>t, PlaceCpuStep
  <2>4. ASSUME NothingFound(c), cpc[c] \in {"dispatchBg", "recheck"} PROVE PlaceInv'
    BY <2>4, <1>t, PlaceIdle
  <2> QED
    BY <1>7, <2>2, <2>3, <2>4 DEF AnyDispatch
<1>8. ASSUME NEW c \in CPUs, AnyPutPrev(c) PROVE PlaceInv'
  <2>1. /\ cpc[c] = "put" /\ cpc'[c] = "next" /\ \A d \in CPUs \ {c} : cpc'[d] = cpc[d]
        /\ UNCHANGED <<local, curr, tpc>>
    BY <1>8, <1>t DEF AnyPutPrev, PutPrev, CoreTypeOK
  <2>2. ASSUME NEW d \in CPUs PROVE CpuOwns(d)'
    BY <2>1 DEF PlaceInv, CpuOwns
  <2>3. CASE PrevRunnable(c)
    <3>1. curr[c] \in Tasks /\ ~Queued(curr[c]) /\ AnyInsert(curr[c]) /\ tpc[curr[c]] = "ready"
      BY <1>8, <2>1, <2>3, <1>t
         DEF AnyPutPrev, PrevRunnable, CoreTypeOK, PlaceInv, TaskPlaced, Queued
    <3>2. NoDuplicates'
      BY <2>1, <3>1, <1>t, PlaceInsert DEF PlaceInv, NoDuplicates
    <3>3. ASSUME NEW t \in Tasks PROVE TaskPlaced(t)'
      <4>1. CASE t = curr[c]
        BY <4>1, <2>1, <3>1, <1>t, PlaceInsert DEF PlaceInv, TaskPlaced, Queued, OnCpu
      <4>2. CASE t # curr[c]
        BY <4>2, <2>1, <3>1, <1>t, PlaceInsert DEF PlaceInv, TaskPlaced, Queued, OnCpu
      <4> QED
        BY <4>1, <4>2
    <3> QED
      BY <2>2, <3>2, <3>3 DEF PlaceInv
  <2>4. CASE ~PrevRunnable(c)
    <3>1. UNCHANGED <<fgq, bgq>>
      BY <1>8, <2>4 DEF AnyPutPrev, dsqVars
    <3>2. NoDuplicates'
      BY <2>1, <3>1 DEF PlaceInv, NoDuplicates
    <3>3. ASSUME NEW t \in Tasks PROVE TaskPlaced(t)'
      BY <2>1, <2>4, <3>1, <1>n DEF PlaceInv, TaskPlaced, Queued, OnCpu, PrevRunnable
    <3> QED
      BY <2>2, <3>2, <3>3 DEF PlaceInv
  <2> QED
    BY <2>3, <2>4
<1>9. ASSUME NEW c \in CPUs, NEW pc \in {"run", "running"}, SetNext(c, pc) PROVE PlaceInv'
  <2> DEFINE h == Head(local[c])
  <2>1. /\ local[c] \in Seq(Tasks) /\ local[c] # <<>> /\ NoDup(local[c])
        /\ local'[c] = Tail(local[c]) /\ curr'[c] = h
        /\ cpc[c] = "next" /\ cpc'[c] \in {"run", "running"}
        /\ \A d \in CPUs \ {c} : cpc'[d] = cpc[d] /\ curr'[d] = curr[d] /\ local'[d] = local[d]
        /\ UNCHANGED <<fgq, bgq, tpc>>
    BY <1>9, <1>t DEF SetNext, CoreTypeOK, dsqVars, CoreTypes, LocalReady, PlaceInv, NoDuplicates
  <2>2. /\ h \in Tasks /\ In(local[c], h) /\ NoDup(Tail(local[c]))
        /\ \A t : In(Tail(local[c]), t) <=> In(local[c], t) /\ t # h
    BY <2>1, TakeHead, HeadTailSeq
  <2> HIDE DEF h
  <2>3. tpc[h] = "ready" /\ ~In(fgq, h) /\ ~In(bgq, h)
        /\ \A d \in CPUs : curr[d] # h /\ (In(local[d], h) => d = c)
    BY <2>2 DEF PlaceInv, TaskPlaced, Queued
  <2>4. NoDuplicates'
    BY <2>1, <2>2 DEF PlaceInv, NoDuplicates
  <2>5. ASSUME NEW t \in Tasks PROVE TaskPlaced(t)'
    <3>1. CASE t = h
      BY <3>1, <2>1, <2>2, <2>3 DEF TaskPlaced, Queued, OnCpu
    <3>2. CASE t # h
      BY <3>2, <2>1, <2>2, <2>3 DEF PlaceInv, TaskPlaced, Queued, OnCpu
    <3> QED
      BY <3>1, <3>2
  <2>6. ASSUME NEW d \in CPUs PROVE CpuOwns(d)'
    BY <2>1, <2>2, <2>3 DEF PlaceInv, CpuOwns
  <2> QED
    BY <2>4, <2>5, <2>6 DEF PlaceInv
<1>10. ASSUME NEW c \in CPUs, Block(c) PROVE PlaceInv'
  <2>1. /\ cpc[c] = "run" /\ cpc'[c] = "blocked" /\ \A d \in CPUs \ {c} : cpc'[d] = cpc[d]
        /\ curr[c] \in Tasks /\ tpc'[curr[c]] = "asleep"
        /\ \A t \in Tasks \ {curr[c]} : tpc'[t] = tpc[t]
        /\ UNCHANGED <<fgq, bgq, local, curr>>
    BY <1>10, <1>t DEF Block, CoreTypeOK, dsqVars, PlaceInv, CpuOwns
  <2>2. NoDuplicates'
    BY <2>1 DEF PlaceInv, NoDuplicates
  <2>3. ASSUME NEW t \in Tasks PROVE TaskPlaced(t)'
    <3>1. CASE t = curr[c]
      BY <3>1, <2>1 DEF PlaceInv, TaskPlaced, Queued, OnCpu
    <3>2. CASE t # curr[c]
      BY <3>2, <2>1 DEF PlaceInv, TaskPlaced, Queued, OnCpu
    <3> QED
      BY <3>1, <3>2
  <2>4. ASSUME NEW d \in CPUs PROVE CpuOwns(d)'
    BY <2>1, <1>n DEF PlaceInv, CpuOwns, TaskPlaced
  <2> QED
    BY <2>2, <2>3, <2>4 DEF PlaceInv
<1>11. CASE UNCHANGED <<coreVars, dsqVars>>
  BY <1>11 DEF coreVars, dsqVars, PlaceInv, NoDuplicates, TaskPlaced, CpuOwns, Queued, OnCpu
<1> QED
  BY <1>1, <1>2, <1>3, <1>4, <1>5, <1>6, <1>7, <1>8, <1>9, <1>10, <1>11
     DEF AnyNext, AnyWakeup, AnySchedule

-------------------------------------------------------------------------------
(***************************************************************************)
(* The invariant as a whole, and what it implies.                          *)
(***************************************************************************)
LEMMA CoreInvInit == CoreInit => CoreInv
<1> SUFFICES ASSUME CoreInit PROVE CoreInv
  OBVIOUS
<1> USE CoreAssumption DEF CoreInit
<1>1. CoreTypeOK /\ LocalReady
  BY DEF CoreTypeOK, LocalReady, CPUs, TaskPcs, CpuPcs
<1>2. NoDuplicates
  BY DEF NoDuplicates, NoDup
<1>3. ASSUME NEW t \in Tasks PROVE TaskPlaced(t)
  BY InEmpty DEF TaskPlaced, Queued
<1>4. ASSUME NEW c \in CPUs PROVE CpuOwns(c)
  BY DEF CpuOwns
<1>5. NoStall
  BY DEF NoStall
<1> QED
  BY <1>1, <1>2, <1>3, <1>4, <1>5 DEF PlaceInv, CoreInv

LEMMA CoreInvNext == CoreInv /\ [AnyNext]_<<coreVars, dsqVars>> => CoreInv'
BY TypesNext, NoStallNext, PlaceNext DEF CoreInv, CoreTypes

\* Places(t) with the positions in each queue as witnesses.
LEMMA InPositions ==
  ASSUME NEW S, NEW q \in Seq(S), NEW dsq, NEW t
  PROVE  \A p : p \in Positions(dsq, q, t) <=> \E i \in 1 .. Len(q) : q[i] = t /\ p = <<dsq, i>>
BY DEF Positions

LEMMA InPlaces ==
  ASSUME CoreTypeOK, NEW t \in Tasks
  PROVE  \A p : p \in Places(t) <=>
           \/ \E i \in 1 .. Len(fgq) : fgq[i] = t /\ p = <<"fg", i>>
           \/ \E i \in 1 .. Len(bgq) : bgq[i] = t /\ p = <<"bg", i>>
           \/ \E c \in CPUs : \E i \in 1 .. Len(local[c]) : local[c][i] = t /\ p = <<c, i>>
           \/ \E c \in CPUs : curr[c] = t /\ cpc[c] # "next" /\ p = <<"cpu", c>>
<1> TAKE p
<1>0. p \in LocalPositions(t) <=> \E c \in CPUs : p \in Positions(c, local[c], t)
  BY DEF LocalPositions
<1>1. p \in Places(t) <=> \/ p \in Positions("fg", fgq, t) \/ p \in Positions("bg", bgq, t)
                          \/ (\E c \in CPUs : p \in Positions(c, local[c], t)) \/ p \in Holders(t)
  BY <1>0 DEF Places
<1>2. p \in Positions("fg", fgq, t) <=> \E i \in 1 .. Len(fgq) : fgq[i] = t /\ p = <<"fg", i>>
  BY InPositions DEF CoreTypeOK
<1>3. p \in Positions("bg", bgq, t) <=> \E i \in 1 .. Len(bgq) : bgq[i] = t /\ p = <<"bg", i>>
  BY InPositions DEF CoreTypeOK
<1>4. \A c \in CPUs : p \in Positions(c, local[c], t)
                        <=> \E i \in 1 .. Len(local[c]) : local[c][i] = t /\ p = <<c, i>>
  <2>1. \A c \in CPUs : local[c] \in Seq(Tasks)
    BY DEF CoreTypeOK
  <2> QED
    BY <2>1, InPositions
<1>5. p \in Holders(t) <=> \E c \in CPUs : curr[c] = t /\ cpc[c] # "next" /\ p = <<"cpu", c>>
  BY DEF Holders
<1> QED
  BY <1>1, <1>2, <1>3, <1>4, <1>5, Zenon

LEMMA PlaceInvImplies == CoreTypeOK /\ PlaceInv => OnePlace
<1> SUFFICES ASSUME CoreTypeOK, PlaceInv, NEW t \in Tasks
             PROVE  IF tpc[t] = "ready"
                    THEN \E p \in Places(t) : Places(t) = {p}
                    ELSE Places(t) \subseteq Holders(t)
  BY DEF OnePlace
<1>t. CoreTypeOK /\ TaskPlaced(t) /\ NoDuplicates
  BY DEF PlaceInv
<1>1. CASE tpc[t] # "ready"
  <2>1. ~In(fgq, t) /\ ~In(bgq, t) /\ \A c \in CPUs : ~In(local[c], t)
    BY <1>1, <1>t DEF TaskPlaced, Queued
  <2> QED
    BY <1>1, <1>t, <2>1, InPlaces DEF In, Holders
<1>2. CASE tpc[t] = "ready"
  <2>0. ASSUME NEW p, \A x : x \in Places(t) <=> x = p
        PROVE  \E q \in Places(t) : Places(t) = {q}
    <3>1. p \in Places(t) /\ Places(t) = {p}
      BY <2>0
    <3> QED
      BY <3>1
  <2>1. ASSUME In(fgq, t) PROVE \E q \in Places(t) : Places(t) = {q}
    <3>1. PICK i \in 1 .. Len(fgq) : fgq[i] = t
      BY <2>1 DEF In
    <3>2. \A j \in 1 .. Len(fgq) : fgq[j] = t <=> j = i
      BY <3>1, <1>t DEF NoDuplicates, NoDup
    <3>3. ~In(bgq, t) /\ (\A c \in CPUs : ~In(local[c], t)) /\ \A c \in CPUs : curr[c] = t => cpc[c] = "next"
      BY <2>1, <1>t DEF TaskPlaced
    <3> DEFINE p == <<"fg", i>>
    <3>4. \A x : x \in Places(t) <=> x = p
      BY <3>1, <3>2, <3>3, <1>t, InPlaces DEF In
    <3> HIDE DEF p
    <3> QED
      BY <3>4, <2>0
  <2>2. ASSUME In(bgq, t) PROVE \E q \in Places(t) : Places(t) = {q}
    <3>1. PICK i \in 1 .. Len(bgq) : bgq[i] = t
      BY <2>2 DEF In
    <3>2. \A j \in 1 .. Len(bgq) : bgq[j] = t <=> j = i
      BY <3>1, <1>t DEF NoDuplicates, NoDup
    <3>3. ~In(fgq, t) /\ (\A c \in CPUs : ~In(local[c], t)) /\ \A c \in CPUs : curr[c] = t => cpc[c] = "next"
      BY <2>2, <1>t DEF TaskPlaced
    <3> DEFINE p == <<"bg", i>>
    <3>4. \A x : x \in Places(t) <=> x = p
      BY <3>1, <3>2, <3>3, <1>t, InPlaces DEF In
    <3> HIDE DEF p
    <3> QED
      BY <3>4, <2>0
  <2>3. ASSUME NEW c \in CPUs, In(local[c], t) PROVE \E q \in Places(t) : Places(t) = {q}
    <3>1. PICK i \in 1 .. Len(local[c]) : local[c][i] = t
      BY <2>3 DEF In
    <3>2. \A j \in 1 .. Len(local[c]) : local[c][j] = t <=> j = i
      BY <3>1, <1>t DEF NoDuplicates, NoDup
    <3>3. /\ ~In(fgq, t) /\ ~In(bgq, t) /\ \A d \in CPUs : curr[d] # t
          /\ \A d \in CPUs : In(local[d], t) => d = c
      BY <2>3, <1>t DEF TaskPlaced
    <3> DEFINE p == <<c, i>>
    <3>4. \A x : x \in Places(t) <=> x = p
      BY <3>1, <3>2, <3>3, <1>t, InPlaces DEF In
    <3> HIDE DEF p
    <3> QED
      BY <3>4, <2>0
  <2>4. ASSUME ~Queued(t) PROVE \E q \in Places(t) : Places(t) = {q}
    <3>1. PICK c \in CPUs : curr[c] = t /\ cpc[c] # "next"
      BY <1>2, <2>4, <1>t DEF TaskPlaced, OnCpu
    <3>2. \A d \in CPUs : curr[d] = t => d = c
      BY <3>1, <1>t DEF TaskPlaced
    <3>3. ~In(fgq, t) /\ ~In(bgq, t) /\ \A d \in CPUs : ~In(local[d], t)
      BY <2>4 DEF Queued
    <3> DEFINE p == <<"cpu", c>>
    <3>4. \A x : x \in Places(t) <=> x = p
      BY <3>1, <3>2, <3>3, <1>t, InPlaces DEF In
    <3> HIDE DEF p
    <3> QED
      BY <3>4, <2>0
  <2> QED
    BY <1>2, <2>1, <2>2, <2>3, <2>4 DEF Queued
<1> QED
  BY <1>1, <1>2

LEMMA CoreInvImplies == CoreInv => OnePlace /\ NoStall
BY PlaceInvImplies DEF CoreInv

\* The inductive invariant: whatever the policy, in every reachable state the
\* queues are well formed and every task is where its wake-up says it is.
THEOREM AnyPolicyCorrect == AnyPolicy => []CoreInv
BY CoreInvInit, CoreInvNext, PTL DEF AnyPolicy

\* No task is lost and none is queued twice, whatever the policy and for any
\* number of tasks and CPUs: a runnable task is always in one DSQ position or on
\* one CPU, and a sleeping or waking one in no DSQ.
THEOREM NoTaskLostOrDoubled == AnyPolicy => []OnePlace
BY AnyPolicyCorrect, CoreInvImplies, PTL

\* No stall: whenever a task waits in one of the shared DSQs, some CPU is still
\* going to look at that DSQ, however wake-ups interleave with CPUs going idle.
THEOREM WorkIsNeverStranded == AnyPolicy => []NoStall
BY AnyPolicyCorrect, CoreInvImplies, PTL

===============================================================================
