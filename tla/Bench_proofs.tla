------------------------------ MODULE Bench_proofs ------------------------------
(***************************************************************************)
(* The benchmark sessions keep what Experiment promises about results,     *)
(* stop what they have started and lose no more of the results than they   *)
(* say, for any number of schedulers, data sizes, tests and runs.          *)
(***************************************************************************)
EXTENDS Bench, SequenceTheorems, FiniteSetTheorems, TLAPS

Suite == Redis \/ Memtier

-------------------------------------------------------------------------------
(***************************************************************************)
(* The inductive invariant: the types, and what holds in the sessions of   *)
(* each family of programs.                                                *)
(***************************************************************************)
BenchTypes ==
  /\ proc \in [Labels -> {"none", "loading", "attached", "ejected"}]
  /\ deaf \subseteq Labels
  /\ <<driver, mode>> \in Modes
  /\ i \in Nat \ {0}
  /\ held \in Labels \cup {Null}
  /\ measuring \in Configs \cup {Null}
  /\ tests \in Seq(Outputs \cup {TimedOut})
  /\ result \in Statuses \cup {Null}
  /\ records \in [Configs -> Statuses \cup {Null}]

\* What a configuration is measured for, from the first to the last step of it.
Upto(k, order) == \A j \in DOMAIN order : j >= k <=> records[order[j]] = Null

\* Schedulers that the session has started and can stop.
Mine == Labels \ (deaf \cup {Other})

ABSaving == {"save", "write", "chart"}

ABWhere ==
  /\ pc \in {"test", "start", "wait", "run", "stop", "store"} \cup ABSaving \cup Ended
  /\ pc \notin Ended =>
       /\ i \in 1 .. Len(ABOrder) + 1
       /\ pc \in ABSaving <=> i = Len(ABOrder) + 1
       /\ Upto(i, ABOrder) /\ verdict = "none"
       /\ file = IF pc = "write" THEN Cut ELSE IF pc = "chart" THEN records ELSE Null

ABResult ==
  /\ pc \in {"run", "stop"} => measuring = This
  /\ pc = "store" => measuring = This \/ (measuring = Null /\ result = "failed")
  /\ pc \notin {"run", "stop", "store"} => measuring = Null
  /\ pc \in {"stop", "store"} => result \in Statuses

ABSaved ==
  /\ file \in {Null, Cut, records}
  /\ file # Null => \A k \in DOMAIN ABOrder : records[ABOrder[k]] # Null
  /\ file = Cut /\ pc \in Ended => pc = "aborted" \/ at[1] = "write"
  /\ pc = "done" => file = records
  /\ driver = "db_sim_bench" =>
       /\ result # "empty" /\ \A c \in Configs : records[c] # "empty"
       /\ verdict = "improvement" =>
            IF file = Null THEN pc # "done"
            ELSE /\ file = records
                 /\ {records[Config(Default, 1)], records[Config(Schedulers[1], 1)]} = {"ok"}

ABProcs ==
  /\ pc = "wait" => This.label # Default
  /\ \A s \in Mine : Alive(s) =>
       \/ pc = "wait" /\ s = This.label
       \/ pc \in {"run", "stop"} /\ held = s
       \/ pc = "interrupted" /\ (at[2] = "TERM" \/ at[1] \in {"wait", "stop"})

ABInv == ABWhere /\ ABResult /\ ABSaved /\ ABProcs

ArchiveInv ==
  /\ pc \in {"test", "tests"} \cup ABSaving \cup Ended
  /\ pc \in {"test", "tests"} => records = [c \in Configs |-> Null]
  /\ measuring = IF pc = "tests" THEN Config(Default, 1) ELSE Null
  /\ \A s \in Mine : ~Alive(s)

Looking == {"test", "start", "wait"}
Serving == {"server", "popen", "remember", "ping", "tests", "cleanup", "unload"}
Saving == {"save", "write"}
Sweeping == {"csv", "rows", "plot", "aborted"}

SuiteInv ==
  /\ pc \in Looking \cup Serving \cup Saving \cup Sweeping
              \cup {"record", "finish", "done", "interrupted"}
  /\ pc \in Sweeping => mode = "sweep"
  /\ pc \in Looking \cup Serving \cup {"record"} =>
       i <= Len(Order) /\ \A k \in DOMAIN Order : k >= i => records[Order[k]] = Null
  /\ pc \in Saving => i > 1 /\ \A k \in DOMAIN Order : k >= i => records[Order[k]] = Null
  /\ pc \in Serving => measuring = Target
  /\ pc = "record" => measuring = Target \/ (measuring = Null /\ tests = <<>>)
  /\ pc \notin Serving \cup {"record"} => measuring = Null
  /\ pc \in Looking \cup Saving \cup {"server", "popen", "remember", "ping"} => tests = <<>>
  /\ pc \in {"start", "wait"} => Target.label # Default

ServerInv ==
  /\ server \in {"none", "up"}
  /\ server = "up" => \/ handler /\ (handle \/ pc = "remember")
                      \/ pc = "interrupted" /\ at[1] = "remember"
  /\ pc \in {"done", "aborted"} => server = "none"
  /\ pc = "interrupted" /\ server = "up" => at[1] = "remember"
  /\ pc = "popen" => handler
  /\ ~Suite => server = "none" /\ ~handler

\* A scheduler whose process the session is about to stop, unless a signal comes first.
InHand(s) ==
  \/ pc = "wait" /\ s = Target.label
  \/ pc \in Serving /\ held = s
  \/ pc = "interrupted"

SuiteProcs ==
  /\ ~Tester => \A s \in Mine : ~Alive(s)
  /\ ~stuck => \A s \in Mine : Alive(s) => InHand(s)
  /\ pc = "done" => \A s \in Mine : ~Alive(s)
  /\ pc = "interrupted" => handler \/ at[2] = "TERM" \/ \A s \in Mine : ~Alive(s)

\* The results that are known before the first save.
Early(n) == {c \in Configs : records[c] # Null} \subseteq {Order[k] : k \in 1 .. n}
Unsaved == {c \in Configs : records[c] # file[c]}

AllInv ==
  /\ pc \notin Saving \cup Ended =>
       \/ file = records /\ i > 2
       \/ file = Null /\ Early(1) /\ (i <= 2 \/ pc = "finish")
  /\ pc = "save" =>
       \/ file = Null /\ Early(2)
       \/ file \notin {Null, Cut} /\ Unsaved \subseteq {Order[i - 1]}
  /\ pc = "write" => file = Cut
  /\ pc \in Saving => i > 2
  /\ pc \in Ended =>
       \/ file = Cut /\ pc = "interrupted" /\ at[1] = "write"
       \/ file = Null /\ Early(2)
       \/ /\ file \notin {Null, Cut} /\ Unsaved \subseteq {Order[i - 1]}
          /\ pc = "done" => file = records

\* The runs 1 to n that this session has neither made nor left out.
Skipped(side, n) ==
  {k \in 1 .. n : <<side, k>> \notin ran /\ ~(side = "custom" /\ PerRun /\ k \in left)}

\* A run that was made has replaced the file of an earlier session.
NoneOld ==
  /\ ran \subseteq {"cfs", "custom"} \X (1 .. NumRuns)
  /\ \A r \in ran : files[r[1]][r[2]] # "old"

CompareWhere ==
  /\ pc \in {"test", "start", "wait", "run", "unload", "trap"} \cup Ended
  /\ i \in 1 .. NumRuns
  /\ measuring = Null /\ records = [c \in Configs |-> Null]
  /\ deaf \subseteq {Other}
  /\ pc = "trap" => ~PerRun

CompareProcs ==
  \A s \in Mine : Alive(s) =>
    s = Own /\ (pc \in {"wait", "run", "unload", "trap"} \/ (pc = "interrupted" /\ PerRun))

CompareFiles ==
  /\ DOMAIN files = {"cfs", "custom"} /\ \A side \in DOMAIN files : DOMAIN files[side] = 1 .. MaxRuns
  /\ NoneOld
  /\ pc = "test" => Skipped("cfs", i - 1) = {}
  /\ pc \in {"start", "wait", "run", "unload", "done"} => Skipped("cfs", NumRuns) = {}
  /\ pc \in {"start", "wait"} => IF PerRun THEN Skipped("custom", i - 1) = {} ELSE i = 1
  /\ pc = "run" => Skipped("custom", i - 1) = {}
  /\ pc = "unload" => Skipped("custom", IF PerRun THEN i ELSE NumRuns) = {}
  /\ pc = "done" => Skipped("custom", NumRuns) = {}

CompareInv == CompareWhere /\ CompareProcs /\ CompareFiles

BenchInv ==
  /\ BenchTypes
  /\ AB => ABInv
  /\ driver = "rocksdb_benchmark" => ArchiveInv
  /\ Suite => SuiteInv /\ SuiteProcs
  /\ ServerInv
  /\ mode = "all" /\ ~failed => AllInv
  /\ Compare => CompareInv

-------------------------------------------------------------------------------
(***************************************************************************)
(* What the assumptions say of configurations and of their orders.         *)
(***************************************************************************)
LEMMA Constants ==
  /\ Schedulers \in Seq(Labels \ {Other}) /\ Len(Schedulers) \in Nat /\ Len(Schedulers) > 0
  /\ \A k \in 1 .. Len(Schedulers) : Schedulers[k] \in Labels \ {Other}
  /\ DOMAIN Schedulers = 1 .. Len(Schedulers)
  /\ Null \notin Labels /\ Null \notin Configs /\ Null \notin Statuses
  /\ Default \notin Labels /\ Default # Null /\ Null # Cut
  /\ \A l \in Labels \cup {Default} : Config(l, 1) \in Configs
  /\ \A l \in Labels \cup {Default} : \A k \in DOMAIN Sizes : Config(l, Sizes[k]) \in Configs
<1>1. /\ Schedulers \in Seq(Labels \ {Other}) /\ Schedulers # <<>>
      /\ 1 \in {Sizes[k] : k \in DOMAIN Sizes}
      /\ Default \notin Labels /\ Null # Cut
      /\ Null \notin Labels /\ Null \notin Configs /\ Null \notin Statuses /\ Default # Null
  BY HostAssumption DEF HostAssumption
<1>2. /\ Len(Schedulers) \in Nat /\ Len(Schedulers) > 0
      /\ DOMAIN Schedulers = 1 .. Len(Schedulers)
      /\ \A k \in 1 .. Len(Schedulers) : Schedulers[k] \in Labels \ {Other}
  BY <1>1, LenProperties, ElementOfSeq, EmptySeq
<1>3. \A l \in Labels \cup {Default}, n \in {Sizes[k] : k \in DOMAIN Sizes} :
        Config(l, n) \in Configs
  BY DEF Config, Configs
<1> QED
  BY <1>1, <1>2, <1>3

\* Putting two orders of different configurations one after the other.
LEMMA OneAfterTheOther ==
  ASSUME NEW a \in Seq(Configs), NEW b \in Seq(Configs),
         \A j, k \in DOMAIN a : a[j] = a[k] => j = k,
         \A j, k \in DOMAIN b : b[j] = b[k] => j = k,
         \A j \in DOMAIN a, k \in DOMAIN b : a[j] # b[k]
  PROVE  /\ a \o b \in Seq(Configs) /\ Len(a \o b) = Len(a) + Len(b)
         /\ \A k \in DOMAIN (a \o b) :
              (a \o b)[k] = IF k <= Len(a) THEN a[k] ELSE b[k - Len(a)]
         /\ \A j, k \in DOMAIN (a \o b) : (a \o b)[j] = (a \o b)[k] => j = k
<1>1. /\ a \o b \in Seq(Configs) /\ Len(a \o b) = Len(a) + Len(b)
      /\ \A k \in 1 .. Len(a) + Len(b) :
           (a \o b)[k] = IF k <= Len(a) THEN a[k] ELSE b[k - Len(a)]
  BY ConcatProperties
<1>2. /\ DOMAIN (a \o b) = 1 .. Len(a) + Len(b)
      /\ DOMAIN a = 1 .. Len(a) /\ DOMAIN b = 1 .. Len(b)
      /\ Len(a) \in Nat /\ Len(b) \in Nat
  BY <1>1, LenProperties
<1>3. ASSUME NEW j \in DOMAIN (a \o b), NEW k \in DOMAIN (a \o b), (a \o b)[j] = (a \o b)[k]
      PROVE  j = k
  <2>1. CASE j <= Len(a) /\ k <= Len(a)
    BY <1>1, <1>2, <1>3, <2>1
  <2>2. CASE j > Len(a) /\ k > Len(a)
    <3>1. j - Len(a) \in DOMAIN b /\ k - Len(a) \in DOMAIN b
      BY <1>2, <2>2
    <3>2. b[j - Len(a)] = b[k - Len(a)]
      BY <1>1, <1>2, <1>3, <2>2
    <3>3. j - Len(a) = k - Len(a)
      BY <3>1, <3>2
    <3> QED
      BY <1>2, <3>3
  <2>3. CASE j <= Len(a) /\ k > Len(a)
    BY <1>1, <1>2, <1>3, <2>3
  <2>4. CASE j > Len(a) /\ k <= Len(a)
    BY <1>1, <1>2, <1>3, <2>4
  <2> QED
    BY <1>2, <2>1, <2>2, <2>3, <2>4
<1> QED
  BY <1>1, <1>2, <1>3

LEMMA Baseline ==
  /\ <<Config(Default, 1)>> \in Seq(Configs) /\ Len(<<Config(Default, 1)>>) = 1
  /\ DOMAIN <<Config(Default, 1)>> = {1} /\ <<Config(Default, 1)>>[1] = Config(Default, 1)
BY Constants

LEMMA SequenceOf ==
  ASSUME NEW n \in Nat, NEW f \in [1 .. n -> Configs]
  PROVE  f \in Seq(Configs) /\ Len(f) = n
<1>1. f \in Seq(Configs)
  BY SeqDef
<1>2. DOMAIN f = 1 .. n /\ DOMAIN f = 1 .. Len(f) /\ Len(f) \in Nat
  BY <1>1, LenProperties
<1>3. n \in 1 .. Len(f) \/ n = 0
  BY <1>2
<1>4. Len(f) \in 1 .. n \/ Len(f) = 0
  BY <1>2
<1> QED
  BY <1>1, <1>2, <1>3, <1>4

EachScheduler == [k \in DOMAIN Schedulers |-> Config(Schedulers[k], 1)]

LEMMA EachSchedulerOnce ==
  /\ EachScheduler \in Seq(Configs) /\ Len(EachScheduler) = Len(Schedulers)
  /\ DOMAIN EachScheduler = 1 .. Len(Schedulers)
  /\ \A k \in DOMAIN EachScheduler :
       EachScheduler[k] = Config(Schedulers[k], 1) /\ EachScheduler[k].label \in Labels \ {Other}
  /\ \A j, k \in DOMAIN EachScheduler : EachScheduler[j] = EachScheduler[k] => j = k
<1>1. EachScheduler \in [1 .. Len(Schedulers) -> Configs]
  BY Constants DEF EachScheduler
<1>2. EachScheduler \in Seq(Configs) /\ Len(EachScheduler) = Len(Schedulers)
  BY <1>1, Constants, SequenceOf
<1>3. \A k \in DOMAIN EachScheduler :
        EachScheduler[k] = Config(Schedulers[k], 1) /\ EachScheduler[k].label \in Labels \ {Other}
  BY Constants DEF EachScheduler, Config
<1>4. \A j, k \in DOMAIN EachScheduler : EachScheduler[j] = EachScheduler[k] => j = k
  BY Constants, HostAssumption DEF EachScheduler, Config, HostAssumption
<1> QED
  BY <1>1, <1>2, <1>3, <1>4

LEMMA EachSizeOnce ==
  ASSUME NEW label \in Labels \cup {Default}
  PROVE  /\ OverSizes(label) \in Seq(Configs) /\ Len(OverSizes(label)) > 0
         /\ \A k \in DOMAIN OverSizes(label) : OverSizes(label)[k].label = label
         /\ \A j, k \in DOMAIN OverSizes(label) :
              OverSizes(label)[j] = OverSizes(label)[k] => j = k
<1>1. /\ Len(Sizes) \in Nat /\ DOMAIN Sizes = 1 .. Len(Sizes) /\ 1 .. Len(Sizes) # {}
  <2>1. Sizes \in Seq({Sizes[k] : k \in DOMAIN Sizes}) /\ 1 \in {Sizes[k] : k \in DOMAIN Sizes}
    BY HostAssumption DEF HostAssumption
  <2> QED
    BY <2>1, LenProperties
<1>2. OverSizes(label) \in [1 .. Len(Sizes) -> Configs]
  BY <1>1, Constants DEF OverSizes
<1>3. OverSizes(label) \in Seq(Configs) /\ Len(OverSizes(label)) = Len(Sizes)
  BY <1>1, <1>2, SequenceOf
<1>4. Len(Sizes) > 0
  BY <1>1
<1>5. \A k \in DOMAIN OverSizes(label) : OverSizes(label)[k].label = label
  BY DEF OverSizes, Config
<1>6. \A j, k \in DOMAIN OverSizes(label) : OverSizes(label)[j] = OverSizes(label)[k] => j = k
  BY HostAssumption DEF OverSizes, Config, HostAssumption
<1> QED
  BY <1>3, <1>4, <1>5, <1>6

\* An order in which configurations are tried: each once, and none is under the
\* scheduler of somebody else.
IsOrder(order) ==
  /\ order \in Seq(Configs) /\ Len(order) > 0
  /\ \A j, k \in DOMAIN order : order[j] = order[k] => j = k
  /\ \A k \in DOMAIN order : order[k].label # Default => order[k].label \in Labels \ {Other}

LEMMA BaselineFirst ==
  ASSUME NEW b \in Seq(Configs), \A j, k \in DOMAIN b : b[j] = b[k] => j = k, Len(b) > 0,
         \A k \in DOMAIN b : b[k].label \in Labels \ {Other}
  PROVE  LET order == <<Config(Default, 1)>> \o b
         IN  /\ IsOrder(order) /\ Len(order) > 1
             /\ order[1] = Config(Default, 1) /\ order[2] = b[1]
             /\ \A k \in DOMAIN order : k > 1 => order[k].label # Default
<1> DEFINE a == <<Config(Default, 1)>>
           order == a \o b
<1>1. /\ a \in Seq(Configs) /\ Len(a) = 1 /\ DOMAIN a = {1} /\ a[1] = Config(Default, 1)
      /\ a[1].label = Default /\ Default \notin Labels
  BY Constants DEF Config
<1>2. DOMAIN b = 1 .. Len(b) /\ Len(b) \in Nat
  BY LenProperties
<1> HIDE DEF a
<1>3. \A j \in DOMAIN a, k \in DOMAIN b : a[j] # b[k]
  BY <1>1
<1>4. /\ order \in Seq(Configs) /\ Len(order) = Len(a) + Len(b)
      /\ \A k \in DOMAIN order : order[k] = IF k <= Len(a) THEN a[k] ELSE b[k - Len(a)]
      /\ \A j, k \in DOMAIN order : order[j] = order[k] => j = k
  BY <1>1, <1>3, OneAfterTheOther
<1>5. DOMAIN order = 1 .. 1 + Len(b)
  BY <1>1, <1>4, LenProperties
<1> HIDE DEF order
<1>6. order[1] = Config(Default, 1) /\ order[2] = b[1]
  BY <1>1, <1>2, <1>4, <1>5
<1>7. \A k \in DOMAIN order : k > 1 => order[k].label \in Labels \ {Other}
  BY <1>1, <1>2, <1>4, <1>5
<1>8. \A k \in DOMAIN order : order[k].label # Default => order[k].label \in Labels \ {Other}
  BY <1>1, <1>5, <1>6, <1>7
<1>9. IsOrder(order) /\ Len(order) > 1
  BY <1>1, <1>2, <1>4, <1>8 DEF IsOrder
<1> QED
  BY <1>1, <1>6, <1>7, <1>9 DEF order, a

LEMMA ABOrderIs ==
  ASSUME AB
  PROVE  /\ IsOrder(ABOrder) /\ Len(ABOrder) > 1
         /\ ABOrder[1] = Config(Default, 1) /\ ABOrder[2] = Config(Schedulers[1], 1)
<1>1. CASE driver = "rocksdb_sched_bench"
  <2>1. ABOrder = <<Config(Default, 1)>> \o EachScheduler
    BY <1>1 DEF ABOrder, EachScheduler
  <2>2. EachScheduler[1] = Config(Schedulers[1], 1)
    BY Constants, EachSchedulerOnce
  <2> QED
    BY <2>1, <2>2, Constants, EachSchedulerOnce, BaselineFirst
<1>2. CASE driver = "db_sim_bench"
  <2> DEFINE b == <<Config(Schedulers[1], 1)>>
  <2>1. ABOrder = <<Config(Default, 1)>> \o b
    BY <1>2 DEF ABOrder
  <2>2. Schedulers[1] \in Labels \ {Other} /\ Config(Schedulers[1], 1) \in Configs
    BY Constants
  <2>3. /\ b \in Seq(Configs) /\ Len(b) = 1 /\ DOMAIN b = {1}
        /\ b[1] = Config(Schedulers[1], 1) /\ b[1].label \in Labels \ {Other}
    BY <2>2 DEF Config
  <2> HIDE DEF b
  <2> QED
    BY <2>1, <2>3, BaselineFirst
<1> QED
  BY <1>1, <1>2 DEF AB

LEMMA OrderIs ==
  ASSUME <<driver, mode>> \in Modes, Suite
  PROVE  /\ IsOrder(Order)
         /\ mode = "all" =>
              /\ Len(Order) > 1 /\ Order[1].label = Default
              /\ \A k \in DOMAIN Order : k > 1 => Order[k].label # Default
         /\ ~Tester => \A k \in DOMAIN Order : Order[k].label = Default
<1>1. /\ mode \in {"all", "single", "sweep", "suite", "quick", "explore"}
      /\ mode \in {"all", "single", "sweep"} => Tester
  BY DEF Modes, Suite, Redis, Memtier, Tester
<1>2. CASE mode = "all"
  <2>1. Order = <<Config(Default, 1)>> \o EachScheduler
    BY <1>2 DEF Order, Orders, EachScheduler
  <2>2. Config(Default, 1).label = Default
    BY DEF Config
  <2> QED
    BY <1>1, <1>2, <2>1, <2>2, Constants, EachSchedulerOnce, BaselineFirst
<1>3. CASE mode = "single"
  <2>1. Order = <<Config(Schedulers[1], 1)>>
    BY <1>3 DEF Order, Orders
  <2>2. Schedulers[1] \in Labels \ {Other} /\ Config(Schedulers[1], 1) \in Configs
    BY Constants
  <2> QED
    BY <1>1, <1>3, <2>1, <2>2 DEF IsOrder, Config
<1>4. CASE mode \in {"suite", "quick"}
  <2>1. Order = <<Config(Default, 1)>>
    BY <1>4 DEF Order, Orders
  <2> QED
    BY <1>1, <1>4, <2>1, Baseline DEF IsOrder, Config
<1>5. CASE mode = "explore"
  <2>1. Order = OverSizes(Default)
    BY <1>5 DEF Order, Orders
  <2> QED
    BY <1>1, <1>5, <2>1, EachSizeOnce DEF IsOrder
<1>6. CASE mode = "sweep"
  <2> DEFINE a == OverSizes(Default)
             b == OverSizes(Schedulers[1])
  <2>1. Order = a \o b
    BY <1>6 DEF Order, Orders
  <2>2. Schedulers[1] \in Labels \ {Other} /\ Schedulers[1] # Default
    BY Constants
  <2>3. /\ a \in Seq(Configs) /\ Len(a) > 0 /\ \A k \in DOMAIN a : a[k].label = Default
        /\ \A j, k \in DOMAIN a : a[j] = a[k] => j = k
    BY EachSizeOnce
  <2>4. /\ b \in Seq(Configs) /\ Len(b) > 0 /\ \A k \in DOMAIN b : b[k].label = Schedulers[1]
        /\ \A j, k \in DOMAIN b : b[j] = b[k] => j = k
    BY <2>2, EachSizeOnce
  <2> HIDE DEF a, b
  <2>5. \A j \in DOMAIN a, k \in DOMAIN b : a[j] # b[k]
    BY <2>2, <2>3, <2>4
  <2>6. /\ Order \in Seq(Configs) /\ Len(Order) = Len(a) + Len(b)
        /\ \A k \in DOMAIN Order : Order[k] = IF k <= Len(a) THEN a[k] ELSE b[k - Len(a)]
        /\ \A j, k \in DOMAIN Order : Order[j] = Order[k] => j = k
    BY <2>1, <2>3, <2>4, <2>5, OneAfterTheOther
  <2>7. /\ DOMAIN Order = 1 .. Len(a) + Len(b) /\ DOMAIN a = 1 .. Len(a) /\ DOMAIN b = 1 .. Len(b)
        /\ Len(a) \in Nat /\ Len(b) \in Nat
    BY <2>3, <2>4, <2>6, LenProperties
  <2>8. \A k \in DOMAIN Order : Order[k].label \in {Default, Schedulers[1]}
    BY <2>3, <2>4, <2>6, <2>7
  <2> QED
    BY <1>1, <1>6, <2>2, <2>3, <2>4, <2>6, <2>7, <2>8 DEF IsOrder
<1> QED
  BY <1>1, <1>2, <1>3, <1>4, <1>5, <1>6

-------------------------------------------------------------------------------
(***************************************************************************)
(* Which steps a program of each family takes.                             *)
(***************************************************************************)
SaveStep == OpenResults \/ WriteResults \/ Show
ABStep == Populate \/ StartScheduler \/ Poll \/ Run \/ StopScheduler \/ Store \/ (AB /\ SaveStep)
ArchiveStep == run_db_bench \/ ReturnTests \/ (Archive /\ SaveStep)

LEMMA Families ==
  ASSUME <<driver, mode>> \in Modes
  PROVE  /\ AB => ~Archive /\ ~Suite /\ ~Compare
         /\ Archive => ~Suite /\ ~Compare
         /\ Suite => ~Compare
         /\ AB \/ Archive \/ Suite \/ Compare
         /\ Redis => ~Memtier
         /\ Tester => Suite
         /\ mode = "all" => Tester
BY DEF Modes, AB, Archive, Suite, Redis, Memtier, Compare, Tester

LEMMA WhoSteps ==
  /\ ABStep => AB
  /\ ArchiveStep => Archive
  /\ RedisBenchStep => Suite
  /\ CompareStep => Compare
  /\ \A signal : /\ InterruptAB(signal) => AB \/ Archive
                 /\ InterruptServer(signal) => Suite
                 /\ InterruptCompare(signal) => Compare
  /\ SchedBenchStep <=> ABStep \/ ArchiveStep
<1>1. ABStep => AB
  BY DEF ABStep, Populate, StartScheduler, Poll, Run, StopScheduler, Store
<1>2. ArchiveStep => Archive
  BY DEF ArchiveStep, run_db_bench, ReturnTests
<1>3. RedisBenchStep => Suite
  BY DEF RedisBenchStep, run_redis_benchmark, run_memtier_benchmark, RedisBenchmark,
         MemtierBenchmark, Suite
<1>4. CompareStep => Compare
  BY DEF CompareStep, CfsRun, LoadScheduler, CheckState, CustomRun, Unload, Trap
<1>5. \A signal : /\ InterruptAB(signal) => AB \/ Archive
                  /\ InterruptServer(signal) => Suite
                  /\ InterruptCompare(signal) => Compare
  BY DEF InterruptAB, InterruptServer, InterruptCompare, Suite
<1>6. SaveStep => AB \/ Archive
  BY DEF SaveStep, OpenResults, WriteResults, Show
<1> QED
  BY <1>1, <1>2, <1>3, <1>4, <1>5, <1>6 DEF SchedBenchStep, ABStep, ArchiveStep, SaveStep

LEMMA FamilySteps ==
  ASSUME <<driver, mode>> \in Modes, [Next]_vars
  PROVE  \/ AB /\ ABStep /\ UNCHANGED <<serverVars, filesVars, historyVars>>
         \/ Archive /\ ArchiveStep /\ UNCHANGED <<serverVars, filesVars, historyVars>>
         \/ Suite /\ RedisBenchStep /\ Remembered /\ UNCHANGED filesVars
         \/ Compare /\ CompareStep /\ UNCHANGED <<serverVars, historyVars>>
         \/ \E signal \in {"INT", "TERM"} :
              \/ /\ AB \/ Archive
                 /\ InterruptAB(signal) /\ UNCHANGED <<serverVars, filesVars, historyVars>>
              \/ Suite /\ InterruptServer(signal) /\ UNCHANGED <<filesVars, historyVars>>
              \/ Compare /\ InterruptCompare(signal) /\ UNCHANGED <<serverVars, historyVars>>
         \/ Machine /\ UNCHANGED <<serverVars, filesVars, historyVars>>
         \/ Validate
         \/ UNCHANGED vars
BY WhoSteps DEF Next, Driver, Interrupt

-------------------------------------------------------------------------------
(***************************************************************************)
(* The A/B programs.                                                       *)
(***************************************************************************)
\* The file of a session can be told from one that is cut or of an earlier session.
LEMMA RecordsAreAFile ==
  ASSUME BenchTypes
  PROVE  records \notin {Null, Cut}
BY HostAssumption DEF HostAssumption, BenchTypes

LEMMA ABPlace ==
  ASSUME AB, ABWhere
  PROVE  /\ DOMAIN ABOrder = 1 .. Len(ABOrder) /\ Len(ABOrder) \in Nat /\ Len(ABOrder) > 1
         /\ \A k \in DOMAIN ABOrder : ABOrder[k] \in Configs
         /\ \A j, k \in DOMAIN ABOrder : ABOrder[j] = ABOrder[k] => j = k
         /\ pc \notin Ended \cup ABSaving =>
              /\ i \in DOMAIN ABOrder /\ This \in Configs /\ This # Null
              /\ file = Null /\ verdict = "none"
              /\ This.label # Default => This.label \in Labels \ {Other}
<1>1. IsOrder(ABOrder) /\ Len(ABOrder) > 1
  BY ABOrderIs
<1>2. /\ DOMAIN ABOrder = 1 .. Len(ABOrder) /\ Len(ABOrder) \in Nat
      /\ \A k \in DOMAIN ABOrder : ABOrder[k] \in Configs
  BY <1>1, LenProperties, ElementOfSeq DEF IsOrder
<1>3. pc \notin Ended \cup ABSaving => i \in DOMAIN ABOrder /\ file = Null /\ verdict = "none"
  BY <1>2 DEF ABWhere, ABSaving
<1> QED
  BY <1>1, <1>2, <1>3, Constants DEF IsOrder, This

\* A step that stays with the configuration and does not touch what is recorded.
LEMMA ABWithin ==
  ASSUME BenchTypes, ABInv, AB,
         UNCHANGED <<deaf, driver, mode, i, tests, records, file, verdict>>,
         pc \notin Ended \cup ABSaving,
         pc' \in {"start", "wait", "run", "stop", "store"}
  PROVE  ABWhere' /\ ABOrder' = ABOrder /\ This' = This /\ AB' /\ Mine' = Mine
<1>1. ABOrder' = ABOrder /\ AB'
  BY DEF ABOrder, AB
<1> QED
  BY <1>1 DEF ABInv, ABWhere, Upto, This, Mine, Ended, ABSaving

\* As long as nothing is saved.
LEMMA ABUnsaved ==
  ASSUME file' = Null, verdict' = "none", pc' # "done",
         driver' = "db_sim_bench" => result' # "empty" /\ \A c \in Configs : records'[c] # "empty"
  PROVE  ABSaved'
BY Constants DEF ABSaved

LEMMA PopulateKeeps ==
  ASSUME BenchTypes, ABInv, AB, Populate
  PROVE  BenchTypes' /\ ABInv'
<1>1. /\ pc = "test" /\ pc' \in {"start", "store", "aborted"}
      /\ pc' = "store" => driver = "rocksdb_sched_bench" /\ result' = "failed"
      /\ pc' # "store" => result' = result
      /\ UNCHANGED <<proc, deaf, driver, mode, i, held, measuring, tests, records, file, verdict, at>>
  BY DEF Populate, Here, Held
<1>2. BenchTypes'
  BY <1>1 DEF BenchTypes, Statuses
<1>3. ABOrder' = ABOrder /\ Mine' = Mine
  BY <1>1 DEF ABOrder, Mine
<1>4. ABWhere'
  BY <1>1, <1>3 DEF ABInv, ABWhere, Upto, Ended, ABSaving
<1>5. ABResult' /\ ABProcs'
  BY <1>1, <1>3 DEF ABInv, ABResult, ABProcs, Alive, Statuses
<1>6. ABSaved'
  BY <1>1, ABPlace, ABUnsaved DEF ABInv, ABSaved, Ended, ABSaving
<1> QED
  BY <1>2, <1>4, <1>5, <1>6 DEF ABInv

LEMMA StartKeeps ==
  ASSUME BenchTypes, ABInv, AB, StartScheduler
  PROVE  BenchTypes' /\ ABInv'
<1>1. /\ pc = "start"
      /\ UNCHANGED <<deaf, driver, mode, i, held, tests, records, file, verdict, at>>
      /\ \/ pc' = "run" /\ measuring' = This /\ UNCHANGED <<proc, result>>
         \/ pc' = "store" /\ result' = "failed" /\ UNCHANGED <<proc, measuring>>
         \/ /\ pc' = "wait" /\ This.label # Default
            /\ proc' = Spawned(This.label) /\ UNCHANGED <<measuring, result>>
  BY DEF StartScheduler, Here, Held, Stored
<1>2. /\ ABWhere /\ i \in DOMAIN ABOrder /\ This \in Configs /\ This # Null
      /\ This.label # Default => This.label \in Labels \ {Other}
  BY <1>1, ABPlace DEF ABInv, Ended, ABSaving
<1>3. ABWhere' /\ ABOrder' = ABOrder /\ This' = This /\ Mine' = Mine
  BY <1>1, ABWithin DEF Ended, ABSaving
<1>4. BenchTypes'
  BY <1>1, <1>2 DEF BenchTypes, Statuses, Spawned
<1>5. ABResult'
  BY <1>1, <1>2, <1>3 DEF ABInv, ABResult, Statuses
<1>6. ABProcs'
  BY <1>1, <1>2, <1>3 DEF ABInv, ABProcs, Alive, Spawned, BenchTypes, Mine
<1>7. ABSaved'
  BY <1>1, ABPlace, ABUnsaved DEF ABInv, ABSaved, Ended, ABSaving
<1> QED
  BY <1>3, <1>4, <1>5, <1>6, <1>7 DEF ABInv

LEMMA PollKeeps ==
  ASSUME BenchTypes, ABInv, AB, Poll
  PROVE  BenchTypes' /\ ABInv'
<1>1. /\ pc = "wait"
      /\ UNCHANGED <<proc, deaf, driver, mode, i, tests, records, file, verdict, at>>
      /\ \/ /\ pc' = "run" /\ Alive(This.label)
            /\ held' = This.label /\ measuring' = This /\ UNCHANGED result
         \/ /\ pc' = "store" /\ ~Alive(This.label)
            /\ result' = "failed" /\ UNCHANGED <<held, measuring>>
  BY DEF Poll, Here, Stored
<1>2. ABWhere /\ i \in DOMAIN ABOrder /\ This \in Configs /\ This # Null
  BY <1>1, ABPlace DEF ABInv, Ended, ABSaving
<1>3. ABWhere' /\ ABOrder' = ABOrder /\ This' = This /\ Mine' = Mine
  BY <1>1, ABWithin DEF Ended, ABSaving
<1>4. Alive(This.label) => This.label \in Labels
  BY <1>1, <1>2, ABPlace DEF ABInv, ABProcs, Alive, BenchTypes, Ended, ABSaving
<1>5. BenchTypes'
  BY <1>1, <1>2, <1>4 DEF BenchTypes, Statuses
<1>6. ABResult'
  BY <1>1, <1>2, <1>3 DEF ABInv, ABResult, Statuses
<1>7. ABProcs'
  BY <1>1, <1>2, <1>3 DEF ABInv, ABProcs, Alive
<1>8. ABSaved'
  BY <1>1, ABPlace, ABUnsaved DEF ABInv, ABSaved, Ended, ABSaving
<1> QED
  BY <1>3, <1>5, <1>6, <1>7, <1>8 DEF ABInv

LEMMA RunKeeps ==
  ASSUME BenchTypes, ABInv, AB, Run
  PROVE  BenchTypes' /\ ABInv'
<1>1. /\ pc = "run" /\ pc' = "stop"
      /\ result' \in Statuses /\ (driver = "db_sim_bench" => result' # "empty")
      /\ UNCHANGED <<proc, deaf, driver, mode, i, held, measuring, tests, records, file, verdict, at>>
  BY DEF Run, Here, Held, Stored, parse_db_bench_output, TestMetrics, Statuses
<1>2. ABWhere' /\ ABOrder' = ABOrder /\ This' = This /\ Mine' = Mine
  BY <1>1, ABWithin DEF Ended, ABSaving
<1>3. BenchTypes'
  BY <1>1 DEF BenchTypes
<1>4. ABResult' /\ ABProcs'
  BY <1>1, <1>2 DEF ABInv, ABResult, ABProcs, Alive
<1>5. ABSaved'
  BY <1>1, ABPlace, ABUnsaved DEF ABInv, ABSaved, Ended, ABSaving
<1> QED
  BY <1>2, <1>3, <1>4, <1>5 DEF ABInv

\* Stopping processes stops every one of them that listens, and starts none.
LEMMA KilledStops ==
  ASSUME BenchTypes, NEW S, proc' = Killed(S)
  PROVE  /\ proc' \in [Labels -> {"none", "loading", "attached", "ejected"}]
         /\ \A s \in Labels : proc'[s] # "none" => Alive(s) /\ (s \notin S \/ s \in deaf)
BY DEF BenchTypes, Killed, Alive

LEMMA StopKeeps ==
  ASSUME BenchTypes, ABInv, AB, StopScheduler
  PROVE  BenchTypes' /\ ABInv'
<1>1. /\ pc = "stop" /\ pc' = "store"
      /\ proc' = Killed({held} \ {Null}) /\ held' = Null
      /\ UNCHANGED <<deaf, driver, mode, i, measuring, tests, result, records, file, verdict, at>>
  BY DEF StopScheduler, Here, Measured, Stored
<1>2. ABWhere' /\ ABOrder' = ABOrder /\ This' = This /\ Mine' = Mine
  BY <1>1, ABWithin DEF Ended, ABSaving
<1>3. BenchTypes'
  BY <1>1, KilledStops DEF BenchTypes
<1>4. ABResult' /\ ABSaved'
  BY <1>1, <1>2, ABPlace, ABUnsaved DEF ABInv, ABResult, ABSaved, Ended, ABSaving
<1>5. ABProcs'
  <2>1. \A s \in Mine : Alive(s) => held = s
    BY <1>1 DEF ABInv, ABProcs
  <2>2. \A s \in Mine : s \in Labels /\ s \notin deaf /\ s # Null
    BY Constants DEF Mine
  <2>3. \A s \in Mine : proc'[s] = "none"
    BY <1>1, <2>1, <2>2, KilledStops
  <2> QED
    BY <1>1, <1>2, <2>3 DEF ABProcs, Alive
<1> QED
  BY <1>2, <1>3, <1>4, <1>5 DEF ABInv

LEMMA StoreKeeps ==
  ASSUME BenchTypes, ABInv, AB, Store
  PROVE  BenchTypes' /\ ABInv'
<1>1. /\ pc = "store" /\ pc' = IF i < Len(ABOrder) THEN "test" ELSE "save"
      /\ records' = [records EXCEPT ![This] = result] /\ i' = i + 1
      /\ measuring' = Null /\ result' = Null
      /\ UNCHANGED <<proc, deaf, driver, mode, held, tests, file, verdict, at>>
  BY DEF Store, Here
<1>2. /\ DOMAIN ABOrder = 1 .. Len(ABOrder) /\ Len(ABOrder) \in Nat
      /\ \A k \in DOMAIN ABOrder : ABOrder[k] \in Configs
      /\ \A j, k \in DOMAIN ABOrder : ABOrder[j] = ABOrder[k] => j = k
      /\ i \in DOMAIN ABOrder /\ This \in Configs /\ file = Null /\ verdict = "none"
  BY <1>1, ABPlace DEF ABInv, Ended, ABSaving
<1>3. result \in Statuses /\ result # Null
  BY <1>1, Constants DEF ABInv, ABResult
<1>4. ABOrder' = ABOrder /\ Mine' = Mine
  BY <1>1 DEF ABOrder, Mine
<1>5. BenchTypes'
  BY <1>1, <1>2, <1>3 DEF BenchTypes
<1>6. Upto(i, ABOrder)'
  <2>1. Upto(i, ABOrder)
    BY <1>1 DEF ABInv, ABWhere, Ended
  <2>2. ASSUME NEW j \in DOMAIN ABOrder
        PROVE  j >= i + 1 <=> records'[ABOrder[j]] = Null
    <3>1. CASE j = i
      <4>1. records'[ABOrder[j]] = result
        BY <1>1, <1>2, <3>1 DEF This, BenchTypes
      <4> QED
        BY <1>2, <1>3, <3>1, <4>1
    <3>2. CASE j # i
      <4>1. records'[ABOrder[j]] = records[ABOrder[j]]
        BY <1>1, <1>2, <3>2 DEF This, BenchTypes
      <4> QED
        BY <1>2, <2>1, <3>2, <4>1 DEF Upto
    <3> QED
      BY <3>1, <3>2
  <2> QED
    BY <1>1, <1>4, <2>2 DEF Upto
<1>7. ABWhere'
  BY <1>1, <1>2, <1>4, <1>6 DEF ABInv, ABWhere, Ended, ABSaving
<1>8. ABResult'
  BY <1>1 DEF ABResult
<1>9. ABSaved'
  <2>1. driver = "db_sim_bench" => /\ result' # "empty"
                                   /\ \A c \in Configs : records'[c] # "empty"
    BY <1>1, <1>2, Constants DEF ABInv, ABSaved, BenchTypes, Statuses
  <2> QED
    BY <1>1, <1>2, <2>1, ABUnsaved
<1>10. ABProcs'
  BY <1>1, <1>4 DEF ABInv, ABProcs, Alive
<1> QED
  BY <1>5, <1>7, <1>8, <1>9, <1>10 DEF ABInv

LEMMA SaveKeeps ==
  ASSUME BenchTypes, ABInv, AB, SaveStep
  PROVE  BenchTypes' /\ ABInv'
<1>1. /\ UNCHANGED <<proc, deaf, driver, mode, i, held, measuring, tests, result, records, verdict, at>>
      /\ \/ pc = "save" /\ pc' = "write" /\ file' = Cut
         \/ pc = "save" /\ pc' = "aborted" /\ UNCHANGED file
         \/ pc = "write" /\ pc' = "chart" /\ file' = records
         \/ pc = "write" /\ pc' = "aborted" /\ UNCHANGED file
         \/ pc = "chart" /\ pc' \in {"done", "aborted"} /\ UNCHANGED file
  BY DEF SaveStep, OpenResults, WriteResults, Show, Here, Held, Measured, Stored
<1>2. ABOrder' = ABOrder /\ Mine' = Mine
  BY <1>1 DEF ABOrder, Mine
<1>3. /\ i = Len(ABOrder) + 1 /\ Upto(i, ABOrder) /\ verdict = "none"
      /\ file = IF pc = "write" THEN Cut ELSE IF pc = "chart" THEN records ELSE Null
  BY <1>1 DEF ABInv, ABWhere, Ended, ABSaving
<1>4. \A k \in DOMAIN ABOrder : records[ABOrder[k]] # Null
  BY <1>3, ABPlace DEF ABInv, Upto
<1>5. BenchTypes' /\ ABResult' /\ ABProcs'
  BY <1>1, <1>2 DEF ABInv, BenchTypes, ABResult, ABProcs, Alive
<1>6. ABWhere'
  BY <1>1, <1>2, <1>3 DEF ABInv, ABWhere, Upto, Ended, ABSaving
<1>7. ABSaved'
  BY <1>1, <1>2, <1>3, <1>4, RecordsAreAFile DEF ABInv, ABSaved, Ended
<1> QED
  BY <1>5, <1>6, <1>7 DEF ABInv

LEMMA InterruptABKeeps ==
  ASSUME BenchTypes, ABInv, AB, NEW signal \in {"INT", "TERM"}, InterruptAB(signal)
  PROVE  BenchTypes' /\ ABInv'
<1>1. /\ pc \notin Ended /\ pc' = "interrupted" /\ at' = <<pc, signal>> /\ measuring' = Null
      /\ \/ held # Null /\ proc' = Killed({held})
         \/ (signal = "TERM" \/ held = Null \/ pc = "stop") /\ UNCHANGED proc
      /\ UNCHANGED <<deaf, driver, mode, i, held, tests, result, records, file, verdict>>
  BY DEF InterruptAB, Held, Stored
<1>2. ABOrder' = ABOrder /\ Mine' = Mine
  BY <1>1 DEF ABOrder, Mine
<1>3. BenchTypes'
  BY <1>1, KilledStops DEF BenchTypes
<1>4. ABWhere' /\ ABResult'
  BY <1>1, <1>2 DEF ABInv, ABWhere, ABResult, Ended
<1>5. ABProcs'
  <2>1. ASSUME NEW s \in Mine, proc'[s] # "none"
        PROVE  at'[2] = "TERM" \/ at'[1] \in {"wait", "stop"}
    <3>1. s \in Labels /\ s \notin deaf /\ s # Null
      BY Constants DEF Mine
    <3>2. Alive(s) /\ (proc' = Killed({held}) => held # s)
      BY <1>1, <2>1, <3>1, KilledStops DEF Alive
    <3>3. pc = "wait" \/ (pc \in {"run", "stop"} /\ held = s)
      BY <1>1, <3>2 DEF ABInv, ABProcs, Ended
    <3>4. signal = "TERM" \/ pc \in {"wait", "stop"}
      BY <1>1, <3>1, <3>2, <3>3
    <3> QED
      BY <1>1, <3>4
  <2> QED
    BY <1>1, <1>2, <2>1 DEF ABProcs, Alive
<1>6. ABSaved'
  <2>1. verdict = "none" /\ (file = Cut => pc = "write")
    BY <1>1, Constants, RecordsAreAFile DEF ABInv, ABWhere
  <2> QED
    BY <1>1, <1>2, <2>1 DEF ABInv, ABSaved
<1> QED
  BY <1>3, <1>4, <1>5, <1>6 DEF ABInv

\* Nothing but a driver starts a process.
LEMMA MachineStops ==
  ASSUME BenchTypes, Machine
  PROVE  /\ pc \notin Ended
         /\ UNCHANGED <<deaf, driver, mode, pc, i, held, measuring, tests, result, records, file,
                        verdict, at>>
         /\ proc' \in [Labels -> {"none", "loading", "attached", "ejected"}]
         /\ \A s \in Labels : proc'[s] # "none" => Alive(s)
         /\ BenchTypes'
BY DEF BenchTypes, Machine, Attach, Eject, Exit, Attached, Alive

\* Stage 4 comes after the session.
LEMMA ValidateOnly ==
  ASSUME BenchTypes, Validate
  PROVE  /\ pc \in Ended
         /\ UNCHANGED <<proc, deaf, driver, mode, pc, i, held, measuring, tests, result, records, file,
                        at, serverVars, filesVars, historyVars>>
         /\ driver = "db_sim_bench" =>
              verdict' \in parse_db_sim(file, Config(Default, 1), Config(Schedulers[1], 1))
         /\ BenchTypes'
BY DEF BenchTypes, Validate, procVars

LEMMA ABMachineKeeps ==
  ASSUME BenchTypes, ABInv, AB, Machine
  PROVE  BenchTypes' /\ ABInv'
<1>1. /\ UNCHANGED <<deaf, driver, mode, pc, i, held, measuring, tests, result, records, file,
                      verdict, at>>
      /\ \A s \in Labels : proc'[s] # "none" => Alive(s)
      /\ BenchTypes'
  BY MachineStops
<1>2. ABOrder' = ABOrder /\ Mine' = Mine
  BY <1>1 DEF ABOrder, Mine
<1>3. ABWhere' /\ ABResult' /\ ABSaved'
  BY <1>1, <1>2 DEF ABInv, ABWhere, ABResult, ABSaved, Upto, This
<1>4. ABProcs'
  BY <1>1, <1>2 DEF ABInv, ABProcs, Alive, This, Mine
<1> QED
  BY <1>1, <1>3, <1>4 DEF ABInv

LEMMA ABValidateKeeps ==
  ASSUME BenchTypes, ABInv, AB, Validate
  PROVE  BenchTypes' /\ ABInv'
<1>1. /\ pc \in Ended
      /\ UNCHANGED <<proc, deaf, driver, mode, pc, i, held, measuring, tests, result, records, file, at>>
      /\ driver = "db_sim_bench" =>
           verdict' \in parse_db_sim(file, Config(Default, 1), Config(Schedulers[1], 1))
      /\ BenchTypes'
  BY ValidateOnly
<1>2. ABOrder' = ABOrder /\ Mine' = Mine /\ This' = This
  BY <1>1 DEF ABOrder, Mine, This
<1>3. ABWhere' /\ ABResult' /\ ABProcs'
  BY <1>1, <1>2 DEF ABInv, ABWhere, ABResult, ABProcs, Alive
<1>4. ABSaved'
  <2>1. ASSUME driver = "db_sim_bench", verdict' = "improvement"
        PROVE  IF file = Null THEN pc # "done"
               ELSE /\ file = records
                    /\ {records[Config(Default, 1)], records[Config(Schedulers[1], 1)]} = {"ok"}
    <3>0. SUFFICES ASSUME file # Null
                   PROVE  /\ file = records
                          /\ {records[Config(Default, 1)], records[Config(Schedulers[1], 1)]} = {"ok"}
      BY RecordsAreAFile DEF ABInv, ABSaved
    <3>1. /\ file = records /\ file # Null
          /\ "failed" \notin {file[Config(Default, 1)], file[Config(Schedulers[1], 1)]}
      BY <1>1, <2>1, <3>0 DEF parse_db_sim, ABInv, ABSaved
    <3>2. \A c \in {Config(Default, 1), Config(Schedulers[1], 1)} :
            c \in Configs /\ records[c] # Null /\ records[c] # "empty"
      <4>1. /\ DOMAIN ABOrder = 1 .. Len(ABOrder) /\ Len(ABOrder) \in Nat /\ Len(ABOrder) > 1
            /\ \A k \in DOMAIN ABOrder : ABOrder[k] \in Configs
            /\ ABOrder[1] = Config(Default, 1) /\ ABOrder[2] = Config(Schedulers[1], 1)
        BY ABPlace, ABOrderIs DEF ABInv
      <4>2. 1 \in DOMAIN ABOrder /\ 2 \in DOMAIN ABOrder
        BY <4>1
      <4> QED
        BY <2>1, <3>1, <4>1, <4>2 DEF ABInv, ABSaved
    <3>3. \A c \in {Config(Default, 1), Config(Schedulers[1], 1)} : records[c] \in Statuses \cup {Null}
      BY <3>2 DEF BenchTypes
    <3> QED
      BY <3>1, <3>2, <3>3 DEF Statuses
  <2> QED
    BY <1>1, <1>2, <2>1 DEF ABInv, ABSaved
<1> QED
  BY <1>1, <1>3, <1>4 DEF ABInv

LEMMA ABKeeps ==
  ASSUME BenchTypes, ABInv, AB, [Next]_vars
  PROVE  BenchTypes' /\ ABInv'
<1>1. CASE ABStep
  BY <1>1, PopulateKeeps, StartKeeps, PollKeeps, RunKeeps, StopKeeps, StoreKeeps, SaveKeeps
  DEF ABStep
<1>2. CASE \E signal \in {"INT", "TERM"} : InterruptAB(signal)
  BY <1>2, InterruptABKeeps
<1>3. CASE Machine
  BY <1>3, ABMachineKeeps
<1>4. CASE Validate
  BY <1>4, ABValidateKeeps
<1>5. CASE UNCHANGED vars
  <2>1. UNCHANGED <<proc, deaf, driver, mode, pc, i, held, measuring, tests, result, records, file,
                    verdict, at>>
    BY <1>5 DEF vars, hostVars
  <2>2. ABOrder' = ABOrder /\ Mine' = Mine /\ This' = This
    BY <2>1 DEF ABOrder, Mine, This
  <2>3. BenchTypes' /\ ABWhere' /\ ABResult' /\ ABProcs'
    BY <2>1, <2>2 DEF BenchTypes, ABInv, ABWhere, ABResult, ABProcs, Alive, Upto
  <2>4. ABSaved'
    BY <2>1, <2>2 DEF ABInv, ABSaved
  <2> QED
    BY <2>3, <2>4 DEF ABInv
<1> QED
  BY <1>1, <1>2, <1>3, <1>4, <1>5, FamilySteps, Families DEF BenchTypes

-------------------------------------------------------------------------------
(***************************************************************************)
(* The archived benchmark of RocksDB.                                      *)
(***************************************************************************)
LEMMA AppendOutput ==
  ASSUME BenchTypes, NEW out \in Outputs \cup {TimedOut}
  PROVE  Append(tests, out) \in Seq(Outputs \cup {TimedOut}) /\ Append(tests, out) # <<>>
BY AppendProperties DEF BenchTypes

LEMMA ArchiveKeeps ==
  ASSUME BenchTypes, ArchiveInv, Archive, [Next]_vars
  PROVE  BenchTypes' /\ ArchiveInv'
<1>1. CASE run_db_bench
  <2>1. /\ pc \in {"test", "tests"} /\ pc' = "tests" /\ measuring' = Config(Default, 1)
        /\ \E out \in Outputs : tests' = Append(tests, out)
        /\ UNCHANGED <<proc, deaf, driver, mode, i, held, result, records, file, verdict, at>>
    BY <1>1 DEF run_db_bench, Here, Held, Stored
  <2>2. BenchTypes'
    BY <2>1, AppendOutput, Constants DEF BenchTypes
  <2> QED
    BY <2>1, <2>2 DEF ArchiveInv, Mine, Alive
<1>2. CASE ReturnTests
  <2>1. /\ pc' = "save" /\ measuring' = Null
        /\ \E s \in Statuses : records' = [records EXCEPT ![Config(Default, 1)] = s]
        /\ UNCHANGED <<proc, deaf, driver, mode, i, held, tests, result, verdict, at>>
    BY <1>2 DEF ReturnTests, Here, Held, Statuses
  <2>2. BenchTypes'
    BY <2>1 DEF BenchTypes
  <2> QED
    BY <2>1, <2>2 DEF ArchiveInv, Mine, Alive, Ended, ABSaving
<1>3. CASE SaveStep
  <2>1. /\ pc \in ABSaving /\ pc' \in ABSaving \cup Ended
        /\ UNCHANGED <<proc, deaf, driver, mode, i, held, measuring, tests, result, records, at>>
    BY <1>3 DEF SaveStep, OpenResults, WriteResults, Show, Here, Held, Measured, Stored, ABSaving, Ended
  <2>2. BenchTypes'
    BY <2>1 DEF BenchTypes
  <2> QED
    BY <2>1, <2>2 DEF ArchiveInv, Mine, Alive, Ended, ABSaving
<1>4. ASSUME NEW signal, InterruptAB(signal)
      PROVE  BenchTypes' /\ ArchiveInv'
  <2>1. /\ pc' = "interrupted" /\ measuring' = Null
        /\ proc' = Killed({held}) \/ UNCHANGED proc
        /\ UNCHANGED <<deaf, driver, mode, i, held, tests, result, records>>
    BY <1>4 DEF InterruptAB, Held, Stored
  <2>2. /\ proc' \in [Labels -> {"none", "loading", "attached", "ejected"}]
        /\ \A s \in Labels : proc'[s] # "none" => Alive(s)
    BY <2>1, KilledStops DEF BenchTypes, Alive
  <2>3. BenchTypes'
    BY <2>1, <2>2 DEF BenchTypes
  <2> QED
    BY <2>1, <2>2, <2>3 DEF ArchiveInv, Mine, Alive, Ended
<1>5. CASE Machine
  <2>1. /\ UNCHANGED <<deaf, pc, measuring, records>> /\ BenchTypes'
        /\ \A s \in Labels : proc'[s] # "none" => Alive(s)
    BY <1>5, MachineStops
  <2> QED
    BY <2>1 DEF ArchiveInv, Mine, Alive
<1>6. CASE Validate \/ UNCHANGED vars
  <2>1. /\ UNCHANGED <<proc, deaf, pc, measuring, records>> /\ BenchTypes'
    BY <1>6, ValidateOnly DEF vars, hostVars, BenchTypes
  <2> QED
    BY <2>1 DEF ArchiveInv, Mine, Alive
<1> QED
  BY <1>1, <1>2, <1>3, <1>4, <1>5, <1>6, FamilySteps, Families DEF BenchTypes, ArchiveStep

-------------------------------------------------------------------------------
(***************************************************************************)
(* The comparison scripts.                                                 *)
(***************************************************************************)
LEMMA RunsCount == NumRuns \in Nat /\ MaxRuns \in Nat /\ 0 < NumRuns /\ NumRuns <= MaxRuns
BY CompareAssumption DEF CompareAssumption

\* A run writes its own file and no other.
LEMMA RunWrites ==
  ASSUME CompareWhere, CompareFiles, NEW side \in {"cfs", "custom"}, NEW kind, kind # "old",
         NEW n \in Nat, n = i, files' = [files EXCEPT ![side][n] = kind],
         ran' = ran \cup {<<side, n>>}, UNCHANGED <<left, driver>>
  PROVE  /\ DOMAIN files' = {"cfs", "custom"}
         /\ \A other \in DOMAIN files' : DOMAIN files'[other] = 1 .. MaxRuns
         /\ NoneOld'
         /\ Skipped(side, n - 1) = {} => Skipped(side, n)' = {}
         /\ \A other \in {"cfs", "custom"} \ {side} :
              \A m \in Nat : Skipped(other, m) = {} => Skipped(other, m)' = {}
<1>1. n \in 1 .. NumRuns /\ n \in 1 .. MaxRuns
  BY RunsCount DEF CompareWhere
<1>2. PerRun' = PerRun
  BY DEF PerRun
<1>3. /\ DOMAIN files' = {"cfs", "custom"}
      /\ \A other \in DOMAIN files' : DOMAIN files'[other] = 1 .. MaxRuns
      /\ files'[side][n] = kind
      /\ \A k \in 1 .. MaxRuns : k # n => files'[side][k] = files[side][k]
      /\ \A other \in {"cfs", "custom"} \ {side} : files'[other] = files[other]
  BY <1>1 DEF CompareFiles
<1>4. ASSUME Skipped(side, n - 1) = {}
      PROVE  Skipped(side, n)' = {}
  <2>1. \A k \in 1 .. n : k = n \/ k \in 1 .. n - 1
    BY <1>1
  <2>2. \A k \in 1 .. n - 1 : k \in 1 .. MaxRuns /\ k # n
    BY <1>1, RunsCount
  <2> QED
    BY <1>2, <1>4, <2>1, <2>2 DEF Skipped
<1>5. ASSUME NEW other \in {"cfs", "custom"} \ {side}, NEW m \in Nat, Skipped(other, m) = {}
      PROVE  Skipped(other, m)' = {}
  BY <1>2, <1>5 DEF Skipped
<1>6. NoneOld'
  <2>1. ran' \subseteq {"cfs", "custom"} \X (1 .. NumRuns)
    BY <1>1 DEF CompareFiles, NoneOld
  <2>2. ASSUME NEW r \in ran'
        PROVE  files'[r[1]][r[2]] # "old"
    <3>1. r = <<side, n>> \/ r \in ran
      BY <2>2
    <3>2. CASE r = <<side, n>>
      BY <1>3, <3>2
    <3>3. CASE r \in ran /\ ~(r[1] = side /\ r[2] = n)
      <4>1. r[1] \in {"cfs", "custom"} /\ r[2] \in 1 .. MaxRuns /\ files[r[1]][r[2]] # "old"
        BY <3>3, RunsCount DEF CompareFiles, NoneOld
      <4> QED
        BY <1>3, <3>3, <4>1
    <3>4. CASE r \in ran /\ r[1] = side /\ r[2] = n
      BY <1>3, <3>4
    <3> QED
      BY <3>1, <3>2, <3>3, <3>4
  <2> QED
    BY <2>1, <2>2 DEF NoneOld
<1> QED
  BY <1>3, <1>4, <1>5, <1>6

LEMMA CfsRunKeeps ==
  ASSUME BenchTypes, CompareInv, CfsRun
  PROVE  BenchTypes' /\ CompareInv'
<1>1. /\ pc = "test" /\ UNCHANGED <<proc, deaf, driver, mode, held, at, left>>
      /\ UNCHANGED <<measuring, tests, result, records, file, verdict>>
      /\ \/ /\ \E kind \in {"fresh", "bad"} : files' = [files EXCEPT !["cfs"][i] = kind]
            /\ ran' = ran \cup {<<"cfs", i>>}
            /\ \/ i < NumRuns /\ pc' = "test" /\ i' = i + 1
               \/ i >= NumRuns /\ pc' = "start" /\ i' = 1
               \/ ~PerRun /\ pc' = "trap" /\ i' = i
         \/ ~PerRun /\ pc' = "trap" /\ i' = i /\ UNCHANGED <<files, ran>>
  <2>1. i \in 1 .. NumRuns
    BY DEF CompareInv, CompareWhere
  <2> QED
    BY <2>1, RunsCount DEF CfsRun, RunInto, Writes, Step, Here, Measured, Stored, filesVars
<1>2. PerRun' = PerRun /\ Mine' = Mine
  BY <1>1 DEF PerRun, Mine
<1>3. CompareWhere'
  BY <1>1, <1>2, RunsCount DEF CompareInv, CompareWhere
<1>4. BenchTypes'
  BY <1>1, <1>3, RunsCount DEF BenchTypes, CompareWhere
<1>5. CompareProcs'
  BY <1>1, <1>2 DEF CompareInv, CompareProcs, Alive
<1>6. CompareFiles'
  <2>1. CASE pc' = "trap" /\ UNCHANGED <<files, ran>>
    BY <1>1, <1>2, <2>1 DEF CompareInv, CompareFiles, NoneOld
  <2>2. CASE /\ \E kind \in {"fresh", "bad"} : files' = [files EXCEPT !["cfs"][i] = kind]
             /\ ran' = ran \cup {<<"cfs", i>>}
    <3>1. PICK n \in Nat : n = i /\ n \in 1 .. NumRuns /\ Skipped("cfs", n - 1) = {}
      BY <1>1, RunsCount DEF CompareInv, CompareWhere, CompareFiles
    <3>2. /\ DOMAIN files' = {"cfs", "custom"}
          /\ \A side \in DOMAIN files' : DOMAIN files'[side] = 1 .. MaxRuns
          /\ Skipped("cfs", n)' = {} /\ NoneOld'
      BY <1>1, <2>2, <3>1, RunWrites DEF CompareInv
    <3>3. n >= NumRuns => Skipped("cfs", NumRuns)' = {}
      BY <3>1, <3>2, RunsCount DEF Skipped
    <3>4. Skipped("custom", 0)' = {}
      BY DEF Skipped
    <3>5. CASE pc' = "test"
      <4>1. i' - 1 = n
        BY <1>1, <3>1, <3>5
      <4> QED
        BY <3>2, <3>5, <4>1 DEF CompareFiles
    <3>6. CASE pc' = "start"
      <4>1. i' = 1 /\ n >= NumRuns
        BY <1>1, <3>1, <3>6
      <4> QED
        BY <3>2, <3>3, <3>4, <3>6, <4>1 DEF CompareFiles
    <3>7. CASE pc' = "trap"
      BY <3>2, <3>7 DEF CompareFiles
    <3> QED
      BY <1>1, <3>5, <3>6, <3>7
  <2> QED
    BY <1>1, <2>1, <2>2
<1> QED
  BY <1>3, <1>4, <1>5, <1>6 DEF CompareInv

LEMMA LoadKeeps ==
  ASSUME BenchTypes, CompareInv, LoadScheduler
  PROVE  BenchTypes' /\ CompareInv'
<1>1. /\ pc = "start" /\ pc' = "wait" /\ held' = Own
      /\ proc' = IF Alive(Own) THEN proc ELSE Spawned(Own)
      /\ UNCHANGED <<deaf, driver, mode, at, i, files, left, ran, measuring, tests, result, records, file,
                     verdict>>
  BY DEF LoadScheduler, Here, Measured, Stored, filesVars
<1>2. PerRun' = PerRun /\ Mine' = Mine
  BY <1>1 DEF PerRun, Mine
<1>3. CompareWhere'
  BY <1>1, <1>2 DEF CompareInv, CompareWhere
<1>4. Own \in Labels
  BY Constants DEF Own
<1>5. BenchTypes'
  BY <1>1, <1>4 DEF BenchTypes, Spawned
<1>6. CompareProcs'
  BY <1>1, <1>2, <1>4 DEF CompareInv, CompareProcs, Alive, Spawned, BenchTypes, Mine
<1>7. CompareFiles'
  BY <1>1, <1>2 DEF CompareInv, CompareFiles, Skipped, NoneOld
<1> QED
  BY <1>3, <1>5, <1>6, <1>7 DEF CompareInv

LEMMA CheckKeeps ==
  ASSUME BenchTypes, CompareInv, CheckState
  PROVE  BenchTypes' /\ CompareInv'
<1>0. PICK n \in Nat : n = i /\ n \in 1 .. NumRuns
  BY RunsCount DEF CompareInv, CompareWhere
<1>1. /\ pc = "wait"
      /\ UNCHANGED <<deaf, driver, mode, at, files, ran, measuring, tests, result, records, file, verdict>>
      /\ \/ pc' = "run" /\ UNCHANGED <<i, proc, held, left>>
         \/ /\ PerRun /\ left' = left \cup {n} /\ proc' = Killed({Own}) /\ held' = Null
            /\ \/ n < NumRuns /\ pc' = "start" /\ i' = n + 1
               \/ n >= NumRuns /\ pc' = "done" /\ i' = 1
         \/ ~PerRun /\ pc' = "trap" /\ UNCHANGED <<i, proc, held, left>>
  BY <1>0, RunsCount DEF CheckState, Step, Here, Measured, Stored
<1>2. PerRun' = PerRun /\ Mine' = Mine
  BY <1>1 DEF PerRun, Mine
<1>3. CompareWhere'
  BY <1>0, <1>1, <1>2, RunsCount DEF CompareInv, CompareWhere, Ended
<1>4. BenchTypes'
  <2>1. proc' \in [Labels -> {"none", "loading", "attached", "ejected"}]
    BY <1>1, KilledStops DEF BenchTypes
  <2> QED
    BY <1>0, <1>1, <2>1 DEF BenchTypes
<1>5. CompareProcs'
  <2>1. CASE UNCHANGED proc /\ pc' \in {"run", "trap"}
    BY <1>1, <1>2, <2>1 DEF CompareInv, CompareProcs, Alive
  <2>2. CASE proc' = Killed({Own})
    <3>1. \A s \in Mine : proc'[s] = "none"
      BY <1>1, <2>2, KilledStops DEF CompareInv, CompareProcs, Mine
    <3> QED
      BY <1>2, <3>1 DEF CompareProcs, Alive
  <2> QED
    BY <1>1, <2>1, <2>2
<1>6. CompareFiles'
  <2>1. CASE pc' \in {"run", "trap"}
    <3>1. UNCHANGED <<i, files, left, ran>>
      BY <1>1, <2>1
    <3>2. IF PerRun THEN Skipped("custom", i - 1) = {} ELSE i = 1
      BY <1>1 DEF CompareInv, CompareFiles
    <3>3. Skipped("custom", i - 1) = {}
      BY <3>2 DEF Skipped
    <3> QED
      BY <1>1, <1>2, <2>1, <3>1, <3>3 DEF CompareInv, CompareFiles, Skipped, NoneOld
  <2>2. CASE pc' \in {"start", "done"}
    <3>1. Skipped("custom", n - 1) = {} /\ Skipped("cfs", NumRuns) = {} /\ PerRun
      BY <1>0, <1>1, <2>2 DEF CompareInv, CompareFiles
    <3>2. Skipped("custom", n)' = {} /\ Skipped("cfs", NumRuns)' = {}
      <4>1. \A k \in 1 .. n : k = n \/ k \in 1 .. n - 1
        BY <1>0
      <4> QED
        BY <1>1, <1>2, <2>2, <3>1, <4>1 DEF Skipped
    <3>3. n >= NumRuns => n = NumRuns
      BY <1>0, RunsCount
    <3>4. pc' = "start" => i' - 1 = n
      BY <1>0, <1>1
    <3> QED
      BY <1>1, <1>2, <2>2, <3>1, <3>2, <3>3, <3>4 DEF CompareInv, CompareFiles, NoneOld
  <2> QED
    BY <1>1, <2>1, <2>2
<1> QED
  BY <1>3, <1>4, <1>5, <1>6 DEF CompareInv

LEMMA CustomRunKeeps ==
  ASSUME BenchTypes, CompareInv, CustomRun
  PROVE  BenchTypes' /\ CompareInv'
<1>0. PICK n \in Nat : n = i /\ n \in 1 .. NumRuns
  BY RunsCount DEF CompareInv, CompareWhere
<1>1. /\ pc = "run" /\ UNCHANGED <<proc, deaf, driver, mode, held, at, left>>
      /\ UNCHANGED <<measuring, tests, result, records, file, verdict>>
      /\ \E kind \in {"fresh", "stray", "bad"} : files' = [files EXCEPT !["custom"][n] = kind]
      /\ ran' = ran \cup {<<"custom", n>>}
      /\ \/ PerRun /\ pc' = "unload" /\ i' = n
         \/ ~PerRun /\ n < NumRuns /\ pc' = "run" /\ i' = n + 1
         \/ ~PerRun /\ n >= NumRuns /\ pc' = "unload" /\ i' = 1
         \/ ~PerRun /\ pc' = "trap" /\ i' = n
  BY <1>0, RunsCount DEF CustomRun, RunInto, Writes, Measurement, Step, Here, Measured, Stored
<1>2. PerRun' = PerRun /\ Mine' = Mine
  BY <1>1 DEF PerRun, Mine
<1>3. CompareWhere'
  BY <1>0, <1>1, <1>2, RunsCount DEF CompareInv, CompareWhere
<1>4. BenchTypes'
  BY <1>0, <1>1 DEF BenchTypes
<1>5. CompareProcs'
  BY <1>1, <1>2 DEF CompareInv, CompareProcs, Alive
<1>6. CompareFiles'
  <2>1. Skipped("custom", n - 1) = {} /\ Skipped("cfs", NumRuns) = {}
    BY <1>0, <1>1 DEF CompareInv, CompareFiles
  <2>2. /\ DOMAIN files' = {"cfs", "custom"}
        /\ \A side \in DOMAIN files' : DOMAIN files'[side] = 1 .. MaxRuns
        /\ Skipped("custom", n)' = {} /\ NoneOld'
        /\ Skipped("cfs", NumRuns)' = {}
    BY <1>0, <1>1, <2>1, RunWrites, RunsCount DEF CompareInv
  <2>3. n >= NumRuns => n = NumRuns
    BY <1>0, RunsCount
  <2>4. pc' = "run" => i' - 1 = n
    BY <1>0, <1>1
  <2> QED
    BY <1>1, <1>2, <2>2, <2>3, <2>4 DEF CompareFiles
<1> QED
  BY <1>3, <1>4, <1>5, <1>6 DEF CompareInv

LEMMA UnloadKeeps ==
  ASSUME BenchTypes, CompareInv, Unload \/ Trap
  PROVE  BenchTypes' /\ CompareInv'
<1>0. PICK n \in Nat : n = i /\ n \in 1 .. NumRuns
  BY RunsCount DEF CompareInv, CompareWhere
<1>1. /\ pc \in {"unload", "trap"} /\ proc' = Killed({Own}) /\ held' = Null
      /\ UNCHANGED <<deaf, driver, mode, at, files, left, ran, measuring, tests, result, records, file,
                     verdict>>
      /\ \/ pc = "unload" /\ PerRun /\ n < NumRuns /\ pc' = "start" /\ i' = n + 1
         \/ pc = "unload" /\ PerRun /\ n >= NumRuns /\ pc' = "done" /\ i' = 1
         \/ pc = "unload" /\ ~PerRun /\ pc' = "done" /\ i' = n
         \/ pc = "trap" /\ pc' = "aborted" /\ i' = n
  BY <1>0, RunsCount DEF Unload, Trap, Step, Here, Measured, Stored, filesVars
<1>2. PerRun' = PerRun /\ Mine' = Mine
  BY <1>1 DEF PerRun, Mine
<1>3. CompareWhere'
  BY <1>0, <1>1, <1>2, RunsCount DEF CompareInv, CompareWhere, Ended
<1>4. BenchTypes'
  <2>1. proc' \in [Labels -> {"none", "loading", "attached", "ejected"}]
    BY <1>1, KilledStops DEF BenchTypes
  <2>2. i' \in Nat \ {0}
    BY <1>0, <1>1
  <2>3. /\ UNCHANGED <<deaf, driver, mode, measuring, tests, result, records>> /\ held' = Null
    BY <1>1
  <2> QED
    BY <2>1, <2>2, <2>3 DEF BenchTypes
<1>5. CompareProcs'
  <2>1. \A s \in Mine : proc'[s] = "none"
    BY <1>1, KilledStops DEF CompareInv, CompareProcs, Mine
  <2> QED
    BY <1>2, <2>1 DEF CompareProcs, Alive
<1>6. CompareFiles'
  <2>1. \A m \in Nat : /\ Skipped("custom", m) = {} => Skipped("custom", m)' = {}
                       /\ Skipped("cfs", m) = {} => Skipped("cfs", m)' = {}
    BY <1>1, <1>2 DEF Skipped
  <2>2. pc = "unload" => Skipped("cfs", NumRuns)' = {}
    BY <1>1, <2>1, RunsCount DEF CompareInv, CompareFiles
  <2>3. pc = "unload" => IF PerRun THEN Skipped("custom", n)' = {} ELSE Skipped("custom", NumRuns)' = {}
    BY <1>0, <1>1, <2>1, RunsCount DEF CompareInv, CompareFiles
  <2>4. n >= NumRuns => n = NumRuns
    BY <1>0, RunsCount
  <2>5. pc' = "start" => i' - 1 = n
    BY <1>0, <1>1
  <2> QED
    BY <1>1, <1>2, <2>2, <2>3, <2>4, <2>5 DEF CompareInv, CompareFiles, NoneOld
<1> QED
  BY <1>3, <1>4, <1>5, <1>6 DEF CompareInv

LEMMA InterruptCompareKeeps ==
  ASSUME BenchTypes, CompareInv, NEW signal \in {"INT", "TERM"}, InterruptCompare(signal)
  PROVE  BenchTypes' /\ CompareInv'
<1>1. /\ pc \notin Ended /\ pc' = "interrupted" /\ at' = <<pc, signal>>
      /\ proc' = IF PerRun THEN proc ELSE Killed({Own})
      /\ \/ UNCHANGED <<files, ran>>
         \/ \E side \in {"cfs", "custom"} :
              /\ \E kind \in {"fresh", "stray", "bad"} : files' = [files EXCEPT ![side][i] = kind]
              /\ ran' = ran \cup {<<side, i>>}
      /\ UNCHANGED <<deaf, driver, mode, i, held, left, measuring, tests, result, records, file, verdict>>
  BY DEF InterruptCompare, Writes, Measurement, Held, Measured, Stored
<1>2. PerRun' = PerRun /\ Mine' = Mine
  BY <1>1 DEF PerRun, Mine
<1>3. CompareWhere'
  BY <1>1, <1>2 DEF CompareInv, CompareWhere, Ended
<1>4. BenchTypes'
  <2>1. proc' \in [Labels -> {"none", "loading", "attached", "ejected"}]
    BY <1>1, KilledStops DEF BenchTypes
  <2> QED
    BY <1>1, <2>1 DEF BenchTypes
<1>5. CompareProcs'
  <2>1. CASE PerRun
    BY <1>1, <1>2, <2>1 DEF CompareInv, CompareProcs, Alive, Ended
  <2>2. CASE ~PerRun
    <3>1. \A s \in Mine : proc'[s] = "none"
      BY <1>1, <2>2, KilledStops DEF CompareInv, CompareProcs, Mine
    <3> QED
      BY <1>2, <3>1 DEF CompareProcs, Alive
  <2> QED
    BY <2>1, <2>2
<1>6. CompareFiles'
  <2>1. CASE UNCHANGED <<files, ran>>
    BY <1>1, <1>2, <2>1 DEF CompareInv, CompareFiles, NoneOld
  <2>2. ASSUME NEW side \in {"cfs", "custom"}, NEW kind \in {"fresh", "stray", "bad"},
               files' = [files EXCEPT ![side][i] = kind], ran' = ran \cup {<<side, i>>}
        PROVE  CompareFiles'
    <3>1. PICK n \in Nat : n = i
      BY RunsCount DEF CompareInv, CompareWhere
    <3>2. /\ DOMAIN files' = {"cfs", "custom"}
          /\ \A other \in DOMAIN files' : DOMAIN files'[other] = 1 .. MaxRuns
          /\ NoneOld'
      BY <1>1, <2>2, <3>1, RunWrites DEF CompareInv
    <3> QED
      BY <1>1, <3>2 DEF CompareFiles
  <2> QED
    BY <1>1, <2>1, <2>2
<1> QED
  BY <1>3, <1>4, <1>5, <1>6 DEF CompareInv

LEMMA CompareKeeps ==
  ASSUME BenchTypes, CompareInv, Compare, [Next]_vars
  PROVE  BenchTypes' /\ CompareInv'
<1>1. CASE CompareStep
  BY <1>1, CfsRunKeeps, LoadKeeps, CheckKeeps, CustomRunKeeps, UnloadKeeps DEF CompareStep
<1>2. CASE \E signal \in {"INT", "TERM"} : InterruptCompare(signal)
  BY <1>2, InterruptCompareKeeps
<1>3. CASE Machine /\ UNCHANGED <<serverVars, filesVars, historyVars>>
  <2>1. /\ UNCHANGED <<deaf, driver, pc, i, measuring, records, files, left, ran>> /\ BenchTypes'
        /\ \A s \in Labels : proc'[s] # "none" => Alive(s)
    BY <1>3, MachineStops DEF filesVars
  <2>2. PerRun' = PerRun /\ Mine' = Mine
    BY <2>1 DEF PerRun, Mine
  <2>3. CompareProcs'
    BY <2>1, <2>2 DEF CompareInv, CompareProcs, Alive, Mine
  <2> QED
    BY <2>1, <2>2, <2>3 DEF CompareInv, CompareWhere, CompareFiles, Skipped, NoneOld
<1>4. CASE Validate \/ UNCHANGED vars
  <2>1. /\ UNCHANGED <<proc, deaf, driver, pc, i, measuring, records, files, left, ran, at>>
        /\ BenchTypes'
    BY <1>4, ValidateOnly DEF vars, hostVars, filesVars, BenchTypes
  <2>2. PerRun' = PerRun /\ Mine' = Mine
    BY <2>1 DEF PerRun, Mine
  <2> QED
    BY <2>1, <2>2 DEF CompareInv, CompareWhere, CompareProcs, Alive, CompareFiles, Skipped,
                        NoneOld
<1> QED
  BY <1>1, <1>2, <1>3, <1>4, FamilySteps, Families DEF BenchTypes

-------------------------------------------------------------------------------
(***************************************************************************)
(* The archived Redis drivers.                                             *)
(***************************************************************************)
LEMMA SameProgram ==
  ASSUME UNCHANGED <<driver, mode>>
  PROVE  /\ Order' = Order /\ (Suite' <=> Suite) /\ (Tester' <=> Tester)
         /\ (Redis' <=> Redis) /\ (Memtier' <=> Memtier)
BY DEF Order, Suite, Tester, Redis, Memtier

LEMMA SuitePlace ==
  ASSUME BenchTypes, Suite, SuiteInv
  PROVE  /\ DOMAIN Order = 1 .. Len(Order) /\ Len(Order) \in Nat /\ Len(Order) > 0
         /\ \A k \in DOMAIN Order : Order[k] \in Configs
         /\ \A j, k \in DOMAIN Order : Order[j] = Order[k] => j = k
         /\ pc \in Looking \cup Serving \cup {"record"} =>
              /\ i \in DOMAIN Order /\ Target \in Configs /\ Target # Null
              /\ Target.label # Default => Target.label \in Labels \ {Other} /\ Tester
<1>1. IsOrder(Order) /\ (~Tester => \A k \in DOMAIN Order : Order[k].label = Default)
  BY OrderIs DEF BenchTypes
<1>2. /\ DOMAIN Order = 1 .. Len(Order) /\ Len(Order) \in Nat
      /\ \A k \in DOMAIN Order : Order[k] \in Configs
  BY <1>1, LenProperties, ElementOfSeq DEF IsOrder
<1>3. pc \in Looking \cup Serving \cup {"record"} => i \in DOMAIN Order
  BY <1>2 DEF SuiteInv, BenchTypes
<1> QED
  BY <1>1, <1>2, <1>3, Constants DEF IsOrder, Target

\* A step within one configuration.
LEMMA SuiteWithin ==
  ASSUME BenchTypes, Suite, SuiteInv, UNCHANGED <<driver, mode, i, records>>,
         pc \in Looking \cup Serving, pc' \in Looking \cup Serving \cup {"record"},
         pc' \in Serving => measuring' = Target,
         pc' = "record" => measuring' = Target \/ (measuring' = Null /\ tests' = <<>>),
         pc' \in Looking => measuring' = Null,
         pc' \in Looking \cup {"server", "popen", "remember", "ping"} => tests' = <<>>,
         pc' \in {"start", "wait"} => Target.label # Default
  PROVE  SuiteInv' /\ Target' = Target
<1>1. Order' = Order
  BY SameProgram
<1>2. Target' = Target
  BY <1>1 DEF Target
<1> QED
  BY <1>1, <1>2 DEF SuiteInv, Looking, Serving, Saving, Sweeping

\* A step that leaves the processes alone, or only stops some.
LEMMA NoneStarted ==
  ASSUME BenchTypes, Suite, SuiteProcs, Remembered, UNCHANGED <<deaf, driver, mode>>,
         pc' \notin {"done", "interrupted"}, \A s \in Labels : proc'[s] # "none" => Alive(s),
         \A s \in Mine : InHand(s) /\ proc'[s] # "none" /\ ~stuck' => InHand(s)'
  PROVE  SuiteProcs'
<1>1. (Tester' <=> Tester) /\ Mine' = Mine /\ (stuck => stuck')
  BY SameProgram DEF Mine, Remembered
<1> QED
  BY <1>1 DEF SuiteProcs, Alive, Mine

LEMMA StopAllKeeps ==
  ASSUME BenchTypes, Suite, SuiteInv, SuiteProcs, ServerInv, Remembered, StopAllSchedulers
  PROVE  BenchTypes' /\ SuiteInv' /\ SuiteProcs' /\ ServerInv'
<1>1. /\ pc = "test"
      /\ UNCHANGED <<deaf, driver, mode, at, serverVars, tests, result, held, i, records, file, verdict>>
      /\ \/ /\ pc' = "start" /\ Target.label # Default
            /\ proc' = Killed(Labels) /\ UNCHANGED measuring
         \/ pc' = "server" /\ measuring' = Target /\ UNCHANGED proc
  BY DEF StopAllSchedulers, Here, Held, Stored, kill_scheduler_processes
<1>2. Target \in Configs
  BY <1>1, SuitePlace DEF Looking
<1>3. /\ proc' \in [Labels -> {"none", "loading", "attached", "ejected"}]
      /\ \A s \in Labels : proc'[s] # "none" => Alive(s)
  BY <1>1, KilledStops DEF BenchTypes, Alive
<1>4. BenchTypes'
  BY <1>1, <1>2, <1>3 DEF BenchTypes
<1>5. SuiteInv'
  BY <1>1, SuiteWithin DEF SuiteInv, Looking, Serving
<1>6. SuiteProcs'
  BY <1>1, <1>3, NoneStarted DEF InHand, Serving
<1>7. ServerInv'
  BY <1>1, SameProgram DEF ServerInv, serverVars
<1> QED
  BY <1>4, <1>5, <1>6, <1>7

LEMMA RunnerStartKeeps ==
  ASSUME BenchTypes, Suite, SuiteInv, SuiteProcs, ServerInv, Remembered, RunnerStart
  PROVE  BenchTypes' /\ SuiteInv' /\ SuiteProcs' /\ ServerInv'
<1>1. /\ pc = "start"
      /\ UNCHANGED <<deaf, driver, mode, at, serverVars, measuring, tests, result, held, i, records,
                     file, verdict>>
      /\ \/ pc' = "record" /\ UNCHANGED proc
         \/ pc' = "wait" /\ proc' = IF Alive(Target.label) THEN proc ELSE Spawned(Target.label)
  BY DEF RunnerStart, Here, Held, Measured, Stored
<1>2. Target.label \in Labels /\ Target.label # Default /\ Tester
  BY <1>1, SuitePlace DEF Looking, SuiteInv
<1>3. BenchTypes'
  BY <1>1, <1>2 DEF BenchTypes, Spawned
<1>4. SuiteInv'
  BY <1>1, <1>2, SuiteWithin DEF SuiteInv, Looking, Serving
<1>5. SuiteProcs'
  <2>1. Mine' = Mine /\ Target' = Target /\ (Tester' <=> Tester) /\ (stuck => stuck')
    BY <1>1, SameProgram DEF Mine, Target, Remembered
  <2>2. ASSUME ~stuck, NEW s \in Mine, proc'[s] # "none"
        PROVE  pc' = "wait" /\ s = Target.label
    <3>1. ~Alive(s)
      BY <1>1, <2>2 DEF SuiteProcs, InHand, Serving
    <3> QED
      BY <1>1, <1>2, <2>2, <3>1 DEF Alive, Spawned, BenchTypes, Mine
  <2> QED
    BY <1>1, <1>2, <2>1, <2>2 DEF SuiteProcs, InHand, Alive
<1>6. ServerInv'
  BY <1>1, SameProgram DEF ServerInv, serverVars
<1> QED
  BY <1>3, <1>4, <1>5, <1>6

LEMMA RunnerPollKeeps ==
  ASSUME BenchTypes, Suite, SuiteInv, SuiteProcs, ServerInv, Remembered, RunnerPoll
  PROVE  BenchTypes' /\ SuiteInv' /\ SuiteProcs' /\ ServerInv'
<1>1. /\ pc = "wait"
      /\ UNCHANGED <<proc, deaf, driver, mode, at, serverVars, tests, result, i, records, file, verdict>>
      /\ \/ pc' = "server" /\ held' = Target.label /\ measuring' = Target
         \/ /\ pc' = "record" /\ UNCHANGED <<held, measuring>>
            /\ ~Alive(Target.label) \/ Target.label \in deaf
  BY DEF RunnerPoll, Here, Stored
<1>2. Target \in Configs /\ Target.label \in Labels
  BY <1>1, SuitePlace DEF Looking, SuiteInv
<1>3. BenchTypes'
  BY <1>1, <1>2 DEF BenchTypes
<1>4. SuiteInv'
  BY <1>1, SuiteWithin DEF SuiteInv, Looking, Serving
<1>5. SuiteProcs'
  BY <1>1, NoneStarted DEF Alive, InHand, Serving, Mine
<1>6. ServerInv'
  BY <1>1, SameProgram DEF ServerInv, serverVars
<1> QED
  BY <1>3, <1>4, <1>5, <1>6

LEMMA RunnerStopKeeps ==
  ASSUME BenchTypes, Suite, SuiteInv, SuiteProcs, ServerInv, Remembered, RunnerStop
  PROVE  BenchTypes' /\ SuiteInv' /\ SuiteProcs' /\ ServerInv'
<1>1. /\ pc = "unload" /\ pc' = "record" /\ held' = Null
      /\ UNCHANGED <<deaf, driver, mode, at, serverVars, measuring, tests, result, i, records, file,
                     verdict>>
      /\ \E S \in {{}, {held}} : proc' = Killed(S \ {Null})
  BY DEF RunnerStop, Here, Measured, Stored
<1>2. /\ proc' \in [Labels -> {"none", "loading", "attached", "ejected"}]
      /\ \A s \in Labels : proc'[s] # "none" => Alive(s)
  BY <1>1, KilledStops
<1>3. BenchTypes'
  BY <1>1, <1>2 DEF BenchTypes
<1>4. SuiteInv'
  BY <1>1, SuiteWithin DEF SuiteInv, Looking, Serving
<1>5. SuiteProcs'
  <2>1. ASSUME NEW s \in Mine, InHand(s), proc'[s] # "none"
        PROVE  stuck'
    <3>1. held = s /\ s # Null
      BY <1>1, <2>1, Constants DEF InHand, Serving, Mine
    <3> QED
      BY <1>1, <2>1, <3>1 DEF Remembered
  <2> QED
    BY <1>1, <1>2, <2>1, NoneStarted
<1>6. ServerInv'
  BY <1>1, SameProgram DEF ServerInv, serverVars
<1> QED
  BY <1>3, <1>4, <1>5, <1>6

\* The server and its tests: what start_redis, run_comprehensive_benchmark and cleanup do.
LEMMA SuiteStepKeeps ==
  ASSUME BenchTypes, Suite, SuiteInv, SuiteProcs, ServerInv, Remembered, SuiteStep
  PROVE  BenchTypes' /\ SuiteInv' /\ SuiteProcs' /\ ServerInv'
<1>1. /\ UNCHANGED <<proc, deaf, driver, mode, at, held, i, measuring, result, records, file, verdict>>
      /\ pc \in Serving
      /\ \/ pc' \in Serving \ {"server"} \/ (pc' = "record" /\ held = Null)
  BY DEF SuiteStep, Construct, Popen, Remember, Ping, run_benchmark, stop_redis, cleanup, Here, Held,
         Measured, Stored, Serving
<1>2. \/ /\ tests' = tests
         /\ pc' \in {"popen", "remember", "ping"} => pc \in {"server", "popen", "remember"}
      \/ pc' = "tests" /\ \E out \in Outputs \cup {TimedOut} : tests' = Append(tests, out)
  <2>1. CASE run_benchmark
    BY <2>1 DEF run_benchmark, Here
  <2>2. CASE Construct \/ Popen \/ Remember \/ Ping \/ stop_redis \/ cleanup
    BY <2>2 DEF Construct, Popen, Remember, Ping, stop_redis, cleanup, Here, Measured
  <2> QED
    BY <2>1, <2>2 DEF SuiteStep
<1>3. BenchTypes'
  BY <1>1, <1>2, AppendOutput DEF BenchTypes
<1>4. SuiteInv'
  BY <1>1, <1>2, SuiteWithin DEF SuiteInv, Looking, Serving
<1>5. SuiteProcs'
  BY <1>1, Constants, NoneStarted DEF Alive, Serving, InHand, Mine
<1>6. ServerInv'
  <2>1. (Suite' <=> Suite) /\ Suite
    BY <1>1, SameProgram
  <2>2. CASE Construct
    BY <2>1, <2>2 DEF Construct, Here, ServerInv
  <2>3. CASE Popen
    BY <2>1, <2>3 DEF Popen, Here, ServerInv
  <2>4. CASE Remember
    BY <2>1, <2>4 DEF Remember, Here, ServerInv
  <2>5. CASE Ping
    BY <2>1, <2>5 DEF Ping, Here, ServerInv
  <2>6. CASE run_benchmark
    BY <2>1, <2>6 DEF run_benchmark, serverVars, Here, ServerInv
  <2>7. CASE stop_redis
    BY <2>1, <2>7 DEF stop_redis, Here, ServerInv
  <2>8. CASE cleanup
    BY <2>1, <2>8 DEF cleanup, Here, ServerInv
  <2> QED
    BY <2>2, <2>3, <2>4, <2>5, <2>6, <2>7, <2>8 DEF SuiteStep
<1> QED
  BY <1>3, <1>4, <1>5, <1>6

LEMMA OutcomeIsStatus == Outcome \in Statuses
BY DEF Outcome, Statuses

LEMMA RecordKeeps ==
  ASSUME BenchTypes, Suite, SuiteInv, SuiteProcs, ServerInv, Remembered, RecordResult
  PROVE  BenchTypes' /\ SuiteInv' /\ SuiteProcs' /\ ServerInv'
<1>0. /\ DOMAIN Order = 1 .. Len(Order) /\ Len(Order) \in Nat /\ Len(Order) > 0
      /\ \A k \in DOMAIN Order : Order[k] \in Configs
      /\ \A j, k \in DOMAIN Order : Order[j] = Order[k] => j = k
      /\ i \in DOMAIN Order /\ Target \in Configs
  BY SuitePlace DEF RecordResult
<1>1. /\ pc = "record" /\ records' = [records EXCEPT ![Target] = Outcome]
      /\ measuring' = Null /\ tests' = <<>>
      /\ UNCHANGED <<proc, deaf, driver, mode, at, held, serverVars, result, file, verdict>>
      /\ \/ i' = i + 1 /\ pc' = "save"
         \/ i' = i + 1 /\ pc' = To(i')
         \/ i' = Len(Order) + 1 /\ pc' = "finish"
  BY DEF RecordResult, Here
<1>2. BenchTypes'
  <2>1. i' \in Nat \ {0}
    BY <1>0, <1>1
  <2>2. records' \in [Configs -> Statuses \cup {Null}]
    BY <1>0, <1>1, OutcomeIsStatus DEF BenchTypes
  <2>3. tests' \in Seq(Outputs \cup {TimedOut})
    BY <1>1
  <2> QED
    BY <1>1, <2>1, <2>2, <2>3 DEF BenchTypes
<1>3. SuiteInv'
  <2>1. Order' = Order
    BY <1>1, SameProgram
  <2>2. ASSUME i' = i + 1, NEW k \in DOMAIN Order, k >= i'
        PROVE  records'[Order[k]] = Null
    <3>1. k # i /\ k >= i
      BY <1>0, <2>2
    <3>2. Order[k] # Target /\ records[Order[k]] = Null
      BY <1>0, <1>1, <3>1 DEF Target, SuiteInv
    <3> QED
      BY <1>0, <1>1, <3>2 DEF BenchTypes
  <2>3. i' = i + 1 => i' > 1
    BY <1>0
  <2>4. pc' \in {"save", "test"} => i' = i + 1 /\ (pc' = "test" => i' <= Len(Order))
    BY <1>1 DEF To
  <2>5. pc' \in {"save", "test", "csv", "finish"} /\ (pc' = "csv" => mode = "sweep")
    BY <1>1 DEF To
  <2> QED
    BY <1>1, <2>1, <2>2, <2>3, <2>4, <2>5 DEF SuiteInv, Looking, Serving, Saving, Sweeping
<1>4. SuiteProcs'
  BY <1>1, NoneStarted DEF Alive, To, InHand, Serving
<1>5. ServerInv'
  BY <1>1, SameProgram DEF ServerInv, serverVars, To
<1> QED
  BY <1>2, <1>3, <1>4, <1>5

LEMMA SaveResultsKeep ==
  ASSUME BenchTypes, Suite, SuiteInv, SuiteProcs, ServerInv, Remembered, save_results
  PROVE  BenchTypes' /\ SuiteInv' /\ SuiteProcs' /\ ServerInv'
<1>1. /\ pc \in Saving
      /\ UNCHANGED <<proc, deaf, driver, mode, at, serverVars, held, i, measuring, tests, result, records,
                     verdict>>
      /\ pc' = "write" \/ pc' = To(i)
  BY DEF save_results, Here, Held, Measured, Saving
<1>2. BenchTypes'
  BY <1>1 DEF BenchTypes
<1>3. SuiteInv'
  <2>1. Order' = Order
    BY <1>1, SameProgram
  <2>2. /\ pc' \in {"write", "test", "csv", "finish"}
        /\ pc' = "test" => i <= Len(Order)
        /\ pc' = "csv" => mode = "sweep"
    BY <1>1 DEF To
  <2> QED
    BY <1>1, <2>1, <2>2 DEF SuiteInv, Looking, Serving, Saving, Sweeping
<1>4. SuiteProcs'
  BY <1>1, NoneStarted DEF Alive, To, InHand, Serving, Saving
<1>5. ServerInv'
  BY <1>1, SameProgram DEF ServerInv, serverVars, Saving, To
<1> QED
  BY <1>2, <1>3, <1>4, <1>5

LEMMA SweepKeeps ==
  ASSUME BenchTypes, Suite, SuiteInv, SuiteProcs, ServerInv, Remembered, SweepEnds
  PROVE  BenchTypes' /\ SuiteInv' /\ SuiteProcs' /\ ServerInv'
<1>1. /\ mode = "sweep" /\ pc \in {"test", "csv", "rows", "plot"}
      /\ UNCHANGED <<proc, deaf, driver, mode, at, handler, held, i, measuring, tests, result, records,
                     verdict>>
      /\ \/ pc' \in {"rows", "plot", "finish"} /\ UNCHANGED serverVars
         \/ pc' = "aborted" /\ server' = (IF handle THEN "none" ELSE server) /\ handle' = FALSE
  BY DEF SweepEnds, Abandon, serverVars, Here, Held, Measured
<1>2. BenchTypes'
  BY <1>1 DEF BenchTypes
<1>3. SuiteInv'
  BY <1>1, SameProgram DEF SuiteInv, Looking, Serving, Saving, Sweeping
<1>4. SuiteProcs'
  BY <1>1, NoneStarted DEF Alive, InHand, Serving
<1>5. ServerInv'
  BY <1>1, SameProgram DEF ServerInv, serverVars
<1> QED
  BY <1>2, <1>3, <1>4, <1>5

LEMMA FinishKeeps ==
  ASSUME BenchTypes, Suite, SuiteInv, SuiteProcs, ServerInv, Remembered, Finish
  PROVE  BenchTypes' /\ SuiteInv' /\ SuiteProcs' /\ ServerInv'
<1>1. /\ pc = "finish" /\ pc' = "done"
      /\ proc' = IF Tester THEN Killed(Labels) ELSE proc
      /\ server' = (IF Tester \/ handle THEN "none" ELSE server) /\ handle' = FALSE
      /\ UNCHANGED <<deaf, driver, mode, at, handler, held, i, measuring, tests, result, records, verdict>>
  BY DEF Finish, Here, Held, Measured, Stored
<1>2. BenchTypes'
  <2>1. proc' \in [Labels -> {"none", "loading", "attached", "ejected"}]
    BY <1>1, KilledStops DEF BenchTypes
  <2> QED
    BY <1>1, <2>1 DEF BenchTypes
<1>3. SuiteInv'
  BY <1>1, SameProgram DEF SuiteInv, Looking, Serving, Saving, Sweeping
<1>4. SuiteProcs'
  <2>1. \A s \in Mine : proc'[s] = "none"
    <3>1. CASE Tester
      BY <1>1, <3>1, KilledStops DEF Mine
    <3>2. CASE ~Tester
      BY <1>1, <3>2 DEF SuiteProcs, Alive
    <3> QED
      BY <3>1, <3>2
  <2>2. Mine' = Mine
    BY <1>1 DEF Mine
  <2> QED
    BY <1>1, <2>1, <2>2 DEF SuiteProcs, Alive
<1>5. ServerInv'
  BY <1>1, SameProgram DEF ServerInv
<1> QED
  BY <1>2, <1>3, <1>4, <1>5

LEMMA InterruptServerKeeps ==
  ASSUME BenchTypes, Suite, SuiteInv, SuiteProcs, ServerInv, NEW signal \in {"INT", "TERM"},
         InterruptServer(signal)
  PROVE  BenchTypes' /\ SuiteInv' /\ SuiteProcs' /\ ServerInv'
<1>1. /\ pc \notin Ended /\ pc' = "interrupted" /\ at' = <<pc, signal>> /\ measuring' = Null
      /\ UNCHANGED <<deaf, driver, mode, handler, held, i, tests, result, records, file, verdict>>
      /\ \/ /\ handler /\ UNCHANGED proc
            /\ server' = (IF handle THEN "none" ELSE server) /\ handle' = FALSE
         \/ /\ ~handler /\ UNCHANGED <<server, handle>>
            /\ proc' = IF Tester /\ signal = "INT" THEN Killed(Labels) ELSE proc
  BY DEF InterruptServer, _signal_handler, Unhandled, Held, Stored
<1>2. BenchTypes'
  <2>1. proc' \in [Labels -> {"none", "loading", "attached", "ejected"}]
    BY <1>1, KilledStops DEF BenchTypes
  <2> QED
    BY <1>1, <2>1 DEF BenchTypes
<1>3. SuiteInv'
  BY <1>1, SameProgram DEF SuiteInv, Looking, Serving, Saving, Sweeping
<1>4. SuiteProcs'
  <2>1. (Tester' <=> Tester) /\ Mine' = Mine
    BY <1>1, SameProgram DEF Mine
  <2>2. ~Tester => \A s \in Mine : proc'[s] = "none"
    BY <1>1 DEF SuiteProcs, Alive
  <2>3. handler \/ signal = "TERM" \/ \A s \in Mine : proc'[s] = "none"
    <3>1. CASE Tester /\ ~handler /\ signal = "INT"
      BY <1>1, <3>1, KilledStops DEF Mine
    <3> QED
      BY <2>2, <3>1
  <2> QED
    BY <1>1, <2>1, <2>2, <2>3 DEF SuiteProcs, Alive, InHand
<1>5. ServerInv'
  BY <1>1, SameProgram DEF ServerInv, Ended
<1> QED
  BY <1>2, <1>3, <1>4, <1>5

LEMMA SuiteRestKeeps ==
  ASSUME BenchTypes, Suite, SuiteInv, SuiteProcs, ServerInv,
         (Machine /\ UNCHANGED <<serverVars, historyVars>>) \/ Validate \/ UNCHANGED vars
  PROVE  BenchTypes' /\ SuiteInv' /\ SuiteProcs' /\ ServerInv'
<1>1. /\ UNCHANGED <<deaf, driver, mode, pc, i, held, measuring, tests, records, at, server, handle,
                     handler, stuck>>
      /\ \A s \in Labels : proc'[s] # "none" => Alive(s)
      /\ BenchTypes'
  <2>1. CASE Machine /\ UNCHANGED <<serverVars, historyVars>>
    BY <2>1, MachineStops DEF serverVars, historyVars
  <2>2. CASE Validate \/ UNCHANGED vars
    BY <2>2, ValidateOnly DEF vars, hostVars, serverVars, historyVars, BenchTypes, Alive
  <2> QED
    BY <2>1, <2>2
<1>2. Order' = Order /\ Target' = Target /\ (Tester' <=> Tester) /\ Mine' = Mine /\ (Suite' <=> Suite)
  BY <1>1, SameProgram DEF Target, Mine
<1>3. SuiteInv'
  BY <1>1, <1>2 DEF SuiteInv
<1>4. SuiteProcs'
  BY <1>1, <1>2 DEF SuiteProcs, InHand, Alive, Mine
<1>5. ServerInv'
  BY <1>1, <1>2 DEF ServerInv
<1> QED
  BY <1>1, <1>3, <1>4, <1>5

LEMMA SuiteKeeps ==
  ASSUME BenchTypes, Suite, SuiteInv, SuiteProcs, ServerInv, [Next]_vars
  PROVE  BenchTypes' /\ SuiteInv' /\ SuiteProcs' /\ ServerInv'
<1>1. CASE RedisBenchStep /\ Remembered
  <2>1. \/ StopAllSchedulers \/ RunnerStart \/ RunnerPoll \/ RunnerStop \/ RecordResult
        \/ SuiteStep \/ save_results \/ SweepEnds \/ Finish
    BY <1>1 DEF RedisBenchStep, run_redis_benchmark, run_memtier_benchmark, RedisBenchmark,
                MemtierBenchmark, RunStep
  <2> QED
    BY <1>1, <2>1, StopAllKeeps, RunnerStartKeeps, RunnerPollKeeps, RunnerStopKeeps, RecordKeeps,
       SuiteStepKeeps, SaveResultsKeep, SweepKeeps, FinishKeeps
<1>2. CASE \E signal \in {"INT", "TERM"} : InterruptServer(signal)
  BY <1>2, InterruptServerKeeps
<1>3. CASE (Machine /\ UNCHANGED <<serverVars, historyVars>>) \/ Validate \/ UNCHANGED vars
  BY <1>3, SuiteRestKeeps
<1> QED
  BY <1>1, <1>2, <1>3, FamilySteps, Families DEF BenchTypes

\* What the testers that go through all schedulers have on disk.
LEMMA EarlyGrows == Early(1) => Early(2)
BY DEF Early

LEMMA AllRecordKeeps ==
  ASSUME BenchTypes, Suite, SuiteInv, mode = "all", AllInv, RecordResult
  PROVE  AllInv'
<1>1. /\ DOMAIN Order = 1 .. Len(Order) /\ Len(Order) \in Nat /\ Len(Order) > 0
      /\ i \in DOMAIN Order /\ Target \in Configs
  BY SuitePlace DEF RecordResult
<1>2. /\ Len(Order) > 1 /\ Order[1].label = Default
      /\ \A k \in DOMAIN Order : k > 1 => Order[k].label # Default
  BY OrderIs DEF BenchTypes
<1>3. /\ pc = "record" /\ records' = [records EXCEPT ![Target] = Outcome]
      /\ UNCHANGED <<driver, mode, file>>
      /\ \/ i' = i + 1 /\ pc' = IF Target.label # Default THEN "save"
                                ELSE IF i' <= Len(Order) THEN "test" ELSE "finish"
         \/ i = 1 /\ i' = Len(Order) + 1 /\ pc' = "finish"
  BY DEF RecordResult, Here, To
<1>4. Order' = Order
  BY <1>3, SameProgram
<1>5. PICK n \in Nat : n = i /\ n >= 1 /\ Target = Order[n]
  BY <1>1 DEF Target
<1>6. \/ file = records /\ n > 2
      \/ file = Null /\ Early(1) /\ n <= 2
  BY <1>3, <1>5 DEF AllInv, Saving, Ended
<1>7. CASE n = 1
  <2>1. file = Null /\ Early(1)
    BY <1>6, <1>7
  <2>2. \A c \in Configs : c # Target => records'[c] = records[c]
    BY <1>3 DEF BenchTypes
  <2>3. Early(1)'
    <3>1. \A c \in Configs : records'[c] # Null => c = Order[1]
      BY <1>5, <1>7, <2>1, <2>2 DEF Early
    <3> QED
      BY <1>4, <3>1 DEF Early
  <2>4. pc' = "finish" \/ (pc' = "test" /\ i' = 2)
    BY <1>2, <1>3, <1>5, <1>7
  <2> QED
    BY <1>3, <2>1, <2>3, <2>4 DEF AllInv, Saving, Ended
<1>8. CASE n > 1
  <2>1. pc' = "save" /\ i' = n + 1
    BY <1>1, <1>2, <1>3, <1>5, <1>8
  <2>2. i' > 2 /\ i' - 1 = n
    BY <1>8, <2>1
  <2>3. CASE file = records /\ n > 2
    <3>1. file' \notin {Null, Cut}
      BY <1>3, <2>3, RecordsAreAFile
    <3>2. \A c \in Configs : records'[c] # file'[c] => c = Target
      BY <1>3, <2>3 DEF BenchTypes
    <3>3. (Unsaved \subseteq {Order[i - 1]})'
      BY <1>4, <1>5, <2>2, <3>2 DEF Unsaved
    <3> QED
      BY <2>1, <2>2, <3>1, <3>3 DEF AllInv, Saving, Ended
  <2>4. CASE file = Null /\ Early(1) /\ n <= 2
    <3>1. n = 2
      BY <1>8, <2>4
    <3>2. \A c \in Configs : c # Target => records'[c] = records[c]
      BY <1>3 DEF BenchTypes
    <3>3. \A c \in Configs : records'[c] # Null => c \in {Order[1], Order[2]}
      BY <1>5, <2>4, <3>1, <3>2 DEF Early
    <3>4. Early(2)'
      BY <1>4, <3>3 DEF Early
    <3> QED
      BY <1>3, <2>1, <2>2, <2>4, <3>4 DEF AllInv, Saving, Ended
  <2> QED
    BY <1>6, <2>3, <2>4
<1> QED
  BY <1>5, <1>7, <1>8

LEMMA AllSaveKeeps ==
  ASSUME BenchTypes, Suite, SuiteInv, mode = "all", AllInv, save_results,
         ~(pc = "save" /\ pc' # "write"), ~(pc = "write" /\ file' = Cut)
  PROVE  AllInv'
<1>1. UNCHANGED <<driver, mode, i, records>>
  BY DEF save_results, Here, Held
<1>2. \/ pc = "save" /\ pc' = "write" /\ file' = Cut
      \/ /\ pc = "write" /\ file' = records
         /\ pc' \in {"finish", "test"}
  BY DEF save_results, Here, To, AllInv
<1>3. i > 2
  BY <1>2 DEF AllInv, Saving
<1> QED
  BY <1>1, <1>2, <1>3 DEF AllInv, Saving, Ended

LEMMA AllEndKeeps ==
  ASSUME BenchTypes, Suite, SuiteInv, mode = "all", AllInv, pc \notin Ended,
         UNCHANGED <<driver, mode, i, records, file>>,
         (pc = "finish" /\ pc' = "done") \/ (pc' = "interrupted" /\ at'[1] = pc)
  PROVE  AllInv'
<1>1. Order' = Order
  BY SameProgram
<1>2. /\ Unsaved' = Unsaved /\ (Early(1)' <=> Early(1)) /\ (Early(2)' <=> Early(2))
      /\ Order[i - 1]' = Order[i - 1]
  BY <1>1 DEF Unsaved, Early
<1>3. CASE pc \notin Saving
  <2>1. \/ file = records
        \/ file = Null /\ Early(2)
    BY <1>3, EarlyGrows DEF AllInv
  <2>2. file = records => Unsaved = {} /\ file \notin {Null, Cut}
    BY RecordsAreAFile DEF Unsaved
  <2> QED
    BY <1>1, <1>2, <1>3, <2>1, <2>2 DEF AllInv, Saving, Ended
<1>4. CASE pc = "save"
  BY <1>1, <1>2, <1>4 DEF AllInv, Saving, Ended
<1>5. CASE pc = "write"
  BY <1>1, <1>2, <1>5 DEF AllInv, Saving, Ended
<1> QED
  BY <1>3, <1>4, <1>5 DEF Saving

LEMMA AllKeeps ==
  ASSUME BenchTypes, Suite, SuiteInv, mode = "all" /\ ~failed => AllInv, [Next]_vars
  PROVE  (mode = "all" /\ ~failed => AllInv)'
<1> SUFFICES ASSUME mode' = "all", ~failed'
             PROVE  AllInv'
  OBVIOUS
<1>1. CASE RedisBenchStep /\ Remembered
  <2>1. /\ mode = "all" /\ ~failed /\ ~(pc = "save" /\ pc' # "write")
        /\ ~(pc = "write" /\ file' = Cut)
    BY <1>1 DEF Remembered, SweepEnds, Abandon, RedisBenchStep, run_redis_benchmark,
                run_memtier_benchmark, RedisBenchmark,
                MemtierBenchmark, RunStep, SuiteStep, save_results, Finish, StopAllSchedulers,
                RunnerStart, RunnerPoll, RunnerStop, RecordResult, Construct, Popen, Remember, Ping,
                run_benchmark, stop_redis, cleanup, Here
  <2>2. AllInv
    BY <2>1
  <2>3. CASE RecordResult
    BY <2>1, <2>2, <2>3, AllRecordKeeps
  <2>4. CASE save_results
    BY <2>1, <2>2, <2>4, AllSaveKeeps
  <2>5. CASE Finish
    <3>1. pc = "finish" /\ pc' = "done" /\ UNCHANGED <<driver, mode, i, records, file>>
      BY <2>1, <2>5 DEF Finish, Here, Held, Stored
    <3> QED
      BY <2>1, <2>2, <3>1, AllEndKeeps DEF Ended
  <2>6. CASE StopAllSchedulers \/ RunnerStart \/ RunnerPoll \/ RunnerStop \/ SuiteStep
    <3>1. /\ pc \in Looking \cup Serving /\ pc' \in Looking \cup Serving \cup {"record"}
          /\ UNCHANGED <<driver, mode, i, records, file>>
      BY <2>6 DEF StopAllSchedulers, RunnerStart, RunnerPoll, RunnerStop, SuiteStep, Construct, Popen,
                  Remember, Ping, run_benchmark, stop_redis, cleanup, Here, Held, Stored, Looking, Serving
    <3>2. Order' = Order
      BY <3>1, SameProgram
    <3> QED
      BY <2>2, <3>1, <3>2 DEF AllInv, Early, Unsaved, Looking, Serving, Saving, Ended
  <2> QED
    BY <1>1, <2>1, <2>3, <2>4, <2>5, <2>6
    DEF RedisBenchStep, run_redis_benchmark, run_memtier_benchmark, RedisBenchmark, MemtierBenchmark,
        RunStep, SweepEnds
<1>2. ASSUME NEW signal \in {"INT", "TERM"}, InterruptServer(signal), UNCHANGED historyVars
      PROVE  AllInv'
  <2>1. /\ pc \notin Ended /\ pc' = "interrupted" /\ at'[1] = pc
        /\ UNCHANGED <<driver, mode, i, records, file>>
    BY <1>2 DEF InterruptServer, Held, Stored
  <2>2. mode = "all" /\ AllInv
    BY <1>2, <2>1 DEF historyVars
  <2> QED
    BY <2>1, <2>2, AllEndKeeps
<1>3. CASE (Machine \/ Validate \/ UNCHANGED vars) /\ UNCHANGED historyVars
  <2>1. UNCHANGED <<driver, mode, pc, i, records, file, at>>
    BY <1>3, MachineStops, ValidateOnly DEF vars, hostVars
  <2>2. Order' = Order /\ AllInv
    BY <1>3, <2>1, SameProgram DEF historyVars
  <2> QED
    BY <2>1, <2>2 DEF AllInv, Early, Unsaved
<1> QED
  BY <1>1, <1>2, <1>3, FamilySteps, Families, ValidateOnly DEF BenchTypes, vars

-------------------------------------------------------------------------------
(***************************************************************************)
(* All programs.                                                           *)
(***************************************************************************)
LEMMA BenchBegins == Init => BenchInv
<1> SUFFICES ASSUME Init
             PROVE  BenchInv
  OBVIOUS
<1>0. <<driver, mode>> \in Modes
  <2>1. PICK program \in Modes : driver = program[1] /\ mode = program[2]
    BY DEF Init
  <2>2. program = <<program[1], program[2]>>
    BY DEF Modes
  <2> QED
    BY <2>1, <2>2
<1>1. /\ <<driver, mode>> \in Modes
      /\ proc \in [Labels -> {"none", "attached"}] /\ \A s \in Labels : Alive(s) => s = Other
      /\ deaf \in {{}, {Schedulers[1]}, {Other}} /\ (Compare => deaf \subseteq {Other})
      /\ pc = "test" /\ i = 1 /\ held = Null /\ measuring = Null /\ tests = <<>> /\ result = Null
      /\ records = [c \in Configs |-> Null] /\ file = Null /\ verdict = "none"
      /\ server = "none" /\ handler = FALSE /\ ran = {}
  BY <1>0 DEF Init, HostInit, ServerInit, FilesInit
<1>2. BenchTypes
  <2>1. deaf \subseteq Labels
    BY <1>1, Constants DEF Labels
  <2>2. tests \in Seq(Outputs \cup {TimedOut})
    BY <1>1
  <2> QED
    BY <1>1, <2>1, <2>2 DEF BenchTypes
<1>3. \A s \in Mine : ~Alive(s)
  BY <1>1 DEF Mine
<1>4. ASSUME AB
      PROVE  ABInv
  <2>1. /\ Len(ABOrder) \in Nat /\ Len(ABOrder) > 1 /\ DOMAIN ABOrder = 1 .. Len(ABOrder)
        /\ \A k \in DOMAIN ABOrder : ABOrder[k] \in Configs
    BY <1>4, ABOrderIs, LenProperties, ElementOfSeq DEF IsOrder
  <2>2. ABWhere
    BY <1>1, <2>1 DEF ABWhere, Upto, Ended, ABSaving
  <2>3. ABSaved
    BY <1>1, HostAssumption DEF ABSaved, HostAssumption, Statuses, Ended
  <2> QED
    BY <1>1, <1>3, <2>2, <2>3 DEF ABInv, ABResult, ABProcs
<1>5. ArchiveInv
  BY <1>1, <1>3 DEF ArchiveInv
<1>6. ASSUME Suite
      PROVE  SuiteInv /\ SuiteProcs
  <2>1. /\ Len(Order) \in Nat /\ Len(Order) > 0 /\ DOMAIN Order = 1 .. Len(Order)
        /\ \A k \in DOMAIN Order : Order[k] \in Configs
    BY <1>1, <1>6, OrderIs, LenProperties, ElementOfSeq DEF IsOrder
  <2> QED
    BY <1>1, <1>3, <2>1 DEF SuiteInv, SuiteProcs, Looking, Serving, Saving, Sweeping
<1>7. ServerInv
  BY <1>1 DEF ServerInv
<1>8. AllInv
  BY <1>1 DEF AllInv, Early, Saving, Ended
<1>9. ASSUME Compare
      PROVE  CompareInv
  <2>1. CompareWhere
    BY <1>1, <1>9, RunsCount DEF CompareWhere
  <2>2. CompareProcs
    BY <1>3 DEF CompareProcs
  <2>3. /\ DOMAIN files = {"cfs", "custom"}
        /\ \A side \in DOMAIN files : DOMAIN files[side] = 1 .. MaxRuns
    BY DEF Init, FilesInit
  <2>4. Skipped("cfs", i - 1) = {}
    BY <1>1 DEF Skipped
  <2>5. CompareFiles
    BY <1>1, <2>3, <2>4 DEF CompareFiles, NoneOld
  <2> QED
    BY <2>1, <2>2, <2>5 DEF CompareInv
<1> QED
  BY <1>2, <1>4, <1>5, <1>6, <1>7, <1>8, <1>9 DEF BenchInv

\* Only the archived Redis drivers start servers.
LEMMA ServerKeeps ==
  ASSUME BenchTypes, ~Suite, ServerInv, [Next]_vars
  PROVE  UNCHANGED <<driver, mode>> /\ server' = "none" /\ ~handler'
<1>1. UNCHANGED serverVars
  BY FamilySteps, ValidateOnly DEF BenchTypes, vars
<1>2. UNCHANGED <<driver, mode>>
  <2>1. CASE ABStep \/ ArchiveStep
    BY <2>1 DEF ABStep, ArchiveStep, Populate, StartScheduler, Poll, Run, StopScheduler, Store,
                run_db_bench, ReturnTests, SaveStep, OpenResults, WriteResults, Show, Here
  <2>2. CASE CompareStep
    BY <2>2 DEF CompareStep, CfsRun, RunInto, Step, LoadScheduler, CheckState, CustomRun, Unload, Trap,
                Here
  <2>3. CASE \E signal \in {"INT", "TERM"} : InterruptAB(signal) \/ InterruptCompare(signal)
    BY <2>3 DEF InterruptAB, InterruptCompare
  <2>4. CASE Machine \/ Validate \/ UNCHANGED vars
    BY <2>4, MachineStops, ValidateOnly DEF vars, hostVars
  <2> QED
    BY <2>1, <2>2, <2>3, <2>4, FamilySteps DEF BenchTypes
<1> QED
  BY <1>1, <1>2 DEF ServerInv, serverVars

LEMMA SuiteStays ==
  ASSUME BenchTypes, Suite, [Next]_vars
  PROVE  UNCHANGED <<driver, mode>>
<1>1. CASE RedisBenchStep
  BY <1>1 DEF RedisBenchStep, run_redis_benchmark, run_memtier_benchmark, RedisBenchmark,
              MemtierBenchmark, RunStep, SuiteStep, save_results, SweepEnds, Abandon, Finish,
              StopAllSchedulers, RunnerStart, RunnerPoll, RunnerStop, RecordResult, Construct, Popen,
              Remember, Ping, run_benchmark, stop_redis, cleanup, Here
<1>2. CASE \E signal \in {"INT", "TERM"} : InterruptServer(signal)
  BY <1>2 DEF InterruptServer
<1>3. CASE Machine \/ Validate \/ UNCHANGED vars
  BY <1>3, MachineStops, ValidateOnly DEF vars, hostVars
<1> QED
  BY <1>1, <1>2, <1>3, FamilySteps, Families DEF BenchTypes

LEMMA BenchKeeps == BenchInv /\ [Next]_vars => BenchInv'
<1> SUFFICES ASSUME BenchInv, [Next]_vars
             PROVE  BenchInv'
  OBVIOUS
<1>1. BenchTypes /\ ServerInv
  BY DEF BenchInv
<1>2. CASE Suite
  <2>1. SuiteInv /\ SuiteProcs /\ (mode = "all" /\ ~failed => AllInv)
    BY <1>2 DEF BenchInv
  <2>2. BenchTypes' /\ SuiteInv' /\ SuiteProcs' /\ ServerInv'
    BY <1>1, <1>2, <2>1, SuiteKeeps
  <2>3. (mode = "all" /\ ~failed => AllInv)'
    BY <1>1, <1>2, <2>1, AllKeeps
  <2>4. ~AB' /\ ~Archive' /\ ~Compare'
    BY <1>1, <1>2, SuiteStays, Families DEF BenchTypes, AB, Archive, Compare
  <2> QED
    BY <2>2, <2>3, <2>4 DEF BenchInv, Archive
<1>3. CASE ~Suite
  <2>1. UNCHANGED <<driver, mode>> /\ server' = "none" /\ ~handler'
    BY <1>1, <1>3, ServerKeeps
  <2>2. (AB' <=> AB) /\ (Archive' <=> Archive) /\ (Compare' <=> Compare) /\ ~Suite' /\ mode' # "all"
    BY <1>1, <1>3, <2>1, SameProgram, Families DEF BenchTypes, AB, Archive, Compare
  <2>3. CASE AB
    <3>1. BenchTypes' /\ ABInv'
      BY <1>1, <2>3, ABKeeps DEF BenchInv
    <3>2. ServerInv'
      BY <2>1, <3>1 DEF ServerInv, ABInv, ABWhere, ABSaving, Ended
    <3> QED
      BY <1>1, <2>2, <2>3, <3>1, <3>2, Families DEF BenchInv, BenchTypes, Archive
  <2>4. CASE Archive
    <3>1. BenchTypes' /\ ArchiveInv'
      BY <1>1, <2>4, ArchiveKeeps DEF BenchInv, Archive
    <3>2. ServerInv'
      BY <2>1, <3>1 DEF ServerInv, ArchiveInv, ABSaving, Ended
    <3> QED
      BY <1>1, <2>2, <2>4, <3>1, <3>2, Families DEF BenchInv, BenchTypes, Archive
  <2>5. CASE Compare
    <3>1. BenchTypes' /\ CompareInv'
      BY <1>1, <2>5, CompareKeeps DEF BenchInv
    <3>2. ServerInv'
      BY <2>1, <3>1 DEF ServerInv, CompareInv, CompareWhere, Ended
    <3> QED
      BY <1>1, <2>2, <2>5, <3>1, <3>2, Families DEF BenchInv, BenchTypes, Archive
  <2> QED
    BY <1>1, <1>3, <2>3, <2>4, <2>5, Families DEF BenchTypes
<1> QED
  BY <1>2, <1>3

\* What is known of a session in any state of it, whichever program runs.
THEOREM BenchInvariant == Spec => []BenchInv
BY BenchBegins, BenchKeeps, PTL DEF Spec

-------------------------------------------------------------------------------
(***************************************************************************)
(* Types, and the one scheduler that can be attached.                      *)
(***************************************************************************)
OneAttached == \A s, t \in Labels : Attached(s) /\ Attached(t) => s = t

\* What a step of a program does to the processes.
Quiet == UNCHANGED proc \/ (\E S : proc' = Killed(S)) \/ (\E s : proc' = Spawned(s))

\* Whatever a program starts, kills or waits for, only the kernel attaches a scheduler.
LEMMA DriversAttachNone ==
  ASSUME proc \in [Labels -> {"none", "loading", "attached", "ejected"}],
         Quiet
  PROVE  \A s \in Labels : Attached(s)' => Attached(s)
BY DEF Quiet, Killed, Spawned, Attached

LEMMA StepsAreQuiet ==
  ASSUME [Next]_vars
  PROVE  Quiet \/ Machine
<1>1. ASSUME ABStep PROVE Quiet
  <2>1. CASE Populate \/ Poll \/ Run \/ Store \/ SaveStep
    BY <2>1 DEF Quiet, Populate, Poll, Run, Store, SaveStep, OpenResults, WriteResults, Show
  <2>2. CASE StartScheduler
    BY <2>2 DEF Quiet, StartScheduler
  <2>3. CASE StopScheduler
    BY <2>3 DEF Quiet, StopScheduler
  <2> QED
    BY <1>1, <2>1, <2>2, <2>3 DEF ABStep
<1>2. ASSUME ArchiveStep PROVE Quiet
  BY <1>2 DEF Quiet, ArchiveStep, run_db_bench, ReturnTests, SaveStep, OpenResults, WriteResults, Show
<1>3. ASSUME RedisBenchStep PROVE Quiet
  <2>1. CASE StopAllSchedulers \/ RunnerPoll \/ RecordResult \/ save_results \/ Construct
             \/ Popen \/ Remember \/ Ping \/ run_benchmark \/ stop_redis \/ cleanup \/ SweepEnds
    BY <2>1 DEF Quiet, SweepEnds, StopAllSchedulers, kill_scheduler_processes, RunnerPoll, RecordResult,
                save_results, Construct, Popen, Remember, Ping, run_benchmark, stop_redis, cleanup
  <2>2. CASE RunnerStart
    BY <2>2 DEF Quiet, RunnerStart
  <2>3. CASE RunnerStop
    BY <2>3 DEF Quiet, RunnerStop
  <2>4. CASE Finish
    BY <2>4 DEF Quiet, Finish
  <2> QED
    BY <1>3, <2>1, <2>2, <2>3, <2>4
    DEF RedisBenchStep, run_redis_benchmark, run_memtier_benchmark, RedisBenchmark,
        MemtierBenchmark, RunStep, SuiteStep
<1>4. ASSUME CompareStep PROVE Quiet
  BY <1>4 DEF Quiet, CompareStep, CfsRun, LoadScheduler, CheckState, CustomRun, Unload, Trap
<1>5. ASSUME NEW signal \in {"INT", "TERM"},
             InterruptAB(signal) \/ InterruptServer(signal) \/ InterruptCompare(signal)
      PROVE  Quiet
  BY <1>5 DEF Quiet, InterruptAB, InterruptServer, InterruptCompare, _signal_handler, Unhandled
<1>6. ASSUME Validate \/ UNCHANGED vars PROVE Quiet
  BY <1>6 DEF Quiet, Validate, procVars, vars, hostVars
<1> QED
  <2>1. CASE Driver
    BY <2>1, <1>1, <1>2, <1>3, <1>4, WhoSteps DEF Driver
  <2>2. CASE Interrupt
    BY <2>2, <1>5 DEF Interrupt
  <2>3. CASE Validate \/ Machine \/ UNCHANGED vars
    BY <2>3, <1>6
  <2> QED
    BY <2>1, <2>2, <2>3 DEF Next

LEMMA OneAttachedKept ==
  ASSUME BenchTypes, OneAttached, [Next]_vars
  PROVE  OneAttached'
<1>0. proc \in [Labels -> {"none", "loading", "attached", "ejected"}]
  BY DEF BenchTypes
<1>1. CASE Quiet
  <2>1. \A s \in Labels : Attached(s)' => Attached(s)
    BY <1>0, <1>1, DriversAttachNone
  <2> QED
    BY <2>1 DEF OneAttached
<1>2. CASE Machine
  <2>1. PICK s \in Labels : Attach(s) \/ Eject(s) \/ Exit(s)
    BY <1>2 DEF Machine
  <2>2. \/ \A t \in Labels : Attached(t)' => Attached(t)
        \/ ~Enabled /\ \A t \in Labels : Attached(t)' => t = s
    <3>1. CASE Enabled \/ ~Attach(s)
      BY <1>0, <2>1, <3>1 DEF Attach, Eject, Exit, Attached
    <3>2. CASE ~Enabled /\ Attach(s)
      <4>1. proc' = [proc EXCEPT ![s] = "attached"]
        BY <3>2 DEF Attach
      <4>2. \A t \in Labels : ~Attached(t)
        BY <3>2 DEF Enabled
      <4> QED
        BY <1>0, <3>2, <4>1, <4>2 DEF Attached
    <3> QED
      BY <3>1, <3>2
  <2> QED
    BY <2>2 DEF OneAttached, Enabled
<1> QED
  BY <1>1, <1>2, StepsAreQuiet

BenchTypeInv ==
  /\ BenchInv /\ OneAttached
  /\ handle \in BOOLEAN /\ handler \in BOOLEAN
  /\ left \subseteq 1 .. NumRuns /\ ran \subseteq {"cfs", "custom"} \X (1 .. NumRuns)

LEMMA BenchTypeInvBegins == Init => BenchTypeInv
BY BenchBegins DEF BenchTypeInv, OneAttached, Attached, Alive, Init, HostInit, ServerInit, FilesInit

LEMMA HandlesKept ==
  ASSUME BenchTypeInv, [Next]_vars
  PROVE  handle' \in BOOLEAN /\ handler' \in BOOLEAN
<1>0. handle \in BOOLEAN /\ handler \in BOOLEAN
  BY DEF BenchTypeInv
<1>1. CASE RedisBenchStep
  BY <1>0, <1>1 DEF RedisBenchStep, run_redis_benchmark, run_memtier_benchmark, RedisBenchmark,
              MemtierBenchmark, RunStep, SuiteStep, StopAllSchedulers, serverVars, RunnerStart,
              RunnerPoll, RunnerStop, RecordResult, save_results, SweepEnds, Abandon, Finish,
              Construct, Popen, Remember, Ping, run_benchmark, stop_redis, cleanup
<1>2. CASE \E signal \in {"INT", "TERM"} : InterruptServer(signal)
  BY <1>0, <1>2 DEF InterruptServer, _signal_handler, Unhandled
<1>3. CASE UNCHANGED <<handle, handler>>
  BY <1>0, <1>3
<1> QED
  BY <1>1, <1>2, <1>3 DEF Next, Driver, Interrupt, Validate, serverVars, vars

LEMMA RunsKept ==
  ASSUME BenchTypeInv, [Next]_vars
  PROVE  left' \subseteq 1 .. NumRuns /\ ran' \subseteq {"cfs", "custom"} \X (1 .. NumRuns)
<1>0. left \subseteq 1 .. NumRuns /\ ran \subseteq {"cfs", "custom"} \X (1 .. NumRuns)
  BY DEF BenchTypeInv
<1>1. CASE CompareStep
  <2>1. i \in 1 .. NumRuns
    BY <1>1, WhoSteps DEF BenchTypeInv, BenchInv, CompareInv, CompareWhere
  <2>2. /\ left' \in {left, left \cup {i}}
        /\ ran' \in {ran, ran \cup {<<"cfs", i>>}, ran \cup {<<"custom", i>>}}
    BY <1>1 DEF CompareStep, CfsRun, RunInto, Writes, filesVars, LoadScheduler, CheckState, CustomRun,
                Unload, Trap
  <2> QED
    BY <1>0, <2>1, <2>2
<1>2. ASSUME NEW signal, InterruptCompare(signal)
      PROVE  left' \subseteq 1 .. NumRuns /\ ran' \subseteq {"cfs", "custom"} \X (1 .. NumRuns)
  <2>1. i \in 1 .. NumRuns
    BY <1>2 DEF InterruptCompare, BenchTypeInv, BenchInv, CompareInv, CompareWhere
  <2>2. left' = left /\ ran' \in {ran, ran \cup {<<"cfs", i>>}, ran \cup {<<"custom", i>>}}
    BY <1>2 DEF InterruptCompare, Writes
  <2> QED
    BY <1>0, <2>1, <2>2
<1>3. CASE UNCHANGED <<left, ran>>
  BY <1>0, <1>3
<1> QED
  BY <1>1, <1>2, <1>3 DEF Next, Driver, Interrupt, Validate, filesVars, vars

LEMMA AtMostOne ==
  ASSUME NEW S, \A x, y \in S : x = y
  PROVE  Cardinality(S) <= 1
<1>1. CASE S = {}
  BY <1>1, FS_EmptySet
<1>2. CASE S # {}
  <2>1. PICK x \in S : S = {x}
    BY <1>2
  <2> QED
    BY <2>1, FS_Singleton
<1> QED
  BY <1>1, <1>2

\* The variables of every session keep their types, and whatever sessions start, kill and
\* leave behind, two schedulers are never attached at once.
THEOREM BenchTypeCorrect == Spec => []TypeOK
<1>1. BenchTypeInv /\ [Next]_vars => BenchTypeInv'
  BY BenchKeeps, OneAttachedKept, HandlesKept, RunsKept DEF BenchTypeInv, BenchInv
<1>2. BenchTypeInv => TypeOK
  <2> SUFFICES ASSUME BenchTypeInv PROVE TypeOK
    OBVIOUS
  <2>1. Cardinality({s \in Labels : Attached(s)}) <= 1
    BY AtMostOne DEF BenchTypeInv, OneAttached
  <2>2. \A k \in DOMAIN tests : tests[k] \in Outputs \cup {TimedOut}
    BY DEF BenchTypeInv, BenchInv, BenchTypes
  <2> QED
    BY <2>1, <2>2 DEF BenchTypeInv, BenchInv, BenchTypes, ServerInv, TypeOK, HostTypeOK
<1> QED
  BY <1>1, <1>2, BenchTypeInvBegins, PTL DEF Spec

-------------------------------------------------------------------------------
(***************************************************************************)
(* What is stopped, saved and accounted for.                               *)
(***************************************************************************)
\* The server of a session never outlives it, unless a signal came after the process was
\* made and before redis_process named it: cleanup then stops nothing.
THEOREM ServersAreStopped == Spec => []ServerStopped
<1>1. BenchInv => ServerStopped
  BY DEF BenchInv, ServerInv, ServerStopped, Ended
<1> QED
  BY <1>1, BenchInvariant, PTL

\* Whatever number of schedulers a session starts, those that can be stopped outlive it
\* only in the ways that SchedulerStopped names: after a signal, or when main leaves a sweep
\* past its final kill after stop_scheduler has left one running.
THEOREM SchedulersAreStopped == Spec => []SchedulerStopped
<1>1. BenchInv => SchedulerStopped
  <2> SUFFICES ASSUME BenchInv, NEW s \in Mine, pc \in Ended, Alive(s)
               PROVE  \/ pc = "aborted" /\ mode = "sweep" /\ stuck
                      \/ /\ pc = "interrupted"
                         /\ \/ at[2] = "TERM" /\ ~handler
                            \/ AB /\ at[1] \in {"wait", "stop"}
                            \/ handler
                            \/ driver = "bench_compare"
    BY DEF SchedulerStopped, Mine
  <2>1. CASE AB
    <3>1. ~handler
      BY <2>1, Families DEF BenchInv, BenchTypes, ServerInv
    <3> QED
      BY <2>1, <3>1 DEF BenchInv, ABInv, ABProcs, Ended
  <2>2. CASE Archive
    BY <2>2 DEF BenchInv, ArchiveInv, Archive
  <2>3. CASE Suite
    <3>1. SuiteInv /\ SuiteProcs
      BY <2>3 DEF BenchInv
    <3>2. pc # "done" /\ (pc = "interrupted" => handler \/ at[2] = "TERM")
      BY <3>1 DEF SuiteProcs
    <3>3. pc = "aborted" => mode = "sweep" /\ stuck
      BY <3>1 DEF SuiteInv, SuiteProcs, InHand, Serving, Sweeping
    <3> QED
      BY <3>2, <3>3 DEF Ended
  <2>4. CASE Compare
    BY <2>4 DEF BenchInv, CompareInv, CompareProcs, PerRun, Ended
  <2> QED
    BY <2>1, <2>2, <2>3, <2>4, Families DEF BenchInv, BenchTypes
<1> QED
  BY <1>1, BenchInvariant, PTL

\* An A/B program opens its file only when it has tried every configuration, and a file that
\* it leaves is all of them, or was cut by a failure or a signal while it was written; the
\* testers lose by an interrupt no more than the last result, the results before the first
\* save, or a file that is being written.
THEOREM ProgressIsSaved == Spec => []ProgressSaved
<1>1. BenchInv => ProgressSaved
  <2> SUFFICES ASSUME BenchInv
               PROVE  ProgressSaved
    OBVIOUS
  <2>1. ASSUME AB
        PROVE  /\ file \in {Null, Cut, records}
               /\ file # Null => \A k \in DOMAIN ABOrder : records[ABOrder[k]] # Null
               /\ file = Cut /\ pc \in Ended => pc = "aborted" \/ at[1] = "write"
               /\ pc = "done" => file = records
    BY <2>1 DEF BenchInv, ABInv, ABSaved
  <2>2. ASSUME mode = "all", pc \in Ended, ~failed
        PROVE  \/ file = Cut /\ pc = "interrupted" /\ at[1] = "write"
               \/ file = Null /\ {c \in Configs : records[c] # Null} \subseteq {Order[1], Order[2]}
               \/ /\ file \notin {Null, Cut}
                  /\ {c \in Configs : records[c] # file[c]} \subseteq {Order[i - 1]}
                  /\ pc = "done" => file = records
    <3>1. Early(2) => {c \in Configs : records[c] # Null} \subseteq {Order[1], Order[2]}
      BY DEF Early
    <3> QED
      BY <2>2, <3>1 DEF BenchInv, AllInv, Unsaved
  <2> QED
    BY <2>1, <2>2 DEF ProgressSaved
<1> QED
  BY <1>1, BenchInvariant, PTL

\* An improvement of db_sim takes two measurements of this session, unless the session ended
\* before it opened its file; stage 4 averages a run of an earlier session only where this
\* session has made none, also after an abort or an interrupt.
THEOREM RunsAreAccountedFor == Spec => []RunsAccountedFor
<1>1. BenchInv => RunsAccountedFor
  <2> SUFFICES ASSUME BenchInv
               PROVE  RunsAccountedFor
    OBVIOUS
  <2>1. ASSUME verdict = "improvement", driver = "db_sim_bench"
        PROVE  IF file = Null THEN pc # "done"
               ELSE /\ file = records
                    /\ {records[Config(Default, 1)], records[Config(Schedulers[1], 1)]} = {"ok"}
    BY <2>1 DEF BenchInv, ABInv, ABSaved, AB
  <2>2. ASSUME Compare, NEW side \in {"cfs", "custom"}, NEW k \in Averaged(files[side]),
               files[side][k] = "old"
        PROVE  <<side, k>> \notin ran
    BY <2>2 DEF BenchInv, CompareInv, CompareFiles, NoneOld
  <2>3. ASSUME Compare, pc = "done", NEW side \in {"cfs", "custom"}, NEW k \in 1 .. NumRuns
        PROVE  <<side, k>> \in ran \/ (side = "custom" /\ PerRun /\ k \in left)
    <3>1. Skipped("cfs", NumRuns) = {} /\ Skipped("custom", NumRuns) = {}
      BY <2>3 DEF BenchInv, CompareInv, CompareFiles
    <3> QED
      BY <2>3, <3>1 DEF Skipped
  <2> QED
    BY <2>1, <2>2, <2>3 DEF RunsAccountedFor
<1> QED
  BY <1>1, BenchInvariant, PTL

\* In the analysis of the memtier results a test has a throughput if and only if it was run
\* and printed results, as long as the columns of one kind of line are enough to be read.
THEOREM AnalysisIsOfMeasurements ==
  Spec => [](TotalsColumns >= 11 \/ KindColumns >= 8 => AnalysisShowsMeasured)
<1>1. BenchInv => (TotalsColumns >= 11 \/ KindColumns >= 8 => AnalysisShowsMeasured)
  <2> SUFFICES ASSUME BenchInv, TotalsColumns >= 11 \/ KindColumns >= 8, NEW case \in TestCases
               PROVE  load_results(CsvRow(tests, case)) <=>
                        case = "advanced_gaussian_random" /\ tests # <<>> /\ tests[1].rows
    BY DEF AnalysisShowsMeasured
  <2>1. CASE case = "advanced_gaussian_random" /\ tests # <<>>
    <3>1. CsvRow(tests, case) = parse_memtier_output(tests[1])
      BY <2>1 DEF CsvRow
    <3>2. CASE tests[1].rows
      BY <2>1, <3>1, <3>2 DEF parse_memtier_output, load_results
    <3>3. CASE ~tests[1].rows
      BY <2>1, <3>1, <3>3 DEF parse_memtier_output, load_results
    <3> QED
      BY <3>2, <3>3
  <2>2. CASE ~(case = "advanced_gaussian_random" /\ tests # <<>>)
    BY <2>2 DEF CsvRow, load_results
  <2> QED
    BY <2>1, <2>2
<1> QED
  BY <1>1, BenchInvariant, PTL

-------------------------------------------------------------------------------
(***************************************************************************)
(* Every session implements Experiment: each of its steps begins to        *)
(* measure, records, gives up, or only changes processes.                  *)
(***************************************************************************)
Promised == Promise!Next \/ UNCHANGED <<{s \in Labels : Alive(s)}, measuring, records>>

LEMMA BeginsOne ==
  ASSUME NEW c \in Configs, measuring = Null, records[c] = Null, measuring' = c,
         c.label # Default => c.label \in Labels /\ Alive(c.label), UNCHANGED <<proc, records>>
  PROVE  Promised
<1>1. Promise!Begin(c)
  BY DEF Promise!Begin, Alive
<1> QED
  BY <1>1 DEF Promised, Promise!Next

LEMMA RecordsOne ==
  ASSUME NEW c \in Configs, NEW status \in Statuses, records[c] = Null, measuring \in {c, Null},
         measuring = Null => status = "failed", records' = [records EXCEPT ![c] = status],
         measuring' = Null, UNCHANGED proc
  PROVE  Promised
<1>1. Promise!Record(c, status)
  BY DEF Promise!Record, Alive
<1> QED
  BY <1>1 DEF Promised, Promise!Next, Statuses

LEMMA GivesUp ==
  ASSUME measuring' = Null, \A s \in Labels : proc'[s] # "none" => Alive(s), UNCHANGED records
  PROVE  Promised
<1>1. Promise!GiveUp
  BY DEF Promise!GiveUp, Alive
<1> QED
  BY <1>1 DEF Promised, Promise!Next

LEMMA ProcessesChange ==
  ASSUME measuring = Null \/ (\A s \in Labels : proc'[s] # "none" => Alive(s)),
         UNCHANGED <<measuring, records>>
  PROVE  Promised
<1>1. Promise!Processes
  BY DEF Promise!Processes, Alive
<1> QED
  BY <1>1 DEF Promised, Promise!Next

LEMMA ABPromised ==
  ASSUME BenchTypes, AB, ABInv, ABStep
  PROVE  Promised
<1>1. pc \notin Ended \cup ABSaving =>
        /\ This \in Configs /\ This # Null /\ records[This] = Null
        /\ This.label # Default => This.label \in Labels
  BY ABPlace DEF ABInv, ABWhere, Upto, This
<1>2. CASE Populate \/ Run \/ SaveStep
  <2>1. UNCHANGED <<proc, measuring, records>>
    BY <1>2 DEF Populate, Run, SaveStep, OpenResults, WriteResults, Show, Measured, Stored
  <2> QED
    BY <2>1, ProcessesChange DEF Alive
<1>3. CASE StartScheduler
  <2>1. measuring = Null /\ This \in Configs /\ records[This] = Null
    BY <1>1, <1>3 DEF StartScheduler, Here, ABInv, ABResult, Ended, ABSaving
  <2>2. /\ UNCHANGED records
        /\ measuring' = measuring \/ (measuring' = This /\ This.label = Default /\ UNCHANGED proc)
    BY <1>3 DEF StartScheduler, Stored
  <2> QED
    BY <2>1, <2>2, BeginsOne, ProcessesChange
<1>4. CASE Poll
  <2>1. /\ measuring = Null /\ This \in Configs /\ records[This] = Null
        /\ This.label # Default => This.label \in Labels
    BY <1>1, <1>4 DEF Poll, Here, ABInv, ABResult, Ended, ABSaving
  <2>2. /\ UNCHANGED <<proc, records>>
        /\ measuring' = measuring \/ (measuring' = This /\ Alive(This.label))
    BY <1>4 DEF Poll, Stored
  <2> QED
    BY <2>1, <2>2, BeginsOne, ProcessesChange
<1>5. CASE StopScheduler
  <2>1. proc' = Killed({held} \ {Null}) /\ UNCHANGED <<measuring, records>>
    BY <1>5 DEF StopScheduler, Measured, Stored
  <2> QED
    BY <2>1, KilledStops, ProcessesChange
<1>6. CASE Store
  <2>1. /\ pc = "store" /\ records' = [records EXCEPT ![This] = result] /\ measuring' = Null
        /\ UNCHANGED proc
    BY <1>6 DEF Store
  <2>2. /\ This \in Configs /\ records[This] = Null /\ result \in Statuses
        /\ measuring \in {This, Null} /\ (measuring = Null => result = "failed")
    BY <1>1, <2>1 DEF ABInv, ABResult, Ended, ABSaving
  <2> QED
    BY <2>1, <2>2, RecordsOne
<1> QED
  BY <1>2, <1>3, <1>4, <1>5, <1>6 DEF ABStep

LEMMA ArchivePromised ==
  ASSUME BenchTypes, Archive, ArchiveInv, ArchiveStep
  PROVE  Promised
<1> DEFINE c == Config(Default, 1)
<1>1. /\ c \in Configs /\ c.label = Default /\ c # Null
      /\ pc \in {"test", "tests"} => records[c] = Null
  BY Constants DEF ArchiveInv, Config
<1>2. CASE run_db_bench
  <2>1. pc \in {"test", "tests"} /\ measuring' = c /\ UNCHANGED <<proc, records>>
    BY <1>2 DEF run_db_bench, Stored
  <2>2. measuring = Null \/ measuring = c
    BY DEF ArchiveInv
  <2> HIDE DEF c
  <2> QED
    BY <1>1, <2>1, <2>2, BeginsOne, ProcessesChange DEF Alive
<1>3. CASE ReturnTests
  <2>1. /\ pc = "tests" /\ measuring' = Null /\ UNCHANGED proc
        /\ \E status \in Statuses : records' = [records EXCEPT ![c] = status]
    BY <1>3 DEF ReturnTests, Here, Statuses
  <2>2. measuring = c
    BY <2>1 DEF ArchiveInv
  <2> HIDE DEF c
  <2> QED
    BY <1>1, <2>1, <2>2, RecordsOne
<1>4. CASE SaveStep
  <2>1. UNCHANGED <<proc, measuring, records>>
    BY <1>4 DEF SaveStep, OpenResults, WriteResults, Show, Measured, Stored
  <2> QED
    BY <2>1, ProcessesChange DEF Alive
<1> QED
  BY <1>2, <1>3, <1>4 DEF ArchiveStep

LEMMA SuitePromised ==
  ASSUME BenchTypes, Suite, SuiteInv, RedisBenchStep
  PROVE  Promised
<1>1. pc \in Looking \cup Serving \cup {"record"} =>
        /\ Target \in Configs /\ Target # Null /\ records[Target] = Null
        /\ Target.label # Default => Target.label \in Labels
  BY SuitePlace DEF SuiteInv, Target
<1>2. CASE StopAllSchedulers
  <2>1. measuring = Null /\ Target \in Configs /\ records[Target] = Null
    BY <1>1, <1>2 DEF StopAllSchedulers, Here, SuiteInv, Looking, Serving
  <2>2. /\ UNCHANGED records
        /\ measuring' = measuring \/ (measuring' = Target /\ Target.label = Default /\ UNCHANGED proc)
    BY <1>2 DEF StopAllSchedulers, Stored
  <2> QED
    BY <2>1, <2>2, BeginsOne, ProcessesChange
<1>3. CASE RunnerStart
  <2>1. measuring = Null /\ UNCHANGED <<measuring, records>>
    BY <1>3 DEF RunnerStart, Here, Measured, Stored, SuiteInv, Serving
  <2> QED
    BY <2>1, ProcessesChange
<1>4. CASE RunnerPoll
  <2>1. /\ measuring = Null /\ Target \in Configs /\ records[Target] = Null
        /\ Target.label # Default => Target.label \in Labels
    BY <1>1, <1>4 DEF RunnerPoll, Here, SuiteInv, Looking, Serving
  <2>2. /\ UNCHANGED <<proc, records>>
        /\ measuring' = measuring \/ (measuring' = Target /\ Alive(Target.label))
    BY <1>4 DEF RunnerPoll, Stored
  <2> QED
    BY <2>1, <2>2, BeginsOne, ProcessesChange
<1>5. CASE RunnerStop
  <2>1. UNCHANGED <<measuring, records>> /\ \E S \in {{}, {held}} : proc' = Killed(S \ {Null})
    BY <1>5 DEF RunnerStop, Measured, Stored
  <2> QED
    BY <2>1, KilledStops, ProcessesChange
<1>6. CASE RecordResult
  <2>1. /\ pc = "record" /\ records' = [records EXCEPT ![Target] = Outcome] /\ measuring' = Null
        /\ UNCHANGED proc
    BY <1>6 DEF RecordResult
  <2>2. Target \in Configs /\ records[Target] = Null /\ measuring \in {Target, Null}
    BY <1>1, <2>1 DEF SuiteInv
  <2>3. measuring = Null => Outcome = "failed"
    BY <1>1, <2>1 DEF SuiteInv, Outcome
  <2> QED
    BY <2>1, <2>2, <2>3, OutcomeIsStatus, RecordsOne
<1>7. CASE SuiteStep \/ save_results \/ SweepEnds
  <2>1. UNCHANGED <<proc, measuring, records>>
    BY <1>7 DEF SuiteStep, Construct, Popen, Remember, Ping, run_benchmark, stop_redis, cleanup,
                save_results, SweepEnds, Measured, Stored
  <2> QED
    BY <2>1, ProcessesChange DEF Alive
<1>8. CASE Finish
  <2>1. /\ UNCHANGED <<measuring, records>>
        /\ proc' = IF Tester THEN Killed(Labels) ELSE proc
    BY <1>8 DEF Finish, Measured, Stored
  <2>2. \A s \in Labels : proc'[s] # "none" => Alive(s)
    BY <2>1, KilledStops DEF Alive
  <2> QED
    BY <2>1, <2>2, ProcessesChange
<1> QED
  BY <1>2, <1>3, <1>4, <1>5, <1>6, <1>7, <1>8
  DEF RedisBenchStep, run_redis_benchmark, run_memtier_benchmark, RedisBenchmark, MemtierBenchmark,
      RunStep

LEMMA InterruptPromised ==
  ASSUME BenchTypes, NEW signal \in {"INT", "TERM"}, InterruptAB(signal) \/ InterruptServer(signal)
  PROVE  Promised
<1>1. measuring' = Null /\ UNCHANGED records
  BY DEF InterruptAB, InterruptServer, Stored
<1>2. UNCHANGED proc \/ \E S : proc' = Killed(S)
  BY DEF InterruptAB, InterruptServer, _signal_handler, Unhandled
<1>3. \A s \in Labels : proc'[s] # "none" => Alive(s)
  BY <1>2, KilledStops DEF Alive
<1> QED
  BY <1>1, <1>3, GivesUp

LEMMA StepPromised == BenchInv /\ [Next]_vars => Promised
<1> SUFFICES ASSUME BenchInv, [Next]_vars
             PROVE  Promised
  OBVIOUS
<1>0. BenchTypes
  BY DEF BenchInv
<1>1. CASE AB /\ ABStep
  BY <1>0, <1>1, ABPromised DEF BenchInv
<1>2. CASE Archive /\ ArchiveStep
  BY <1>0, <1>2, ArchivePromised DEF BenchInv, Archive
<1>3. CASE Suite /\ RedisBenchStep
  BY <1>0, <1>3, SuitePromised DEF BenchInv
<1>4. CASE Compare
  <2>1. CompareInv /\ CompareInv'
    BY <1>0, <1>4, CompareKeeps DEF BenchInv
  <2> QED
    BY <2>1, ProcessesChange DEF CompareInv, CompareWhere
<1>5. CASE \E signal \in {"INT", "TERM"} : InterruptAB(signal) \/ InterruptServer(signal)
  BY <1>0, <1>5, InterruptPromised
<1>6. CASE Machine \/ Validate \/ UNCHANGED vars
  <2>1. /\ UNCHANGED <<measuring, records>>
        /\ \A s \in Labels : proc'[s] # "none" => Alive(s)
    BY <1>0, <1>6, MachineStops, ValidateOnly DEF vars, hostVars, Alive
  <2> QED
    BY <2>1, ProcessesChange
<1> QED
  BY <1>0, <1>1, <1>2, <1>3, <1>4, <1>5, <1>6, FamilySteps DEF BenchTypes

\* Every session of every program tries each configuration once, measures only what it has
\* found running when it looked, and records nothing but a measurement or a failure:
\* whatever the number of schedulers, sizes, tests and runs.
THEOREM SessionsKeepPromise == Spec => ResultsKeepPromise
<1>1. Init => Promise!Init
  BY DEF Init, HostInit, Promise!Init
<1>2. BenchInv /\ [Next]_vars => [Promise!Next]_Promise!vars
  BY StepPromised DEF Promised, Promise!vars
<1> QED
  BY <1>1, <1>2, BenchInvariant, PTL DEF Spec, ResultsKeepPromise, Promise!Spec

===============================================================================
