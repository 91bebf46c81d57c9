-------------------------- MODULE ThreadPoolProofs --------------------------
(***************************************************************************)
(* What is proved of ThreadPool for any finite set of workers and callers  *)
(* and any set of tasks: the invariants of the safety run, and that each   *)
(* step of the threads is a step of TaskPool or a stutter.                 *)
(***************************************************************************)
EXTENDS ThreadPool, FiniteSetTheorems, TLAPS

\* A worker holds a task exactly while it runs one.
HeldShape ==
    \A w \in Workers : IF worker[w] = "run" THEN held[w] \in Tasks
                                            ELSE held[w] = NoTask

\* How far the destructor is, and what stop says of it.
StopShape ==
    /\ stop <=> owner # "live"
    /\ owner = "gone" => \A w \in Workers : worker[w] = "exit"

IInv ==
    /\ TypeOK
    /\ HeldShape
    /\ StopShape
    /\ NobodySleepsThroughStop
    /\ DrainedBeforeGone
    /\ RunOnce
    /\ WakeupPerTask

-----------------------------------------------------------------------------
(* Cardinalities of the three sets of threads WakeupPerTask counts.        *)

LEMMA ThreadsFinite ==
    /\ IsFiniteSet(Awake) /\ IsFiniteSet(Asleep) /\ IsFiniteSet(Busy)
    /\ IsFiniteSet(Notifying)
  BY ThreadPoolAssumption, FS_Subset
     DEF ThreadPoolAssumption, Awake, Asleep, Busy, Notifying

LEMMA CountsAreNat ==
    Cardinality(Awake) \in Nat /\ Cardinality(Notifying) \in Nat
  BY ThreadsFinite, FS_CardinalityType

LEMMA CountsStayNat ==
    Cardinality(Awake') \in Nat /\ Cardinality(Notifying') \in Nat
  BY ThreadPoolAssumption, FS_Subset, FS_CardinalityType
     DEF ThreadPoolAssumption, Awake, Notifying

\* Fewer tasks run than there are workers while one of them does not run.
LEMMA IdleWorker ==
    ASSUME NEW w \in Workers, worker[w] # "run"
    PROVE  Cardinality(Running) < Cardinality(Workers)
  <1> DEFINE f == [x \in Busy |-> held[x]]
  <1>1. f \in Surjection(Busy, Running)
    BY DEF Surjection, Running
  <1>2. Cardinality(Running) <= Cardinality(Busy) /\ IsFiniteSet(Running)
    BY <1>1, ThreadsFinite, FS_Surjection
  <1>3. Busy \in SUBSET Workers /\ Busy # Workers
    BY DEF Busy
  <1>4. Cardinality(Busy) < Cardinality(Workers)
    BY <1>3, ThreadPoolAssumption, ThreadsFinite, FS_Subset, FS_CardinalityType
       DEF ThreadPoolAssumption
  <1> QED
    BY <1>2, <1>4, ThreadPoolAssumption, ThreadsFinite, FS_CardinalityType
       DEF ThreadPoolAssumption

-----------------------------------------------------------------------------
LEMMA InitInv == Init => IInv
  <1> SUFFICES ASSUME Init PROVE IInv
    OBVIOUS
  <1>1. TypeOK
    <2>1. stop \in BOOLEAN
      BY Zenon DEF Init
    <2>2. tasks \in Seq(Tasks) /\ done \subseteq Tasks
      BY DEF Init
    <2> QED
      BY <2>1, <2>2 DEF Init, TypeOK, WorkerPC, OwnerPC
  <1>4. HeldShape /\ StopShape /\ NobodySleepsThroughStop
    BY DEF Init, HeldShape, StopShape, NobodySleepsThroughStop
  <1>2. DrainedBeforeGone /\ RunOnce
    BY DEF Init, DrainedBeforeGone, RunOnce, Busy, Queued, Running
  <1>3. WakeupPerTask
    BY CountsAreNat DEF Init, WakeupPerTask
  <1> QED
    BY <1>1, <1>2, <1>3, <1>4 DEF IInv

\* A step in which worker w moves between "lock" and "asleep".
LEMMA DozeInv ==
    ASSUME IInv, NEW w \in Workers, Sleep(w) \/ SpuriousWake(w)
    PROVE  IInv'
  <1>1. /\ UNCHANGED <<tasks, stop, held, caller, owner, done>>
        /\ \/ worker[w] = "lock" /\ worker' = [worker EXCEPT ![w] = "asleep"]
              /\ ~stop /\ tasks = <<>>
           \/ worker[w] = "asleep" /\ worker' = [worker EXCEPT ![w] = "lock"]
    BY DEF Sleep, SpuriousWake
  <1>2. TypeOK' /\ HeldShape' /\ StopShape'
    BY <1>1 DEF IInv, TypeOK, HeldShape, StopShape, WorkerPC
  <1>3. NobodySleepsThroughStop'
    BY <1>1 DEF IInv, TypeOK, StopShape, NobodySleepsThroughStop, Asleep
  <1>4. Busy' = Busy /\ Running' = Running /\ Queued' = Queued
    BY <1>1 DEF IInv, TypeOK, Busy, Running, Queued
  <1>5. DrainedBeforeGone' /\ RunOnce'
    BY <1>1, <1>4 DEF IInv, TypeOK, DrainedBeforeGone, RunOnce
  <1>6. WakeupPerTask'
    <2>1. CASE tasks = <<>>
      BY <2>1, <1>1, CountsStayNat DEF WakeupPerTask
    <2>2. CASE worker[w] = "asleep"
      <3>1. Awake' = Awake \cup {w} /\ w \notin Awake /\ w \in Asleep
        BY <1>1, <2>2 DEF IInv, TypeOK, Awake, Asleep
      <3>2. Cardinality(Awake') = Cardinality(Awake) + 1
        BY <3>1, ThreadsFinite, FS_AddElement
      <3> QED
        BY <3>1, <3>2, <1>1, CountsAreNat
           DEF IInv, TypeOK, WakeupPerTask, Notifying
    <2> QED
      BY <2>1, <2>2, <1>1
  <1> QED
    BY <1>2, <1>3, <1>5, <1>6 DEF IInv

LEMMA ExitInv ==
    ASSUME IInv, NEW w \in Workers, Exit(w)
    PROVE  IInv'
  <1>1. /\ worker[w] = "lock" /\ stop /\ tasks = <<>>
        /\ worker' = [worker EXCEPT ![w] = "exit"]
        /\ UNCHANGED <<tasks, stop, held, caller, owner, done>>
    BY DEF Exit
  <1>2. TypeOK' /\ HeldShape' /\ StopShape'
    BY <1>1 DEF IInv, TypeOK, HeldShape, StopShape, WorkerPC
  <1>3. NobodySleepsThroughStop'
    BY <1>1 DEF IInv, TypeOK, NobodySleepsThroughStop, Asleep
  <1>4. Busy' = Busy /\ Running' = Running /\ Queued' = Queued
    BY <1>1 DEF IInv, TypeOK, Busy, Running, Queued
  <1>5. DrainedBeforeGone' /\ RunOnce'
    BY <1>1, <1>4 DEF IInv, TypeOK, DrainedBeforeGone, RunOnce
  <1>6. WakeupPerTask'
    BY <1>1, CountsStayNat DEF WakeupPerTask
  <1> QED
    BY <1>2, <1>3, <1>5, <1>6 DEF IInv

\* What Take does to the sets of tasks.
LEMMA TakeTasks ==
    ASSUME IInv, NEW w \in Workers, Take(w)
    PROVE  /\ tasks \in Seq(Tasks) /\ tasks # <<>> /\ tasks' = Tail(tasks)
           /\ Head(tasks) \in Queued /\ Head(tasks) \in Tasks
           /\ Queued' = Queued \ {Head(tasks)}
           /\ Busy' = Busy \cup {w} /\ w \notin Busy
           /\ Running' = Running \cup {Head(tasks)}
           /\ \A x \in Busy' : held'[x] = IF x = w THEN Head(tasks) ELSE held[x]
  <1>1. /\ tasks \in Seq(Tasks) /\ tasks # <<>> /\ tasks' = Tail(tasks)
        /\ Len(tasks) \in Nat \ {0} /\ Head(tasks) = tasks[1]
        /\ Len(tasks') = Len(tasks) - 1
        /\ \A i \in 1..Len(tasks') : tasks'[i] = tasks[i + 1]
    BY DEF IInv, TypeOK, Take
  <1>2. Head(tasks) \in Queued /\ Head(tasks) \in Tasks
    BY <1>1 DEF Queued
  <1>3. Queued' = Queued \ {Head(tasks)}
    <2>1. ASSUME NEW i \in 1..Len(tasks')
          PROVE  tasks'[i] \in Queued \ {Head(tasks)}
      BY <1>1 DEF IInv, RunOnce, Queued
    <2>2. ASSUME NEW i \in 1..Len(tasks), tasks[i] # Head(tasks)
          PROVE  tasks[i] \in Queued'
      <3>1. i - 1 \in 1..Len(tasks') /\ tasks'[i - 1] = tasks[i]
        BY <1>1, <2>2
      <3> QED
        BY <3>1 DEF Queued
    <2> QED
      BY <2>1, <2>2 DEF Queued
  <1>4. Busy' = Busy \cup {w} /\ w \notin Busy
    BY DEF IInv, TypeOK, Take, Busy
  <1>5. \A x \in Busy' : held'[x] = IF x = w THEN Head(tasks) ELSE held[x]
    BY <1>4 DEF IInv, TypeOK, Take, Busy
  <1>6. Running' = Running \cup {Head(tasks)}
    BY <1>4, <1>5 DEF Running
  <1> QED
    BY <1>1, <1>2, <1>3, <1>4, <1>5, <1>6

LEMMA TakeInv ==
    ASSUME IInv, NEW w \in Workers, Take(w)
    PROVE  IInv'
  <1>1. /\ worker[w] = "lock"
        /\ worker' = [worker EXCEPT ![w] = "run"]
        /\ held' = [held EXCEPT ![w] = Head(tasks)]
        /\ UNCHANGED <<stop, caller, owner, done>>
    BY DEF Take
  <1>2. TypeOK' /\ HeldShape' /\ StopShape'
    <2>1. tasks' \in Seq(Tasks) /\ Head(tasks) \in Tasks
      BY TakeTasks
    <2>2. TypeOK'
      BY <1>1, <2>1 DEF IInv, TypeOK, WorkerPC
    <2>3. HeldShape' /\ StopShape'
      BY <1>1, <2>1 DEF IInv, TypeOK, HeldShape, StopShape
    <2> QED
      BY <2>2, <2>3
  <1>3. NobodySleepsThroughStop'
    BY <1>1 DEF IInv, TypeOK, NobodySleepsThroughStop, Asleep
  <1>4. DrainedBeforeGone'
    BY <1>1, TakeTasks DEF IInv, TypeOK, StopShape, DrainedBeforeGone
  <1>5. RunOnce'
    <2>1. \A i, j \in 1..Len(tasks') : tasks'[i] = tasks'[j] => i = j
      <3>1. /\ Len(tasks) \in Nat /\ Len(tasks') = Len(tasks) - 1
            /\ \A i \in 1..Len(tasks') : tasks'[i] = tasks[i + 1]
        BY TakeTasks
      <3> QED
        BY <3>1 DEF IInv, RunOnce
    <2>2. \A x \in Busy : held[x] \in Running
      BY DEF Running
    <2>3. \A x, y \in Busy' : held'[x] = held'[y] => x = y
      BY <2>2, TakeTasks DEF IInv, RunOnce
    <2> QED
      BY <2>1, <2>3, <1>1, TakeTasks DEF IInv, RunOnce
  <1>6. WakeupPerTask'
    <2>1. Awake' = Awake \ {w} /\ w \in Awake /\ Asleep' = Asleep
      BY <1>1 DEF IInv, TypeOK, Awake, Asleep
    <2>2. Cardinality(Awake') = Cardinality(Awake) - 1
      BY <2>1, ThreadsFinite, FS_RemoveElement
    <2>3. Notifying' = Notifying
      BY <1>1 DEF Notifying
    <2>4. Len(tasks) \in Nat /\ Len(tasks') = Len(tasks) - 1
      BY TakeTasks
    <2> QED
      BY <2>1, <2>2, <2>3, <2>4, CountsAreNat DEF IInv, WakeupPerTask
  <1> QED
    BY <1>2, <1>3, <1>4, <1>5, <1>6 DEF IInv

\* What Return does to the sets of tasks.
LEMMA ReturnTasks ==
    ASSUME IInv, NEW w \in Workers, Return(w)
    PROVE  /\ held[w] \in Tasks /\ held[w] \in Running
           /\ Queued' = Queued
           /\ Busy' = Busy \ {w}
           /\ Running' = Running \ {held[w]}
           /\ \A x \in Busy' : held'[x] = held[x]
  <1>1. w \in Busy /\ held[w] \in Tasks /\ held[w] \in Running
    BY DEF IInv, HeldShape, Return, Busy, Running
  <1>2. Queued' = Queued
    BY DEF Return, Queued
  <1>3. Busy' = Busy \ {w}
    BY DEF IInv, TypeOK, Return, Busy
  <1>4. \A x \in Busy' : held'[x] = held[x]
    BY <1>3 DEF IInv, TypeOK, Return, Busy
  <1>5. Running' = Running \ {held[w]}
    BY <1>1, <1>3, <1>4 DEF IInv, RunOnce, Running
  <1> QED
    BY <1>1, <1>2, <1>3, <1>4, <1>5

LEMMA ReturnInv ==
    ASSUME IInv, NEW w \in Workers, Return(w)
    PROVE  IInv'
  <1>1. /\ worker[w] = "run"
        /\ done' = done \cup {held[w]}
        /\ held' = [held EXCEPT ![w] = NoTask]
        /\ worker' = [worker EXCEPT ![w] = "lock"]
        /\ UNCHANGED <<tasks, stop, caller, owner>>
    BY DEF Return
  <1>2. TypeOK' /\ HeldShape' /\ StopShape'
    BY <1>1, ReturnTasks DEF IInv, TypeOK, HeldShape, StopShape, WorkerPC
  <1>3. NobodySleepsThroughStop'
    BY <1>1 DEF IInv, TypeOK, NobodySleepsThroughStop, Asleep
  <1>4. DrainedBeforeGone'
    BY <1>1, ReturnTasks DEF IInv, TypeOK, StopShape, DrainedBeforeGone
  <1>5. RunOnce'
    BY <1>1, ReturnTasks DEF IInv, RunOnce
  <1>6. WakeupPerTask'
    <2>1. Awake' = Awake \cup {w} /\ w \notin Awake /\ Asleep' = Asleep
      BY <1>1 DEF IInv, TypeOK, Awake, Asleep
    <2>2. Cardinality(Awake') = Cardinality(Awake) + 1
      BY <2>1, ThreadsFinite, FS_AddElement
    <2>3. Notifying' = Notifying /\ Len(tasks) \in Nat
      BY <1>1 DEF Notifying, IInv, TypeOK
    <2> QED
      BY <2>1, <2>2, <2>3, <1>1, CountsAreNat DEF IInv, WakeupPerTask
  <1> QED
    BY <1>2, <1>3, <1>4, <1>5, <1>6 DEF IInv

LEMMA PushInv ==
    ASSUME IInv, NEW c \in Callers, NEW t \in Tasks, Push(c, t)
    PROVE  IInv'
  <1>1. /\ caller[c] = "idle" /\ ~stop /\ t \notin Accepted
        /\ tasks' = Append(tasks, t)
        /\ caller' = [caller EXCEPT ![c] = "notify"]
        /\ UNCHANGED <<stop, worker, held, owner, done>>
    BY DEF Push
  <1>2. /\ tasks \in Seq(Tasks) /\ tasks' \in Seq(Tasks)
        /\ Len(tasks) \in Nat /\ Len(tasks') = Len(tasks) + 1
        /\ \A i \in 1..Len(tasks) : tasks'[i] = tasks[i]
        /\ tasks'[Len(tasks) + 1] = t
    BY <1>1 DEF IInv, TypeOK
  <1>3. TypeOK' /\ HeldShape' /\ StopShape'
    BY <1>1, <1>2 DEF IInv, TypeOK, HeldShape, StopShape
  <1>4. NobodySleepsThroughStop'
    BY <1>1 DEF IInv, NobodySleepsThroughStop, Asleep
  <1>5. DrainedBeforeGone'
    BY <1>1 DEF IInv, StopShape, DrainedBeforeGone
  <1>6. Busy' = Busy /\ Running' = Running
    BY <1>1 DEF Busy, Running
  <1>7. RunOnce'
    <2>1. Queued' = Queued \cup {t}
      <3>1. ASSUME NEW i \in 1..Len(tasks') PROVE tasks'[i] \in Queued \cup {t}
        BY <1>2 DEF Queued
      <3>2. t \in Queued'
        <4>1. Len(tasks) + 1 \in 1..Len(tasks')
          BY <1>2
        <4> QED
          BY <4>1, <1>2 DEF Queued
      <3>3. ASSUME NEW i \in 1..Len(tasks) PROVE tasks[i] \in Queued'
        <4>1. i \in 1..Len(tasks')
          BY <1>2
        <4> QED
          BY <4>1, <1>2 DEF Queued
      <3> QED
        BY <3>1, <3>2, <3>3 DEF Queued
    <2>2. \A i, j \in 1..Len(tasks') : tasks'[i] = tasks'[j] => i = j
      BY <1>1, <1>2 DEF IInv, RunOnce, Accepted, Queued
    <2> QED
      BY <2>1, <2>2, <1>1, <1>6 DEF IInv, RunOnce, Accepted
  <1>8. WakeupPerTask'
    <2>1. Notifying' = Notifying \cup {c} /\ c \notin Notifying
      BY <1>1 DEF IInv, TypeOK, Notifying
    <2>2. Cardinality(Notifying') = Cardinality(Notifying) + 1
      BY <2>1, ThreadsFinite, FS_AddElement
    <2>3. Awake' = Awake /\ Asleep' = Asleep
      BY <1>1 DEF Awake, Asleep
    <2> QED
      BY <2>2, <2>3, <1>2, CountsAreNat DEF IInv, WakeupPerTask
  <1> QED
    BY <1>3, <1>4, <1>5, <1>7, <1>8 DEF IInv

LEMMA NotifyOneInv ==
    ASSUME IInv, NEW c \in Callers, NotifyOne(c)
    PROVE  IInv'
  <1>1. /\ caller[c] = "notify"
        /\ caller' = [caller EXCEPT ![c] = "idle"]
        /\ UNCHANGED <<tasks, stop, held, owner, done>>
        /\ \/ Asleep = {} /\ worker' = worker
           \/ \E w \in Asleep : worker' = [worker EXCEPT ![w] = "lock"]
    BY DEF NotifyOne
  <1>2. Busy' = Busy /\ Running' = Running /\ Queued' = Queued
    BY <1>1 DEF IInv, TypeOK, Asleep, Busy, Running, Queued
  <1>3. TypeOK' /\ HeldShape' /\ StopShape'
    <2>1. TypeOK'
      BY <1>1 DEF IInv, TypeOK, Asleep, WorkerPC
    <2>2. HeldShape' /\ StopShape'
      BY <1>1 DEF IInv, TypeOK, HeldShape, StopShape, Asleep
    <2> QED
      BY <2>1, <2>2
  <1>4. NobodySleepsThroughStop'
    BY <1>1 DEF IInv, TypeOK, NobodySleepsThroughStop, Asleep
  <1>5. DrainedBeforeGone' /\ RunOnce'
    <2>1. \A w \in Workers : worker'[w] = "exit" => worker[w] = "exit"
      BY <1>1 DEF IInv, TypeOK, Asleep
    <2> QED
      BY <2>1, <1>1, <1>2 DEF IInv, DrainedBeforeGone, RunOnce
  <1>6. WakeupPerTask'
    <2>1. CASE Asleep = {}
      BY <2>1, <1>1 DEF WakeupPerTask, Asleep
    <2>2. ASSUME NEW w \in Asleep, worker' = [worker EXCEPT ![w] = "lock"]
          PROVE  WakeupPerTask'
      <3>1. Awake' = Awake \cup {w} /\ w \notin Awake
        BY <2>2 DEF IInv, TypeOK, Awake, Asleep
      <3>2. Cardinality(Awake') = Cardinality(Awake) + 1
        BY <3>1, ThreadsFinite, FS_AddElement
      <3>3. Notifying' = Notifying \ {c} /\ c \in Notifying
        BY <1>1 DEF IInv, TypeOK, Notifying
      <3>4. Cardinality(Notifying') = Cardinality(Notifying) - 1
        BY <3>3, ThreadsFinite, FS_RemoveElement
      <3>5. Len(tasks) \in Nat /\ Asleep # {}
        BY DEF IInv, TypeOK
      <3> QED
        BY <3>2, <3>4, <3>5, <1>1, CountsAreNat DEF IInv, WakeupPerTask
    <2> QED
      BY <2>1, <2>2, <1>1
  <1> QED
    BY <1>3, <1>4, <1>5, <1>6 DEF IInv

LEMMA OwnerInv ==
    ASSUME IInv, Stop \/ NotifyAll \/ Join
    PROVE  IInv'
  <1>1. CASE Stop
    <2>1. /\ owner = "live" /\ stop' = TRUE /\ owner' = "stopped"
          /\ UNCHANGED <<tasks, worker, held, caller, done>>
      BY <1>1 DEF Stop
    <2>2. Busy' = Busy /\ Running' = Running /\ Queued' = Queued
          /\ Awake' = Awake /\ Asleep' = Asleep /\ Notifying' = Notifying
      BY <2>1 DEF Busy, Running, Queued, Awake, Asleep, Notifying
    <2>3. stop' \in BOOLEAN
      BY <2>1, Zenon
    <2>4. TypeOK'
      BY <2>1, <2>3 DEF IInv, TypeOK, OwnerPC
    <2>5. HeldShape' /\ StopShape' /\ NobodySleepsThroughStop'
      BY <2>1 DEF IInv, HeldShape, StopShape, NobodySleepsThroughStop
    <2>6. DrainedBeforeGone' /\ RunOnce' /\ WakeupPerTask'
      BY <2>1, <2>2 DEF IInv, DrainedBeforeGone, RunOnce, WakeupPerTask
    <2> QED
      BY <2>4, <2>5, <2>6 DEF IInv
  <1>2. CASE NotifyAll
    <2>1. /\ owner = "stopped" /\ owner' = "joining"
          /\ worker' = [w \in Workers |->
                          IF worker[w] = "asleep" THEN "lock" ELSE worker[w]]
          /\ UNCHANGED <<tasks, stop, held, caller, done>>
      BY <1>2 DEF NotifyAll
    <2>2. Busy' = Busy /\ Running' = Running /\ Queued' = Queued
          /\ Asleep' = {}
      BY <2>1 DEF IInv, TypeOK, Busy, Running, Queued, Asleep
    <2>3. TypeOK'
      BY <2>1 DEF IInv, TypeOK, WorkerPC, OwnerPC
    <2>4. HeldShape' /\ StopShape' /\ NobodySleepsThroughStop'
      BY <2>1, <2>2 DEF IInv, TypeOK, HeldShape, StopShape, NobodySleepsThroughStop
    <2>5. DrainedBeforeGone' /\ RunOnce' /\ WakeupPerTask'
      BY <2>1, <2>2 DEF IInv, TypeOK, DrainedBeforeGone, RunOnce, WakeupPerTask
    <2> QED
      BY <2>3, <2>4, <2>5 DEF IInv
  <1>3. CASE Join
    <2>1. /\ owner = "joining" /\ owner' = "gone"
          /\ \A w \in Workers : worker[w] = "exit"
          /\ UNCHANGED <<tasks, stop, worker, held, caller, done>>
      BY <1>3 DEF Join
    <2>2. Busy' = {} /\ Running' = {} /\ Queued' = {} /\ Busy' = Busy
          /\ Asleep' = {}
      <3>1. tasks = <<>>
        BY <2>1, ThreadPoolAssumption
           DEF ThreadPoolAssumption, IInv, DrainedBeforeGone
      <3> QED
        BY <3>1, <2>1 DEF Busy, Running, Queued, Asleep
    <2>3. TypeOK' /\ HeldShape' /\ StopShape' /\ NobodySleepsThroughStop'
      BY <2>1, <2>2 DEF IInv, TypeOK, OwnerPC, HeldShape, StopShape,
                        NobodySleepsThroughStop
    <2>4. DrainedBeforeGone' /\ RunOnce' /\ WakeupPerTask'
      BY <2>1, <2>2 DEF IInv, DrainedBeforeGone, RunOnce, WakeupPerTask
    <2> QED
      BY <2>3, <2>4 DEF IInv
  <1> QED
    BY <1>1, <1>2, <1>3

LEMMA StutterInv == ASSUME IInv, UNCHANGED vars PROVE IInv'
  <1> USE DEF vars
  <1>1. TypeOK' /\ HeldShape' /\ StopShape'
    BY DEF IInv, TypeOK, HeldShape, StopShape
  <1>2. NobodySleepsThroughStop' /\ DrainedBeforeGone' /\ RunOnce' /\ WakeupPerTask'
    <2>1. Busy' = Busy /\ Running' = Running /\ Queued' = Queued
          /\ Awake' = Awake /\ Asleep' = Asleep /\ Notifying' = Notifying
      BY DEF Busy, Running, Queued, Awake, Asleep, Notifying
    <2> QED
      BY <2>1 DEF IInv, NobodySleepsThroughStop, DrainedBeforeGone, RunOnce,
                  WakeupPerTask
  <1> QED
    BY <1>1, <1>2 DEF IInv

\* Every reachable state of the pool satisfies the inductive invariant.
THEOREM Invariance == Spec => []IInv
  <1>1. IInv /\ [Next]_vars => IInv'
    <2> SUFFICES ASSUME IInv, [Next]_vars PROVE IInv'
      OBVIOUS
    <2>1. ASSUME NEW w \in Workers, WorkerStep(w) \/ SpuriousWake(w)
          PROVE  IInv'
      BY <2>1, DozeInv, ExitInv, TakeInv, ReturnInv DEF WorkerStep
    <2>2. ASSUME NEW c \in Callers, Reject(c) \/ NotifyOne(c)
          PROVE  IInv'
      BY <2>2, StutterInv, NotifyOneInv DEF Reject
    <2>3. ASSUME NEW c \in Callers, NEW t \in Tasks, Push(c, t)
          PROVE  IInv'
      BY <2>3, PushInv
    <2> QED
      BY <2>1, <2>2, <2>3, OwnerInv, StutterInv DEF Next
  <1> QED
    BY <1>1, InitInv, PTL DEF Spec

\* Type correctness of the pool.
THEOREM Typed == Spec => []TypeOK
  BY Invariance, PTL DEF IInv

\* For any number of workers, callers and tasks, a worker sleeps only while
\* neither a task nor the destructor needs it.
THEOREM WakeupsKept == Spec => []NoWakeupLost
  <1>1. IInv => NoWakeupLost
    BY DEF IInv, NoWakeupLost
  <1> QED
    BY <1>1, Invariance, PTL

\* The destructor leaves no accepted task unrun, and workers leave only an
\* empty, stopped pool.
THEOREM Drained == Spec => []DrainedBeforeGone
  BY Invariance, PTL DEF IInv

\* No task is in two places, so none is run twice.
THEOREM RunsOnce == Spec => []RunOnce
  BY Invariance, PTL DEF IInv

-----------------------------------------------------------------------------
(* The refinement.  Only the steps inside the mutex that move a task, and  *)
(* the first and the last step of the destructor, are visible in TaskPool. *)

\* The pool implements the safety part of TaskPool.
THEOREM Refinement == Spec => Pool!Spec
  <1> USE DEF Pool!Accepted, Pool!Queued
  <1>1. Init => Pool!Init
    BY DEF Init, Pool!Init, Running, Busy
  <1>2. IInv /\ [Next]_vars => [Pool!Next]_(Pool!vars)
    <2> SUFFICES ASSUME IInv, [Next]_vars PROVE [Pool!Next]_(Pool!vars)
      OBVIOUS
    <2> USE DEF Pool!vars
    <2>1. ASSUME NEW w \in Workers, Sleep(w) \/ SpuriousWake(w) \/ Exit(w)
          PROVE  UNCHANGED Pool!vars
      BY <2>1 DEF Sleep, SpuriousWake, Exit, IInv, TypeOK, Running, Busy
    <2>2. ASSUME NEW w \in Workers, Take(w) PROVE Pool!Start
      <3>1. Cardinality(Running) < Cardinality(Workers)
        BY <2>2, IdleWorker DEF Take
      <3>2. Pool!Cardinality(Running) = Cardinality(Running)
        BY DEF Pool!Cardinality, Cardinality
      <3> QED
        BY <2>2, <3>1, <3>2, TakeTasks DEF Take, Pool!Start
    <2>3. ASSUME NEW w \in Workers, Return(w) PROVE \E t \in Tasks : Pool!Finish(t)
      BY <2>3, ReturnTasks DEF Return, Pool!Finish
    <2>4. ASSUME NEW c \in Callers, Reject(c) \/ NotifyOne(c)
          PROVE  UNCHANGED Pool!vars
      BY <2>4 DEF Reject, NotifyOne, vars, IInv, TypeOK, Running, Busy, Asleep
    <2>5. ASSUME NEW c \in Callers, NEW t \in Tasks, Push(c, t)
          PROVE  Pool!Submit(t)
      BY <2>5 DEF Push, Pool!Submit, Accepted, Queued, Running, Busy, IInv, StopShape
    <2>6. CASE Stop
      BY <2>6 DEF Stop, Pool!Next, Pool!Shutdown, Running, Busy
    <2>7. CASE NotifyAll
      BY <2>7 DEF NotifyAll, IInv, TypeOK, Running, Busy
    <2>8. CASE Join
      BY <2>8, ThreadPoolAssumption
         DEF ThreadPoolAssumption, Join, Pool!Next, Pool!Close, IInv,
             DrainedBeforeGone, Running, Busy
    <2>9. CASE UNCHANGED vars
      BY <2>9 DEF vars, Running, Busy
    <2> QED
      BY <2>1, <2>2, <2>3, <2>4, <2>5, <2>6, <2>7, <2>8, <2>9
         DEF Next, WorkerStep, Pool!Next
  <1> QED
    BY <1>1, <1>2, Invariance, PTL DEF Spec, Pool!Spec

=============================================================================
