----------------------------- MODULE ThreadPool -----------------------------
(***************************************************************************)
(* inc/ThreadPool.h.  Each region between locking and unlocking            *)
(* queue_mutex is one action: everything it touches is guarded by that     *)
(* mutex.  Going to sleep on `condition` releases the mutex in the same    *)
(* step, as std::condition_variable::wait does; the notifications happen   *)
(* after the unlock, so each is a step of its own.                         *)
(***************************************************************************)
EXTENDS Naturals, Sequences, FiniteSets

CONSTANTS Workers,    \* the threads the constructor launches
          Callers,    \* threads that call enqueue
          Tasks,      \* packaged tasks, one fresh one per call
          NoTask      \* "holds no task"

ASSUME ThreadPoolAssumption ==
    /\ IsFiniteSet(Workers) /\ Workers # {}
    /\ IsFiniteSet(Callers)
    /\ NoTask \notin Tasks

VARIABLES
    tasks,     \* std::queue tasks
    stop,      \* bool stop
    worker,    \* where each worker is: see WorkerPC
    held,      \* the task each worker moved out of the queue
    caller,    \* where each caller of enqueue is: "idle" or "notify"
    owner,     \* where the owner is in ~ThreadPool
    done       \* tasks whose task() call has returned

vars == <<tasks, stop, worker, held, caller, owner, done>>

\* "lock": about to take queue_mutex and test the predicate;
\* "asleep": inside condition.wait; "run": inside task(); "exit": returned.
WorkerPC == {"lock", "asleep", "run", "exit"}

\* "live", then in the destructor "stopped" (stop set), "joining" (notified),
\* and "gone" once every worker has been joined.
OwnerPC == {"live", "stopped", "joining", "gone"}

Asleep    == {w \in Workers : worker[w] = "asleep"}
Awake     == {w \in Workers : worker[w] = "lock"}
Busy      == {w \in Workers : worker[w] = "run"}
Notifying == {c \in Callers : caller[c] = "notify"}

Queued   == {tasks[i] : i \in 1..Len(tasks)}
Running  == {held[w] : w \in Busy}
Accepted == Queued \cup Running \cup done

TypeOK ==
    /\ tasks \in Seq(Tasks)
    /\ stop \in BOOLEAN
    /\ worker \in [Workers -> WorkerPC]
    /\ held \in [Workers -> Tasks \cup {NoTask}]
    /\ caller \in [Callers -> {"idle", "notify"}]
    /\ owner \in OwnerPC
    /\ done \subseteq Tasks

Init ==
    /\ tasks = <<>>
    /\ stop = FALSE
    /\ worker = [w \in Workers |-> "lock"]
    /\ held = [w \in Workers |-> NoTask]
    /\ caller = [c \in Callers |-> "idle"]
    /\ owner = "live"
    /\ done = {}

-----------------------------------------------------------------------------
(* The worker's loop.                                                      *)

Sleep(w) ==
    /\ worker[w] = "lock"
    /\ ~stop /\ tasks = <<>>
    /\ worker' = [worker EXCEPT ![w] = "asleep"]
    /\ UNCHANGED <<tasks, stop, held, caller, owner, done>>

\* A condition variable may return from wait without a notification.
SpuriousWake(w) ==
    /\ worker[w] = "asleep"
    /\ worker' = [worker EXCEPT ![w] = "lock"]
    /\ UNCHANGED <<tasks, stop, held, caller, owner, done>>

ExitOnStop(w) ==       \* mutant of Exit: leaves the queue unserved
    /\ worker[w] = "lock"
    /\ stop
    /\ worker' = [worker EXCEPT ![w] = "exit"]
    /\ UNCHANGED <<tasks, stop, held, caller, owner, done>>

Exit(w) ==
    /\ worker[w] = "lock"
    /\ stop /\ tasks = <<>>
    /\ worker' = [worker EXCEPT ![w] = "exit"]
    /\ UNCHANGED <<tasks, stop, held, caller, owner, done>>

TakeWithoutPop(w) ==   \* mutant of Take: front() without pop()
    /\ worker[w] = "lock"
    /\ tasks # <<>>
    /\ held' = [held EXCEPT ![w] = Head(tasks)]
    /\ worker' = [worker EXCEPT ![w] = "run"]
    /\ UNCHANGED <<tasks, stop, caller, owner, done>>

Take(w) ==
    /\ worker[w] = "lock"
    /\ tasks # <<>>
    /\ held' = [held EXCEPT ![w] = Head(tasks)]
    /\ tasks' = Tail(tasks)
    /\ worker' = [worker EXCEPT ![w] = "run"]
    /\ UNCHANGED <<stop, caller, owner, done>>

Return(w) ==
    /\ worker[w] = "run"
    /\ done' = done \cup {held[w]}
    /\ held' = [held EXCEPT ![w] = NoTask]
    /\ worker' = [worker EXCEPT ![w] = "lock"]
    /\ UNCHANGED <<tasks, stop, caller, owner>>

-----------------------------------------------------------------------------
(* enqueue.                                                                *)

Push(c, t) ==
    /\ caller[c] = "idle"
    /\ owner # "gone"
    /\ ~stop
    /\ t \notin Accepted
    /\ tasks' = Append(tasks, t)
    /\ caller' = [caller EXCEPT ![c] = "notify"]
    /\ UNCHANGED <<stop, worker, held, owner, done>>

\* The exception leaves the pool as it was.
Reject(c) ==
    /\ caller[c] = "idle"
    /\ owner # "gone"
    /\ stop
    /\ UNCHANGED vars

\* notify_one wakes some sleeper, or does nothing when nobody sleeps.
NotifyLost(c) ==       \* mutant of NotifyOne: the call is missing
    /\ caller[c] = "notify"
    /\ caller' = [caller EXCEPT ![c] = "idle"]
    /\ UNCHANGED <<tasks, stop, worker, held, owner, done>>

NotifyOne(c) ==
    /\ caller[c] = "notify"
    /\ caller' = [caller EXCEPT ![c] = "idle"]
    /\ \/ Asleep = {} /\ UNCHANGED worker
       \/ \E w \in Asleep : worker' = [worker EXCEPT ![w] = "lock"]
    /\ UNCHANGED <<tasks, stop, held, owner, done>>

-----------------------------------------------------------------------------
(* ~ThreadPool.                                                            *)

Stop ==
    /\ owner = "live"
    /\ stop' = TRUE
    /\ owner' = "stopped"
    /\ UNCHANGED <<tasks, worker, held, caller, done>>

NotifyAllAsOne ==      \* mutant of NotifyAll: notify_one in its place
    /\ owner = "stopped"
    /\ owner' = "joining"
    /\ \/ Asleep = {} /\ UNCHANGED worker
       \/ \E w \in Asleep : worker' = [worker EXCEPT ![w] = "lock"]
    /\ UNCHANGED <<tasks, stop, held, caller, done>>

NotifyAll ==
    /\ owner = "stopped"
    /\ worker' = [w \in Workers |->
                    IF worker[w] = "asleep" THEN "lock" ELSE worker[w]]
    /\ owner' = "joining"
    /\ UNCHANGED <<tasks, stop, held, caller, done>>

\* The loop of join() calls returns when the last worker has returned.
Join ==
    /\ owner = "joining"
    /\ \A w \in Workers : worker[w] = "exit"
    /\ owner' = "gone"
    /\ UNCHANGED <<tasks, stop, worker, held, caller, done>>

-----------------------------------------------------------------------------
WorkerStep(w) == Sleep(w) \/ Exit(w) \/ Take(w) \/ Return(w)

Next ==
    \/ \E w \in Workers : WorkerStep(w) \/ SpuriousWake(w)
    \/ \E c \in Callers : Reject(c) \/ NotifyOne(c)
    \/ \E c \in Callers, t \in Tasks : Push(c, t)
    \/ Stop
    \/ NotifyAll
    \/ Join

Spec == Init /\ [][Next]_vars

(***************************************************************************)
(* The operating system schedules every thread, tasks return, and a        *)
(* destructor that was entered goes on.  Nobody has to call enqueue, enter *)
(* the destructor, or be woken spuriously.                                 *)
(***************************************************************************)
FairSpec ==
    /\ Spec
    /\ \A w \in Workers : WF_vars(WorkerStep(w))
    /\ \A c \in Callers : WF_vars(NotifyOne(c))
    /\ WF_vars(NotifyAll)
    /\ WF_vars(Join)

-----------------------------------------------------------------------------
(* Properties.                                                             *)

\* No wakeup is lost, and none is too few: while some worker sleeps, every
\* queued task has a worker on its way to the queue or a notify_one still to
\* come, so enqueueing k tasks puts k workers to work.
WakeupPerTask ==
    Asleep # {} => Len(tasks) <= Cardinality(Awake) + Cardinality(Notifying)

\* Once the destructor has called notify_all, no worker sleeps again: the
\* joins that follow wait only for workers that are still moving.
NobodySleepsThroughStop ==
    owner \in {"joining", "gone"} => Asleep = {}

\* Together: a worker sleeps only while nothing needs it, neither a task nor
\* the destructor (the two notifications, both made after the unlock).
NoWakeupLost == WakeupPerTask /\ NobodySleepsThroughStop

\* A worker leaves only a stopped pool whose queue it has seen empty, and
\* no task can follow, so the destructor leaves no accepted task unrun.
DrainedBeforeGone ==
    /\ owner = "gone" => Queued \cup Running = {}
    /\ (\E w \in Workers : worker[w] = "exit") => stop /\ tasks = <<>>

\* A task is in one place only: once in the queue, or with one worker, or
\* done.  (std::function is moved out and popped under the same lock.)
RunOnce ==
    /\ \A i, j \in 1..Len(tasks) : tasks[i] = tasks[j] => i = j
    /\ \A w, x \in Busy : held[w] = held[x] => w = x
    /\ Queued \cap Running = {}
    /\ (Queued \cup Running) \cap done = {}

\* Every task the pool accepted is run to completion, also when the
\* destructor is entered while it is queued.
AcceptedIsRun == \A t \in Tasks : (t \in Accepted) ~> (t \in done)

\* A destructor that was entered returns.
DestructorReturns == (owner = "stopped") ~> (owner = "gone")

\* The pool implements TaskPool: FIFO start, bounded parallelism, one run per
\* task, drained shutdown, and the fairness TaskPool promises.
Pool == INSTANCE TaskPool WITH
            PoolSize <- Cardinality(Workers),
            queue    <- tasks,
            running  <- Running,
            phase    <- IF owner = "live" THEN "open"
                        ELSE IF owner = "gone" THEN "closed" ELSE "closing"

ImplementsTaskPool == Pool!FairSpec

=============================================================================
