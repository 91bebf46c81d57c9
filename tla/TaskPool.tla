------------------------------ MODULE TaskPool ------------------------------
(***************************************************************************)
(* What inc/ThreadPool.h promises the code that uses it, without threads,  *)
(* mutex or condition variable: a FIFO of accepted tasks, at most PoolSize *)
(* of them running at a time, each run once, and a destructor that returns *)
(* only when nothing is left to run.  ThreadPool.tla implements this       *)
(* module; Pipeline.tla uses it as the pool behind TransCoder.             *)
(***************************************************************************)
EXTENDS Naturals, Sequences, FiniteSets

CONSTANTS Tasks,      \* what can be enqueued; every call makes a fresh task
          PoolSize    \* the number of worker threads, at least one

VARIABLES queue,      \* tasks accepted and not started, oldest first
          running,    \* tasks some worker is executing
          done,       \* tasks that returned
          phase       \* "open", "closing" (destructor entered) or "closed"

vars == <<queue, running, done, phase>>

Queued    == {queue[i] : i \in 1..Len(queue)}
Accepted  == Queued \cup running \cup done

TypeOK ==
    /\ queue \in Seq(Tasks)
    /\ running \subseteq Tasks
    /\ done \subseteq Tasks
    /\ phase \in {"open", "closing", "closed"}

Init ==
    /\ queue = <<>>
    /\ running = {}
    /\ done = {}
    /\ phase = "open"

Submit(t) ==
    /\ phase = "open"
    /\ t \notin Accepted
    /\ queue' = Append(queue, t)
    /\ UNCHANGED <<running, done, phase>>

\* Tasks start in the order they were accepted.
Start ==
    /\ queue # <<>>
    /\ Cardinality(running) < PoolSize
    /\ running' = running \cup {Head(queue)}
    /\ queue' = Tail(queue)
    /\ UNCHANGED <<done, phase>>

Finish(t) ==
    /\ t \in running
    /\ running' = running \ {t}
    /\ done' = done \cup {t}
    /\ UNCHANGED <<queue, phase>>

Shutdown ==
    /\ phase = "open"
    /\ phase' = "closing"
    /\ UNCHANGED <<queue, running, done>>

\* The destructor joins the workers, so it returns over an empty pool only.
Close ==
    /\ phase = "closing"
    /\ queue = <<>>
    /\ running = {}
    /\ phase' = "closed"
    /\ UNCHANGED <<queue, running, done>>

Next ==
    \/ \E t \in Tasks : Submit(t) \/ Finish(t)
    \/ Start
    \/ Shutdown
    \/ Close

Spec == Init /\ [][Next]_vars

\* Every task returns and no worker sleeps while there is work.
FairSpec ==
    /\ Spec
    /\ WF_vars(Start)
    /\ \A t \in Tasks : WF_vars(Finish(t))
    /\ WF_vars(Close)

=============================================================================
