------------------------------- MODULE TaskPool -------------------------------
(***************************************************************************)
(* What a thread pool promises the callers who hold its futures, whatever   *)
(* its threads, queue and locks look like.  A task is submitted at most     *)
(* once; it is then pending, running, done (its future holds a value) or    *)
(* broken (its future holds an exception, because the pool refused the task *)
(* or dropped it).  MayDrop says whether closing the pool may break tasks   *)
(* that were accepted: Common/ThreadPool.hpp promises that it may not,      *)
(* myutils' ez::thread_pool abandons its queue.                             *)
(***************************************************************************)
CONSTANTS Task,     \* the tasks callers may submit
          MayDrop   \* TRUE iff closing the pool may break accepted tasks

VARIABLES future,   \* the state of every task's future
          closed    \* TRUE once the pool object has been destroyed

vars == <<future, closed>>

Futures == {"none", "pending", "running", "done", "broken"}

Init ==
    /\ future = [t \in Task |-> "none"]
    /\ closed = FALSE

Move(t, from, to) ==
    /\ future[t] = from
    /\ future' = [future EXCEPT ![t] = to]
    /\ UNCHANGED closed

Submit(t) == ~closed /\ Move(t, "none", "pending")
Refuse(t) == ~closed /\ Move(t, "none", "broken")
Start(t)  == ~closed /\ Move(t, "pending", "running")
Finish(t) == ~closed /\ Move(t, "running", "done")

Close ==
    /\ ~closed
    /\ \A t \in Task : future[t] # "running"
    /\ \A t \in Task : future[t] = "pending" => MayDrop
    /\ closed' = TRUE
    /\ future' = [t \in Task |-> IF future[t] = "pending" THEN "broken"
                                                          ELSE future[t]]

Next ==
    \/ \E t \in Task : Submit(t) \/ Refuse(t) \/ Start(t) \/ Finish(t)
    \/ Close

Spec == Init /\ [][Next]_vars
===============================================================================
