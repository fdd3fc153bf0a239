----------------------------- MODULE StdThreadPool -----------------------------
(***************************************************************************)
(* std::threadpool of Common/ThreadPool.hpp: a fixed set of worker threads, *)
(* a task queue guarded by _lock, a condition variable _task_cv, an atomic  *)
(* stop flag _run and an atomic counter _idlThrNum of idle threads.         *)
(*                                                                          *)
(* Tasks are committed by client threads while the object lives and by the  *)
(* tasks themselves while a worker runs them, during the destructor too.    *)
(* _lock is held across two states only between the evaluation of the wait  *)
(* predicate and the blocking of the thread (pc "block"); every other       *)
(* critical section is one step, so the lock is free when no worker is      *)
(* there.  THREADPOOL_AUTO_GROW is not defined, as in the source.           *)
(***************************************************************************)
EXTENDS Integers, Sequences, FiniteSets

CONSTANTS Worker,       \* the threads that may ever be in _pool
          Client,       \* the threads outside the pool that call commit
          Task,         \* the tasks that may be committed
          NoTask,       \* no task
          InitSize,     \* the constructor's size, kept in _initSize
          MaxThreads,   \* THREADPOOL_MAX_NUM
          MaxSpurious   \* bound: spurious wake-ups of the condition variable

ASSUME WorkerAssumption ==
    /\ IsFiniteSet(Worker)
    /\ Worker \cap Client = {}
    /\ InitSize \in Nat
    /\ MaxThreads \in Nat
    /\ InitSize <= Cardinality(Worker) \/ MaxThreads <= Cardinality(Worker)

ASSUME NoTaskAssumption == NoTask \notin Task

ASSUME SpuriousAssumption == MaxSpurious \in Nat

Caller == Client \cup Worker

VARIABLES
    owner,     \* where the thread that constructs and destroys the pool is
    togo,      \* addThread's parameter size, counted down
    pool,      \* the threads in _pool
    run,       \* _run
    tasks,     \* _tasks
    idle,      \* _idlThrNum
    pc,        \* where each worker is in its loop
    cur,       \* the task each worker took
    call,      \* where each caller is inside commit
    arg,       \* the task each caller is committing
    status,    \* what became of each task
    spurious   \* spurious wake-ups so far

vars == <<owner, togo, pool, run, tasks, idle, pc, cur, call, arg, status, spurious>>

ownerVars == <<owner, togo, pool, run>>
callVars  == <<call, arg>>

Waiting == {w \in Worker : pc[w] = "waiting"}
LockFree == \A w \in Worker : pc[w] # "block"

Init ==
    /\ owner = "grow"
    /\ togo = InitSize
    /\ pool = {}
    /\ run = TRUE
    /\ tasks = <<>>
    /\ idle = 0
    /\ pc = [w \in Worker |-> "unborn"]
    /\ cur = [w \in Worker |-> NoTask]
    /\ call = [c \in Caller |-> "none"]
    /\ arg = [c \in Caller |-> NoTask]
    /\ status = [t \in Task |-> "new"]
    /\ spurious = 0

-------------------------------------------------------------------------------
(* The constructor: addThread(size) starts a thread, then counts it idle.  *)

MoreThreads == Cardinality(pool) < MaxThreads /\ togo > 0

StartThread(w) ==
    /\ owner = "grow"
    /\ w \in Worker \ pool
    /\ pool' = pool \cup {w}
    /\ pc' = [pc EXCEPT ![w] = "top"]
    /\ togo' = togo - 1
    /\ owner' = "count"
    /\ UNCHANGED <<run, tasks, idle, cur, callVars, status, spurious>>

AddThread(w) == MoreThreads /\ StartThread(w)

CountThread ==
    /\ owner = "count"
    /\ LockFree
    /\ idle' = idle + 1
    /\ owner' = "grow"
    /\ UNCHANGED <<togo, pool, run, tasks, pc, cur, callVars, status, spurious>>

Constructed ==
    /\ owner = "grow"
    /\ ~MoreThreads
    /\ owner' = "live"
    /\ UNCHANGED <<togo, pool, run, tasks, idle, pc, cur, callVars, status, spurious>>

-------------------------------------------------------------------------------
(* commit: test _run, enqueue under the lock, notify one waiting thread.   *)
(* A client may call only while the object lives; a worker may call from   *)
(* inside the task it runs.                                                *)

CanCommit(c) ==
    /\ call[c] = "none"
    /\ IF c \in Client THEN owner = "live" ELSE pc[c] = "run"

CommitCheck(c, t) ==
    /\ CanCommit(c)
    /\ status[t] = "new"
    /\ run
    /\ call' = [call EXCEPT ![c] = "checked"]
    /\ arg' = [arg EXCEPT ![c] = t]
    /\ status' = [status EXCEPT ![t] = "claimed"]
    /\ UNCHANGED <<ownerVars, tasks, idle, pc, cur, spurious>>

CommitThrows(c, t) ==
    /\ CanCommit(c)
    /\ status[t] = "new"
    /\ ~run
    /\ status' = [status EXCEPT ![t] = "refused"]
    /\ UNCHANGED <<ownerVars, tasks, idle, pc, cur, callVars, spurious>>

CommitPush(c) ==
    /\ call[c] = "checked"
    /\ LockFree
    /\ tasks' = Append(tasks, arg[c])
    /\ status' = [status EXCEPT ![arg[c]] = "queued"]
    /\ call' = [call EXCEPT ![c] = "pushed"]
    /\ UNCHANGED <<ownerVars, idle, pc, cur, arg, spurious>>

WakeOne ==
    \/ Waiting = {} /\ UNCHANGED pc
    \/ \E w \in Waiting : pc' = [pc EXCEPT ![w] = "top"]

WakeAll == pc' = [w \in Worker |-> IF pc[w] = "waiting" THEN "top" ELSE pc[w]]

CommitReturn(c) ==
    /\ call' = [call EXCEPT ![c] = "none"]
    /\ arg' = [arg EXCEPT ![c] = NoTask]
    /\ UNCHANGED <<ownerVars, tasks, idle, cur, status, spurious>>

CommitNoNotify(c) == call[c] = "pushed" /\ UNCHANGED pc /\ CommitReturn(c)
CommitNotify(c) == call[c] = "pushed" /\ WakeOne /\ CommitReturn(c)

-------------------------------------------------------------------------------
(* The worker's loop.  At "top" it takes the lock and evaluates the wait    *)
(* predicate !_run || !_tasks.empty().                                     *)

\* A wait without the stop flag in its predicate (a bug the source avoids).
WaitTestIgnoresStop(w) ==
    /\ pc[w] = "top"
    /\ LockFree
    /\ tasks = <<>>
    /\ pc' = [pc EXCEPT ![w] = "block"]
    /\ UNCHANGED <<ownerVars, tasks, idle, cur, callVars, status, spurious>>

\* The predicate is false: the thread keeps the lock until it blocks.
WaitTest(w) ==
    /\ pc[w] = "top"
    /\ LockFree
    /\ tasks = <<>>
    /\ run
    /\ pc' = [pc EXCEPT ![w] = "block"]
    /\ UNCHANGED <<ownerVars, tasks, idle, cur, callVars, status, spurious>>

\* condition_variable::wait releases the lock and blocks in one step.
Block(w) ==
    /\ pc[w] = "block"
    /\ pc' = [pc EXCEPT ![w] = "waiting"]
    /\ UNCHANGED <<ownerVars, tasks, idle, cur, callVars, status, spurious>>

SpuriousWakeup(w) ==
    /\ pc[w] = "waiting"
    /\ spurious < MaxSpurious
    /\ spurious' = spurious + 1
    /\ pc' = [pc EXCEPT ![w] = "top"]
    /\ UNCHANGED <<ownerVars, tasks, idle, cur, callVars, status>>

ReturnFromLoop(w) ==
    /\ pc[w] = "top"
    /\ LockFree
    /\ ~run
    /\ pc' = [pc EXCEPT ![w] = "exited"]
    /\ UNCHANGED <<ownerVars, tasks, idle, cur, callVars, status, spurious>>

Exit(w) == tasks = <<>> /\ ReturnFromLoop(w)

TakeHead(w, idleAfter) ==
    /\ pc[w] = "top"
    /\ LockFree
    /\ tasks # <<>>
    /\ idle' = idleAfter
    /\ cur' = [cur EXCEPT ![w] = Head(tasks)]
    /\ status' = [status EXCEPT ![Head(tasks)] = "running"]
    /\ tasks' = Tail(tasks)
    /\ pc' = [pc EXCEPT ![w] = "run"]
    /\ UNCHANGED <<ownerVars, callVars, spurious>>

Take(w) == TakeHead(w, idle - 1)

\* A thread above the initial size ends when others are idle; addThread
\* never grows _pool past _initSize, so no thread ever does.
Surplus == idle > 0 /\ Cardinality(pool) > InitSize

Finish(w) ==
    /\ pc[w] = "run"
    /\ call[w] = "none"
    /\ status' = [status EXCEPT ![cur[w]] = "done"]
    /\ cur' = [cur EXCEPT ![w] = NoTask]
    /\ pc' = [pc EXCEPT ![w] = IF Surplus THEN "exited" ELSE "recount"]
    /\ UNCHANGED <<ownerVars, tasks, idle, callVars, spurious>>

Recount(w) ==
    /\ pc[w] = "recount"
    /\ LockFree
    /\ idle' = idle + 1
    /\ pc' = [pc EXCEPT ![w] = "top"]
    /\ UNCHANGED <<ownerVars, tasks, cur, callVars, status, spurious>>

-------------------------------------------------------------------------------
(* The destructor.  The owner destroys the pool when no client is inside    *)
(* commit; it writes _run without _lock, notifies all, joins every thread.  *)

Stop ==
    /\ owner = "live"
    /\ \A c \in Client : call[c] = "none"
    /\ run' = FALSE
    /\ owner' = "stopped"
    /\ UNCHANGED <<togo, pool, tasks, idle, pc, cur, callVars, status, spurious>>

NotifyAll ==
    /\ owner = "stopped"
    /\ WakeAll
    /\ owner' = "join"
    /\ UNCHANGED <<togo, pool, run, tasks, idle, cur, callVars, status, spurious>>

ReturnFromJoin ==
    /\ owner = "join"
    /\ owner' = "destroyed"
    /\ UNCHANGED <<togo, pool, run, tasks, idle, pc, cur, callVars, status, spurious>>

JoinSkipped == ReturnFromJoin
Join == (\A w \in pool : pc[w] = "exited") /\ ReturnFromJoin

-------------------------------------------------------------------------------
WorkerStep(w) ==
    \/ WaitTest(w)
    \/ Block(w)
    \/ Exit(w)
    \/ Take(w)
    \/ Finish(w)
    \/ Recount(w)

CallStep(c) ==
    \/ CommitPush(c)
    \/ CommitNotify(c)

OwnerStep ==
    \/ \E w \in Worker : AddThread(w)
    \/ CountThread
    \/ Constructed
    \/ NotifyAll
    \/ Join

Next ==
    \/ OwnerStep
    \/ Stop
    \/ \E c \in Caller : CallStep(c)
    \/ \E c \in Caller, t \in Task : CommitCheck(c, t) \/ CommitThrows(c, t)
    \/ \E w \in Worker : WorkerStep(w) \/ SpuriousWakeup(w)

Spec == Init /\ [][Next]_vars

\* Every thread that can run keeps running; nobody has to call commit or
\* the destructor, and no wake-up is owed that was not sent.
Fairness ==
    /\ WF_vars(OwnerStep)
    /\ \A c \in Caller : WF_vars(CallStep(c))
    /\ \A w \in Worker : WF_vars(WorkerStep(w))

FairSpec == Spec /\ Fairness

-------------------------------------------------------------------------------
(* Properties.                                                             *)

\* Every variable has its type; in particular the unsigned counter of
\* addThread never goes below zero and no worker outside _pool runs.
TypeOK ==
    /\ owner \in {"grow", "count", "live", "stopped", "join", "destroyed"}
    /\ togo \in 0..InitSize
    /\ pool \in SUBSET Worker
    /\ run \in BOOLEAN
    /\ tasks \in Seq(Task)
    /\ idle \in Int
    /\ pc \in [Worker -> {"unborn", "top", "block", "waiting", "run", "recount",
                          "exited"}]
    /\ cur \in [Worker -> Task \cup {NoTask}]
    /\ call \in [Caller -> {"none", "checked", "pushed"}]
    /\ arg \in [Caller -> Task \cup {NoTask}]
    /\ status \in [Task -> {"new", "claimed", "queued", "running", "done", "refused"}]
    /\ spurious \in 0..MaxSpurious

Busy == {w \in Worker : pc[w] \in {"run", "recount"}}

\* What idlCount() returns: every started thread that is not between taking
\* a task and coming back counts as idle, the one addThread has started and
\* not yet counted excepted; the count is exact although it is updated by
\* two sides in separate critical sections, and it is never negative.
IdleAccounting ==
    /\ idle + Cardinality(Busy) + (IF owner = "count" THEN 1 ELSE 0)
           = Cardinality(pool)
    /\ idle >= 0

\* The release branch for surplus threads never shrinks this pool: a worker
\* leaves its loop only after the destructor has cleared _run.
NoEarlyExit == run => \A w \in Worker : pc[w] # "exited"

\* "the queue may not be empty when _run == false" (the worker's while):
\* when the destructor returns, every task commit accepted has been run, the
\* ones committed by tasks during the destructor included.
Drained ==
    owner = "destroyed" => \A t \in Task : status[t] \in {"new", "refused", "done"}

\* A pool with at least one thread keeps the promise of TaskPool with no
\* dropped task: each task runs once, after it was accepted, and none is
\* pending or running when the object is gone.
FutureOf(s) ==
    CASE s \in {"new", "claimed"} -> "none"
      [] s = "queued"             -> "pending"
      [] s = "running"            -> "running"
      [] s = "done"               -> "done"
      [] s = "refused"            -> "broken"

Promise == INSTANCE TaskPool
               WITH future  <- [t \in Task |-> FutureOf(status[t])],
                    closed  <- (owner = "destroyed"),
                    MayDrop <- FALSE

KeepsPromise == Promise!Spec

\* Every task commit has put in the queue is eventually run: the notify_one
\* that follows the push, or a worker that is awake, gets to it, whether the
\* pool lives on or is being destroyed.
QueuedTaskRuns == \A t \in Task : status[t] = "queued" ~> status[t] = "done"

\* The destructor's join can hang in one way only: a thread that tested _run
\* before it was cleared and had not blocked yet when notify_all was called.
JoinHangsOnlyOnLostWakeup ==
    (/\ owner = "join"
     /\ \A w \in Worker : pc[w] \notin {"block", "waiting"}) ~> owner = "destroyed"

\* "wait for the tasks to end, provided that the thread is sure to finish"
\* and "wake all threads": the destructor, once called, returns.
DestructorReturns == owner = "stopped" ~> owner = "destroyed"

===============================================================================
