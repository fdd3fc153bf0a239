------------------------------ MODULE EzThreadPool ------------------------------
(***************************************************************************)
(* ez::thread_pool of myutils/include/ez/thread_pool.hpp: workers that poll *)
(* a bounded ez::queue, sleeping 500 ms when it is empty, until exit_ is    *)
(* set.  A post on a full queue drops the task, a shutdown abandons what is *)
(* queued; in both cases the future that was handed out is broken.          *)
(***************************************************************************)
EXTENDS EzQueue, FiniteSets

CONSTANTS Worker,       \* the threads that may be in threads_
          Poster,       \* the threads outside the pool that post tasks
          Task,         \* the tasks that may be posted
          NoTask,       \* no task
          MaxItem,      \* the constructor's max_item
          ThreadNums    \* the values of thread_num a caller may pass the constructor

ASSUME SizeAssumption ==
    /\ MaxItem \in Nat
    /\ ThreadNums \subseteq Nat
    /\ IsFiniteSet(Worker)

ASSUME NoTaskAssumption == NoTask \notin Task

ASSUME ThreadAssumption == Worker \cap Poster = {}

VARIABLES
    owner,      \* where the thread that constructs and destroys the pool is
    threadNum,  \* the constructor's thread_num
    exiting,    \* exit_
    queue,      \* queue_
    threads,    \* the threads in threads_
    pc,         \* where each worker is in worker_loop
    cur,        \* the task each worker popped
    future,     \* what the future of each task holds
    late        \* history: the workers that started a task after exit_ was set

vars == <<owner, threadNum, exiting, queue, threads, pc, cur, future, late>>

Init ==
    /\ owner = "construct"
    /\ threadNum \in ThreadNums
    /\ exiting = FALSE
    /\ queue = <<>>
    /\ threads = {}
    /\ pc = [w \in Worker |-> "unborn"]
    /\ cur = [w \in Worker |-> NoTask]
    /\ future = [t \in Task |-> "none"]
    /\ late = {}

-------------------------------------------------------------------------------
(* The constructor.                                                        *)

ThreadNumValid == threadNum > 0 /\ threadNum < 1000

ConstructThrows ==
    /\ owner = "construct"
    /\ ~ThreadNumValid
    /\ owner' = "thrown"
    /\ UNCHANGED <<threadNum, exiting, queue, threads, pc, cur, future, late>>

StartWorker(w) ==
    /\ owner = "construct"
    /\ ThreadNumValid
    /\ Cardinality(threads) < threadNum
    /\ w \in Worker \ threads
    /\ threads' = threads \cup {w}
    /\ pc' = [pc EXCEPT ![w] = "pop"]
    /\ UNCHANGED <<threadNum, owner, exiting, queue, cur, future, late>>

Constructed ==
    /\ owner = "construct"
    /\ ThreadNumValid
    /\ Cardinality(threads) = threadNum
    /\ owner' = "live"
    /\ UNCHANGED <<threadNum, exiting, queue, threads, pc, cur, future, late>>

-------------------------------------------------------------------------------
(* post_work_task, by a thread outside the pool or by a running task.  It   *)
(* tests neither exit_ nor what push_back returns.                         *)

MayPost(c) == IF c \in Poster THEN owner = "live" ELSE pc[c] = "run"

PostWorkTask(c, t) ==
    /\ MayPost(c)
    /\ future[t] = "none"
    /\ LET push == PushBack(queue, t, MaxItem)
       IN  /\ queue' = push.queue
           /\ future' = [future EXCEPT ![t] = IF push.ok THEN "pending" ELSE "broken"]
    /\ UNCHANGED <<threadNum, owner, exiting, threads, pc, cur, late>>

-------------------------------------------------------------------------------
(* worker_loop and process_next_item.                                      *)

PopItem(w) ==
    /\ pc[w] = "pop"
    /\ LET pop == PopFront(queue, NoTask)
       IN  /\ queue' = pop.queue
           /\ cur' = [cur EXCEPT ![w] = pop.item]
           /\ pc' = [pc EXCEPT ![w] = IF pop.ok THEN "run" ELSE "sleep"]
           /\ future' = IF pop.ok THEN [future EXCEPT ![pop.item] = "running"]
                                  ELSE future
           /\ late' = IF pop.ok /\ exiting THEN late \cup {w} ELSE late
    /\ UNCHANGED <<threadNum, owner, exiting, threads>>

\* process_next_item returning FALSE on an empty queue.
SleepLeaves(w) ==
    /\ pc[w] = "sleep"
    /\ pc' = [pc EXCEPT ![w] = "exited"]
    /\ UNCHANGED <<threadNum, owner, exiting, queue, threads, cur, future, late>>

Sleep(w) ==
    /\ pc[w] = "sleep"
    /\ pc' = [pc EXCEPT ![w] = "check"]
    /\ UNCHANGED <<threadNum, owner, exiting, queue, threads, cur, future, late>>

RunTask(w) ==
    /\ pc[w] = "run"
    /\ pc' = [pc EXCEPT ![w] = "check"]
    /\ cur' = [cur EXCEPT ![w] = NoTask]
    /\ future' = [future EXCEPT ![cur[w]] = "done"]
    /\ UNCHANGED <<threadNum, owner, exiting, queue, threads, late>>

LeaveOrPop(w, leave) ==
    /\ pc[w] = "check"
    /\ pc' = [pc EXCEPT ![w] = IF leave THEN "exited" ELSE "pop"]
    /\ UNCHANGED <<threadNum, owner, exiting, queue, threads, cur, future, late>>

CheckNever(w) == LeaveOrPop(w, FALSE)
CheckExit(w) == LeaveOrPop(w, exiting)

-------------------------------------------------------------------------------
(* shutdown() may be called at any time; the destructor calls it, joins the *)
(* threads, and the queue destroyed with the object breaks what it holds.   *)

Shutdown ==
    /\ owner = "live"
    /\ exiting' = TRUE
    /\ UNCHANGED <<threadNum, owner, queue, threads, pc, cur, future, late>>

Destroy ==
    /\ owner = "live"
    /\ exiting' = TRUE
    /\ owner' = "join"
    /\ UNCHANGED <<threadNum, queue, threads, pc, cur, future, late>>

ReleaseMembers ==
    /\ owner = "join"
    /\ owner' = "destroyed"
    /\ queue' = <<>>
    /\ future' = [t \in Task |-> IF future[t] = "pending" THEN "broken" ELSE future[t]]
    /\ UNCHANGED <<threadNum, exiting, threads, pc, cur, late>>

JoinSkipped == ReleaseMembers
Join == (\A w \in threads : pc[w] = "exited") /\ ReleaseMembers

-------------------------------------------------------------------------------
WorkerStep(w) == PopItem(w) \/ Sleep(w) \/ RunTask(w) \/ CheckExit(w)

OwnerStep ==
    \/ \E w \in Worker : StartWorker(w)
    \/ ConstructThrows
    \/ Constructed
    \/ Join

Next ==
    \/ OwnerStep
    \/ Shutdown
    \/ Destroy
    \/ \E c \in Poster \cup Worker, t \in Task : PostWorkTask(c, t)
    \/ \E w \in Worker : WorkerStep(w)

Spec == Init /\ [][Next]_vars

\* Threads that can run keep running; nobody has to post, to shut down or
\* to destroy the pool.
FairSpec ==
    /\ Spec
    /\ WF_vars(OwnerStep)
    /\ \A w \in Worker : WF_vars(WorkerStep(w))

-------------------------------------------------------------------------------
(* Properties.                                                             *)

TypeOK ==
    /\ owner \in {"construct", "thrown", "live", "join", "destroyed"}
    /\ threadNum \in ThreadNums
    /\ exiting \in BOOLEAN
    /\ queue \in Seq(Task)
    /\ threads \in SUBSET Worker
    /\ pc \in [Worker -> {"unborn", "pop", "sleep", "run", "check", "exited"}]
    /\ cur \in [Worker -> Task \cup {NoTask}]
    /\ \A w \in Worker : pc[w] = "run" => cur[w] \in Task
    /\ future \in [Task -> {"none", "pending", "running", "done", "broken"}]
    /\ late \in SUBSET Worker

\* The queue never exceeds max_item and holds exactly the tasks whose
\* futures are pending, each once, however posts and pops interleave.
QueueExact ==
    /\ Len(queue) <= MaxItem
    /\ \A i \in 1..Len(queue) : future[queue[i]] = "pending"
    /\ \A i, j \in 1..Len(queue) : queue[i] = queue[j] => i = j
    /\ \A t \in Task : future[t] = "pending" => \E i \in 1..Len(queue) : queue[i] = t

\* After shutdown a worker starts at most the one task it was about to pop:
\* shutdown does not drain the queue.
AtMostOneLateStart ==
    [][\A w \in late : pc'[w] = "run" => pc[w] = "run"]_vars

\* The pool keeps the promise of TaskPool with tasks that may be dropped:
\* a dropped task has a broken future and never runs, the others run once,
\* and nothing is running or pending when the object is gone.
Promise == INSTANCE TaskPool WITH closed <- (owner = "destroyed"), MayDrop <- TRUE

KeepsPromise == Promise!Spec

\* A task in the queue of a pool that is not shut down is popped in time by
\* a polling worker; no wake-up is involved that could be missed.
PendingTaskRuns ==
    \A t \in Task : future[t] = "pending" ~> (future[t] = "done" \/ exiting)

\* The destructor always returns: polling workers see exit_ in bounded time.
DestructorReturns == owner = "join" ~> owner = "destroyed"

================================================================================
