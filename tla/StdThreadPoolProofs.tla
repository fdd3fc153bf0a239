-------------------------- MODULE StdThreadPoolProofs --------------------------
(***************************************************************************)
(* Proofs about StdThreadPool, for any finite set of workers, any clients   *)
(* and any tasks: the counters of the constructor, the ownership of tasks   *)
(* by callers, queue and workers, and that the destructor drains the queue. *)
(***************************************************************************)
EXTENDS StdThreadPool, FiniteSetTheorems, SequenceTheorems, TLAPS

\* A pool that has at least one thread.
ASSUME NonEmptyPool == InitSize > 0 /\ MaxThreads > 0

-------------------------------------------------------------------------------
(* The inductive invariant, in parts.                                      *)

\* addThread has started InitSize - togo threads.
Started == Cardinality(pool) + togo = InitSize

\* Exactly the threads in _pool run; the object is not usable without one.
Born ==
    /\ \A w \in Worker : pc[w] = "unborn" <=> w \notin pool
    /\ owner # "grow" => pool # {}

\* _run is cleared by the destructor, and only then do threads leave.
Stopping ==
    /\ ~run <=> owner \in {"stopped", "join", "destroyed"}
    /\ run => \A w \in Worker : pc[w] # "exited"
    /\ owner = "destroyed" => \A w \in pool : pc[w] = "exited"

\* A caller inside commit is a client of the live pool or a task being run,
\* and it alone owns the task it commits.
Calls ==
    /\ \A c \in Caller : call[c] # "none" =>
           /\ arg[c] \in Task
           /\ c \in Client => owner = "live"
           /\ c \in Worker => pc[c] = "run"
    /\ \A c \in Caller : call[c] = "checked" => status[arg[c]] = "claimed"
    /\ \A c, d \in Caller :
           call[c] = "checked" /\ call[d] = "checked" /\ arg[c] = arg[d] => c = d
    /\ \A t \in Task : status[t] = "claimed" =>
           \E c \in Caller : call[c] = "checked" /\ arg[c] = t

\* The queue holds each queued task once.
Queue ==
    /\ \A i \in 1..Len(tasks) : status[tasks[i]] = "queued"
    /\ \A i, j \in 1..Len(tasks) : tasks[i] = tasks[j] => i = j
    /\ \A t \in Task : status[t] = "queued" => \E i \in 1..Len(tasks) : tasks[i] = t

\* A running task is held by one worker.
Running ==
    /\ \A w \in Worker : pc[w] = "run" => cur[w] \in Task /\ status[cur[w]] = "running"
    /\ \A v, w \in Worker : pc[v] = "run" /\ pc[w] = "run" /\ cur[v] = cur[w] => v = w
    /\ \A t \in Task : status[t] = "running" =>
           \E w \in Worker : pc[w] = "run" /\ cur[w] = t

\* A task in the queue has a thread that will come back for it.
Attended == tasks # <<>> => \E w \in pool : pc[w] # "exited"

\* Until the constructor returns nobody can commit, so no worker is busy.
Building ==
    owner \in {"grow", "count"} =>
        /\ tasks = <<>>
        /\ \A c \in Caller : call[c] = "none"
        /\ Busy = {}

IInv ==
    /\ TypeOK
    /\ Started
    /\ Born
    /\ Stopping
    /\ Calls
    /\ Queue
    /\ Running
    /\ Attended
    /\ Building

-------------------------------------------------------------------------------
(* Counting the threads in _pool.                                          *)

\* Adding a thread to _pool makes it larger by one.
LEMMA PoolGrows ==
    ASSUME TypeOK, NEW w \in Worker \ pool
    PROVE  Cardinality(pool \cup {w}) = Cardinality(pool) + 1
  BY WorkerAssumption, FS_Subset, FS_AddElement DEF TypeOK

\* addThread never makes _pool larger than _initSize, so the branch that
\* releases surplus threads is never taken.
LEMMA NoSurplus ==
    ASSUME TypeOK, Started
    PROVE  Cardinality(pool) \in Nat /\ Cardinality(pool) <= InitSize /\ ~Surplus
<1>1. IsFiniteSet(pool)
  BY WorkerAssumption, FS_Subset DEF TypeOK
<1>2. Cardinality(pool) \in Nat
  BY <1>1, FS_CardinalityType
<1> QED
  BY <1>2, WorkerAssumption DEF TypeOK, Started, Surplus

-------------------------------------------------------------------------------
\* The invariant is inductive.
LEMMA Inductive == IInv /\ [Next]_vars => IInv'
<1> SUFFICES ASSUME IInv, [Next]_vars PROVE IInv'
  OBVIOUS
<1> USE WorkerAssumption, NoTaskAssumption, SpuriousAssumption, NonEmptyPool
<1> USE DEF IInv, Caller
<1>1. ASSUME NEW w \in Worker, AddThread(w) PROVE IInv'
  <2>1. TypeOK'
    BY <1>1 DEF AddThread, StartThread, MoreThreads, TypeOK, Started, Born, Calls,
       Running, ownerVars, callVars
  <2>2. Started'
    <3>1. Cardinality(pool') = Cardinality(pool) + 1 /\ togo' = togo - 1
      BY <1>1, PoolGrows DEF AddThread, StartThread
    <3> QED
      BY <3>1, NoSurplus DEF Started, TypeOK
  <2>3. Born'
    BY <1>1 DEF AddThread, StartThread, MoreThreads, Born, TypeOK, ownerVars, callVars
  <2>4. Stopping'
    BY <1>1 DEF AddThread, StartThread, MoreThreads, Stopping, Born, Calls, TypeOK,
       ownerVars, callVars
  <2>5. Calls'
    BY <1>1 DEF AddThread, StartThread, Calls, Born, callVars
  <2>6. Running'
    BY <1>1 DEF AddThread, StartThread, MoreThreads, Running, Calls, Queue, Born,
       TypeOK, ownerVars, callVars
  <2>7. Attended'
    BY <1>1 DEF AddThread, StartThread, MoreThreads, Attended, Born, Stopping, Calls,
       Running, TypeOK, ownerVars, callVars
  <2>8. Building'
    BY <1>1 DEF AddThread, StartThread, MoreThreads, Building, Stopping, Calls,
       Running, Born, TypeOK, Busy, ownerVars, callVars
  <2>9. Queue'
    BY <1>1 DEF AddThread, StartThread, MoreThreads, Queue, ownerVars, callVars
  <2> QED
    BY <2>1, <2>2, <2>3, <2>4, <2>5, <2>6, <2>7, <2>8, <2>9
<1>2. ASSUME CountThread PROVE IInv'
  <2>1. TypeOK'
    BY <1>2 DEF CountThread, LockFree, TypeOK, Started, Born, Calls, Running,
       ownerVars, callVars
  <2>2. Born'
    BY <1>2 DEF CountThread, LockFree, Born, TypeOK, ownerVars, callVars
  <2>3. Stopping'
    BY <1>2 DEF CountThread, LockFree, Stopping, Born, Calls, TypeOK, ownerVars, callVars
  <2>4. Calls'
    BY <1>2 DEF CountThread, LockFree, Calls, Stopping, Queue, Running, TypeOK,
       ownerVars, callVars
  <2>5. Building'
    BY <1>2 DEF CountThread, LockFree, Building, Stopping, Calls, Running, Born,
       TypeOK, Busy, ownerVars, callVars
  <2>6. Started' /\ Queue' /\ Running' /\ Attended'
    BY <1>2 DEF CountThread, LockFree, Started, Queue, Running, Attended, ownerVars,
       callVars
  <2> QED
    BY <2>1, <2>2, <2>3, <2>4, <2>5, <2>6
<1>3. ASSUME Constructed PROVE IInv'
  <2>1. TypeOK'
    BY <1>3 DEF Constructed, MoreThreads, TypeOK, Started, Born, Calls, Running,
       ownerVars, callVars
  <2>2. Born'
    <3>1. pool # {}
      <4> SUFFICES ASSUME pool = {} PROVE FALSE
        OBVIOUS
      <4>1. Cardinality(pool) = 0
        BY FS_EmptySet
      <4> QED
        BY <4>1, <1>3 DEF Constructed, MoreThreads, Started, TypeOK
    <3> QED
      BY <1>3, <3>1 DEF Constructed, Born
  <2>3. Stopping'
    BY <1>3 DEF Constructed, MoreThreads, Stopping, Born, Calls, TypeOK, ownerVars,
       callVars
  <2>4. Calls'
    BY <1>3 DEF Constructed, MoreThreads, Calls, Stopping, Queue, Running, TypeOK,
       ownerVars, callVars
  <2>5. Building'
    BY <1>3 DEF Constructed, MoreThreads, Building, Stopping, Calls, Running, Born,
       TypeOK, Busy, ownerVars, callVars
  <2>6. Started' /\ Queue' /\ Running' /\ Attended'
    BY <1>3 DEF Constructed, MoreThreads, Started, Queue, Running, Attended, ownerVars,
       callVars
  <2> QED
    BY <2>1, <2>2, <2>3, <2>4, <2>5, <2>6
<1>4. ASSUME Stop PROVE IInv'
  <2>1. TypeOK'
    BY <1>4 DEF Stop, TypeOK, Started, Born, Calls, Running, ownerVars, callVars
  <2>2. Born'
    BY <1>4 DEF Stop, Born, TypeOK, ownerVars, callVars
  <2>3. Stopping'
    BY <1>4 DEF Stop, Stopping, Born, Calls, TypeOK, ownerVars, callVars
  <2>4. Calls'
    BY <1>4 DEF Stop, Calls, Stopping, Queue, Running, TypeOK, ownerVars, callVars
  <2>5. Building'
    BY <1>4 DEF Stop, Building, Stopping, Calls, Running, Born, TypeOK, Busy,
       ownerVars, callVars
  <2>6. Started' /\ Queue' /\ Running' /\ Attended'
    BY <1>4 DEF Stop, Started, Queue, Running, Attended, ownerVars, callVars
  <2> QED
    BY <2>1, <2>2, <2>3, <2>4, <2>5, <2>6
<1>5. ASSUME NotifyAll PROVE IInv'
  <2>1. TypeOK'
    BY <1>5 DEF NotifyAll, WakeAll, TypeOK, Started, Born, Calls, Running, ownerVars,
       callVars
  <2>2. Born'
    BY <1>5 DEF NotifyAll, WakeAll, Born, TypeOK, ownerVars, callVars
  <2>3. Stopping'
    BY <1>5 DEF NotifyAll, WakeAll, Stopping, Born, Calls, TypeOK, ownerVars, callVars
  <2>4. Calls'
    BY <1>5 DEF NotifyAll, WakeAll, Calls, Stopping, Queue, Running, TypeOK, ownerVars,
       callVars
  <2>5. Running'
    BY <1>5 DEF NotifyAll, WakeAll, Running, Calls, Queue, Born, TypeOK, ownerVars,
       callVars
  <2>6. Attended'
    BY <1>5 DEF NotifyAll, WakeAll, Attended, Born, Stopping, Calls, Running, TypeOK,
       ownerVars, callVars
  <2>7. Building'
    BY <1>5 DEF NotifyAll, WakeAll, Building, Stopping, Calls, Running, Born, TypeOK,
       Busy, ownerVars, callVars
  <2>8. Started' /\ Queue'
    BY <1>5 DEF NotifyAll, WakeAll, Started, Queue, ownerVars, callVars
  <2> QED
    BY <2>1, <2>2, <2>3, <2>4, <2>5, <2>6, <2>7, <2>8
<1>6. ASSUME Join PROVE IInv'
  <2>1. TypeOK'
    BY <1>6 DEF Join, ReturnFromJoin, TypeOK, Started, Born, Calls, Running, ownerVars,
       callVars
  <2>2. Born'
    BY <1>6 DEF Join, ReturnFromJoin, Born, TypeOK, ownerVars, callVars
  <2>3. Stopping'
    BY <1>6 DEF Join, ReturnFromJoin, Stopping, Born, Calls, TypeOK, ownerVars, callVars
  <2>4. Calls'
    BY <1>6 DEF Join, ReturnFromJoin, Calls, Stopping, Queue, Running, TypeOK,
       ownerVars, callVars
  <2>5. Building'
    BY <1>6 DEF Join, ReturnFromJoin, Building, Stopping, Calls, Running, Born, TypeOK,
       Busy, ownerVars, callVars
  <2>6. Started' /\ Queue' /\ Running' /\ Attended'
    BY <1>6 DEF Join, ReturnFromJoin, Started, Queue, Running, Attended, ownerVars,
       callVars
  <2> QED
    BY <2>1, <2>2, <2>3, <2>4, <2>5, <2>6
<1>7. ASSUME NEW c \in Caller, NEW t \in Task, CommitCheck(c, t) PROVE IInv'
  <2>1. TypeOK'
    BY <1>7 DEF CommitCheck, CanCommit, TypeOK, Started, Born, Calls, Running,
       ownerVars, callVars
  <2>2. Calls'
    BY <1>7 DEF CommitCheck, CanCommit, Calls, Stopping, Queue, Running, TypeOK,
       ownerVars, callVars
  <2>3. Queue'
    BY <1>7 DEF CommitCheck, CanCommit, Queue, Calls, Running, TypeOK, ownerVars, callVars
  <2>4. Running'
    BY <1>7 DEF CommitCheck, CanCommit, Running, Calls, Queue, Born, TypeOK, ownerVars,
       callVars
  <2>5. Building'
    BY <1>7 DEF CommitCheck, CanCommit, Building, Stopping, Calls, Running, Born,
       TypeOK, Busy, ownerVars, callVars
  <2>6. Started' /\ Born' /\ Stopping' /\ Attended'
    BY <1>7 DEF CommitCheck, CanCommit, Started, Born, Stopping, Attended, ownerVars,
       callVars
  <2> QED
    BY <2>1, <2>2, <2>3, <2>4, <2>5, <2>6
<1>8. ASSUME NEW c \in Caller, NEW t \in Task, CommitThrows(c, t) PROVE IInv'
  <2>1. TypeOK'
    BY <1>8 DEF CommitThrows, CanCommit, TypeOK, Started, Born, Calls, Running,
       ownerVars, callVars
  <2>2. Calls'
    BY <1>8 DEF CommitThrows, CanCommit, Calls, Stopping, Queue, Running, TypeOK,
       ownerVars, callVars
  <2>3. Queue'
    BY <1>8 DEF CommitThrows, CanCommit, Queue, Calls, Running, TypeOK, ownerVars,
       callVars
  <2>4. Running'
    BY <1>8 DEF CommitThrows, CanCommit, Running, Calls, Queue, Born, TypeOK,
       ownerVars, callVars
  <2>5. Started' /\ Born' /\ Stopping' /\ Attended' /\ Building'
    BY <1>8 DEF CommitThrows, CanCommit, Started, Born, Stopping, Attended, Building,
       ownerVars, callVars
  <2> QED
    BY <2>1, <2>2, <2>3, <2>4, <2>5
<1>9. ASSUME NEW c \in Caller, CommitPush(c) PROVE IInv'
  <2>1. TypeOK'
    BY <1>9 DEF CommitPush, TypeOK, Started, Born, Calls, Running, ownerVars, callVars
  <2>2. Calls'
    BY <1>9 DEF CommitPush, Calls, Stopping, Queue, Running, TypeOK, ownerVars, callVars
  <2>3. Queue'
    BY <1>9 DEF CommitPush, Queue, Calls, Running, TypeOK, ownerVars, callVars
  <2>4. Running'
    BY <1>9 DEF CommitPush, Running, Calls, Queue, Born, TypeOK, ownerVars, callVars
  <2>5. Attended'
    BY <1>9 DEF CommitPush, Attended, Born, Stopping, Calls, Running, TypeOK,
       ownerVars, callVars
  <2>6. Building'
    BY <1>9 DEF CommitPush, Building, Stopping, Calls, Running, Born, TypeOK, Busy,
       ownerVars, callVars
  <2>7. Started' /\ Born' /\ Stopping'
    BY <1>9 DEF CommitPush, Started, Born, Stopping, ownerVars, callVars
  <2> QED
    BY <2>1, <2>2, <2>3, <2>4, <2>5, <2>6, <2>7
<1>10. ASSUME NEW c \in Caller, CommitNotify(c) PROVE IInv'
  <2>1. TypeOK'
    BY <1>10 DEF CommitNotify, CommitReturn, WakeOne, Waiting, TypeOK, Started, Born,
       Calls, Running, ownerVars, callVars
  <2>2. Born'
    BY <1>10 DEF CommitNotify, CommitReturn, WakeOne, Waiting, Born, TypeOK, ownerVars,
       callVars
  <2>3. Stopping'
    BY <1>10 DEF CommitNotify, CommitReturn, WakeOne, Waiting, Stopping, Born, Calls,
       TypeOK, ownerVars, callVars
  <2>4. Calls'
    BY <1>10 DEF CommitNotify, CommitReturn, WakeOne, Waiting, Calls, Stopping, Queue,
       Running, TypeOK, ownerVars, callVars
  <2>5. Running'
    <3>1. \A w \in Worker : pc'[w] = "run" <=> pc[w] = "run"
      BY <1>10 DEF CommitNotify, WakeOne, Waiting, TypeOK
    <3> QED
      BY <1>10, <3>1 DEF CommitNotify, CommitReturn, Running
  <2>6. Attended'
    BY <1>10 DEF CommitNotify, CommitReturn, WakeOne, Waiting, Attended, Born,
       Stopping, Calls, Running, TypeOK, ownerVars, callVars
  <2>7. Building'
    BY <1>10 DEF CommitNotify, CommitReturn, WakeOne, Waiting, Building, Stopping,
       Calls, Running, Born, TypeOK, Busy, ownerVars, callVars
  <2>8. Started' /\ Queue'
    BY <1>10 DEF CommitNotify, CommitReturn, WakeOne, Waiting, Started, Queue,
       ownerVars, callVars
  <2> QED
    BY <2>1, <2>2, <2>3, <2>4, <2>5, <2>6, <2>7, <2>8
<1>11. ASSUME NEW w \in Worker, WaitTest(w) PROVE IInv'
  <2>1. TypeOK'
    BY <1>11 DEF WaitTest, TypeOK, Started, Born, Calls, Running, ownerVars, callVars
  <2>2. Born'
    BY <1>11 DEF WaitTest, Born, TypeOK, ownerVars, callVars
  <2>3. Stopping'
    BY <1>11 DEF WaitTest, Stopping, Born, Calls, TypeOK, ownerVars, callVars
  <2>4. Calls'
    BY <1>11 DEF WaitTest, Calls, Stopping, Queue, Running, TypeOK, ownerVars, callVars
  <2>5. Running'
    BY <1>11 DEF WaitTest, Running, Calls, Queue, Born, TypeOK, ownerVars, callVars
  <2>6. Attended'
    BY <1>11 DEF WaitTest, Attended, Born, Stopping, Calls, Running, TypeOK, ownerVars,
       callVars
  <2>7. Building'
    BY <1>11 DEF WaitTest, Building, Stopping, Calls, Running, Born, TypeOK, Busy,
       ownerVars, callVars
  <2>8. Started' /\ Queue'
    BY <1>11 DEF WaitTest, Started, Queue, ownerVars, callVars
  <2> QED
    BY <2>1, <2>2, <2>3, <2>4, <2>5, <2>6, <2>7, <2>8
<1>12. ASSUME NEW w \in Worker, Block(w) PROVE IInv'
  <2>1. TypeOK'
    BY <1>12 DEF Block, TypeOK, Started, Born, Calls, Running, ownerVars, callVars
  <2>2. Born'
    BY <1>12 DEF Block, Born, TypeOK, ownerVars, callVars
  <2>3. Stopping'
    BY <1>12 DEF Block, Stopping, Born, Calls, TypeOK, ownerVars, callVars
  <2>4. Calls'
    BY <1>12 DEF Block, Calls, Stopping, Queue, Running, TypeOK, ownerVars, callVars
  <2>5. Running'
    BY <1>12 DEF Block, Running, Calls, Queue, Born, TypeOK, ownerVars, callVars
  <2>6. Attended'
    BY <1>12 DEF Block, Attended, Born, Stopping, Calls, Running, TypeOK, ownerVars,
       callVars
  <2>7. Building'
    BY <1>12 DEF Block, Building, Stopping, Calls, Running, Born, TypeOK, Busy,
       ownerVars, callVars
  <2>8. Started' /\ Queue'
    BY <1>12 DEF Block, Started, Queue, ownerVars, callVars
  <2> QED
    BY <2>1, <2>2, <2>3, <2>4, <2>5, <2>6, <2>7, <2>8
<1>13. ASSUME NEW w \in Worker, SpuriousWakeup(w) PROVE IInv'
  <2>1. TypeOK'
    BY <1>13 DEF SpuriousWakeup, TypeOK, Started, Born, Calls, Running, ownerVars,
       callVars
  <2>2. Born'
    BY <1>13 DEF SpuriousWakeup, Born, TypeOK, ownerVars, callVars
  <2>3. Stopping'
    BY <1>13 DEF SpuriousWakeup, Stopping, Born, Calls, TypeOK, ownerVars, callVars
  <2>4. Calls'
    BY <1>13 DEF SpuriousWakeup, Calls, Stopping, Queue, Running, TypeOK, ownerVars,
       callVars
  <2>5. Running'
    BY <1>13 DEF SpuriousWakeup, Running, Calls, Queue, Born, TypeOK, ownerVars, callVars
  <2>6. Attended'
    BY <1>13 DEF SpuriousWakeup, Attended, Born, Stopping, Calls, Running, TypeOK,
       ownerVars, callVars
  <2>7. Building'
    BY <1>13 DEF SpuriousWakeup, Building, Stopping, Calls, Running, Born, TypeOK,
       Busy, ownerVars, callVars
  <2>8. Started' /\ Queue'
    BY <1>13 DEF SpuriousWakeup, Started, Queue, ownerVars, callVars
  <2> QED
    BY <2>1, <2>2, <2>3, <2>4, <2>5, <2>6, <2>7, <2>8
<1>14. ASSUME NEW w \in Worker, Exit(w) PROVE IInv'
  <2>1. TypeOK'
    BY <1>14 DEF Exit, ReturnFromLoop, TypeOK, Started, Born, Calls, Running,
       ownerVars, callVars
  <2>2. Born'
    BY <1>14 DEF Exit, ReturnFromLoop, Born, TypeOK, ownerVars, callVars
  <2>3. Stopping'
    BY <1>14 DEF Exit, ReturnFromLoop, Stopping, Born, Calls, TypeOK, ownerVars, callVars
  <2>4. Calls'
    BY <1>14 DEF Exit, ReturnFromLoop, Calls, Stopping, Queue, Running, TypeOK,
       ownerVars, callVars
  <2>5. Running'
    BY <1>14 DEF Exit, ReturnFromLoop, Running, Calls, Queue, Born, TypeOK, ownerVars,
       callVars
  <2>6. Attended'
    BY <1>14 DEF Exit, ReturnFromLoop, Attended, Born, Stopping, Calls, Running,
       TypeOK, ownerVars, callVars
  <2>7. Building'
    BY <1>14 DEF Exit, ReturnFromLoop, Building, Stopping, Calls, Running, Born,
       TypeOK, Busy, ownerVars, callVars
  <2>8. Started' /\ Queue'
    BY <1>14 DEF Exit, ReturnFromLoop, Started, Queue, ownerVars, callVars
  <2> QED
    BY <2>1, <2>2, <2>3, <2>4, <2>5, <2>6, <2>7, <2>8
<1>15. ASSUME NEW w \in Worker, Take(w) PROVE IInv'
  <2>1. TypeOK'
    BY <1>15 DEF Take, TakeHead, TypeOK, Started, Born, Calls, Running, ownerVars,
       callVars
  <2>2. Born'
    BY <1>15 DEF Take, TakeHead, Born, TypeOK, ownerVars, callVars
  <2>3. Stopping'
    BY <1>15 DEF Take, TakeHead, Stopping, Born, Calls, TypeOK, ownerVars, callVars
  <2>4. Calls'
    BY <1>15 DEF Take, TakeHead, Calls, Stopping, Queue, Running, TypeOK, ownerVars,
       callVars
  <2>5. Queue'
    <3>1. tasks # <<>> /\ tasks' = Tail(tasks) /\ tasks \in Seq(Task)
      BY <1>15 DEF Take, TakeHead, TypeOK
    <3>2. /\ Len(tasks') = Len(tasks) - 1
          /\ \A i \in 1..Len(tasks') : tasks'[i] = tasks[i + 1]
          /\ Head(tasks) = tasks[1]
          /\ Len(tasks) \in Nat \ {0}
      BY <3>1
    <3>3. status' = [status EXCEPT ![tasks[1]] = "running"]
      BY <1>15, <3>2 DEF Take, TakeHead
    <3>4. \A i \in 1..Len(tasks') : tasks[i + 1] # tasks[1] /\ tasks[i + 1] \in Task
      <4> SUFFICES ASSUME NEW i \in 1..Len(tasks')
                   PROVE  tasks[i + 1] # tasks[1] /\ tasks[i + 1] \in Task
        OBVIOUS
      <4>1. i + 1 \in 1..Len(tasks) /\ 1 \in 1..Len(tasks) /\ i + 1 # 1
        BY <3>2
      <4> QED
        BY <4>1, <3>1 DEF Queue
    <3>5. \A i \in 1..Len(tasks') : status'[tasks'[i]] = "queued"
      <4> SUFFICES ASSUME NEW i \in 1..Len(tasks') PROVE status'[tasks'[i]] = "queued"
        OBVIOUS
      <4>1. i + 1 \in 1..Len(tasks) /\ tasks'[i] = tasks[i + 1]
        BY <3>2
      <4>2. status[tasks[i + 1]] = "queued"
        BY <4>1 DEF Queue
      <4> QED
        BY <4>1, <4>2, <3>3, <3>4 DEF TypeOK
    <3>6. \A i, j \in 1..Len(tasks') : tasks'[i] = tasks'[j] => i = j
      <4> SUFFICES ASSUME NEW i \in 1..Len(tasks'), NEW j \in 1..Len(tasks'),
                          tasks'[i] = tasks'[j]
                   PROVE  i = j
        OBVIOUS
      <4>1. /\ i + 1 \in 1..Len(tasks) /\ j + 1 \in 1..Len(tasks)
            /\ tasks[i + 1] = tasks[j + 1]
        BY <3>2
      <4>2. i + 1 = j + 1 BY <4>1 DEF Queue
      <4> QED BY <4>2
    <3>7. ASSUME NEW t \in Task, status'[t] = "queued"
          PROVE  \E i \in 1..Len(tasks') : tasks'[i] = t
      <4>1. t # tasks[1] /\ status[t] = "queued"
        BY <3>3, <3>7 DEF TypeOK
      <4>2. PICK i \in 1..Len(tasks) : tasks[i] = t
        BY <4>1 DEF Queue
      <4>3. i # 1 /\ i - 1 \in 1..Len(tasks') /\ tasks'[i - 1] = tasks[i]
        BY <4>1, <4>2, <3>2
      <4> QED
        BY <4>2, <4>3
    <3> QED
      BY <3>5, <3>6, <3>7 DEF Queue
  <2>6. Running'
    BY <1>15 DEF Take, TakeHead, Running, Calls, Queue, Born, TypeOK, ownerVars, callVars
  <2>7. Attended'
    BY <1>15 DEF Take, TakeHead, Attended, Born, Stopping, Calls, Running, TypeOK,
       ownerVars, callVars
  <2>8. Building'
    BY <1>15 DEF Take, TakeHead, Building, Stopping, Calls, Running, Born, TypeOK,
       Busy, ownerVars, callVars
  <2>9. Started'
    BY <1>15 DEF Take, TakeHead, Started, ownerVars, callVars
  <2> QED
    BY <2>1, <2>2, <2>3, <2>4, <2>5, <2>6, <2>7, <2>8, <2>9
<1>16. ASSUME NEW w \in Worker, Finish(w) PROVE IInv'
  <2>1. TypeOK'
    BY <1>16, NoSurplus DEF Finish, TypeOK, Started, Born, Calls, Running, ownerVars,
       callVars
  <2>2. Born'
    BY <1>16, NoSurplus DEF Finish, Born, TypeOK, ownerVars, callVars
  <2>3. Stopping'
    BY <1>16, NoSurplus DEF Finish, Stopping, Born, Calls, TypeOK, ownerVars, callVars
  <2>4. Calls'
    BY <1>16, NoSurplus DEF Finish, Calls, Stopping, Queue, Running, TypeOK, ownerVars,
       callVars
  <2>5. Queue'
    BY <1>16, NoSurplus DEF Finish, Queue, Calls, Running, TypeOK, ownerVars, callVars
  <2>6. Running'
    BY <1>16, NoSurplus DEF Finish, Running, Calls, Queue, Born, TypeOK, ownerVars,
       callVars
  <2>7. Attended'
    BY <1>16, NoSurplus DEF Finish, Attended, Born, Stopping, Calls, Running, TypeOK,
       ownerVars, callVars
  <2>8. Building'
    BY <1>16, NoSurplus DEF Finish, Building, Stopping, Calls, Running, Born, TypeOK,
       Busy, ownerVars, callVars
  <2>9. Started'
    BY <1>16 DEF Finish, Started, ownerVars, callVars
  <2> QED
    BY <2>1, <2>2, <2>3, <2>4, <2>5, <2>6, <2>7, <2>8, <2>9
<1>17. ASSUME NEW w \in Worker, Recount(w) PROVE IInv'
  <2>1. TypeOK'
    BY <1>17 DEF Recount, TypeOK, Started, Born, Calls, Running, ownerVars, callVars
  <2>2. Born'
    BY <1>17 DEF Recount, Born, TypeOK, ownerVars, callVars
  <2>3. Stopping'
    BY <1>17 DEF Recount, Stopping, Born, Calls, TypeOK, ownerVars, callVars
  <2>4. Calls'
    BY <1>17 DEF Recount, Calls, Stopping, Queue, Running, TypeOK, ownerVars, callVars
  <2>5. Running'
    BY <1>17 DEF Recount, Running, Calls, Queue, Born, TypeOK, ownerVars, callVars
  <2>6. Attended'
    BY <1>17 DEF Recount, Attended, Born, Stopping, Calls, Running, TypeOK, ownerVars,
       callVars
  <2>7. Building'
    BY <1>17 DEF Recount, Building, Stopping, Calls, Running, Born, TypeOK, Busy,
       ownerVars, callVars
  <2>8. Started' /\ Queue'
    BY <1>17 DEF Recount, Started, Queue, ownerVars, callVars
  <2> QED
    BY <2>1, <2>2, <2>3, <2>4, <2>5, <2>6, <2>7, <2>8
<1>18. CASE UNCHANGED vars
  BY <1>18 DEF vars, callVars, ownerVars, TypeOK, Started, Born, Stopping, Calls,
     Queue, Running, Attended, Building, Busy
<1> QED
  BY <1>1, <1>2, <1>3, <1>4, <1>5, <1>6, <1>7, <1>8, <1>9, <1>10, <1>11, <1>12, <1>13,
     <1>14, <1>15, <1>16, <1>17, <1>18
  DEF Next, OwnerStep, CallStep, WorkerStep

\* The initial states satisfy the invariant.
LEMMA InitIInv == Init => IInv
  BY WorkerAssumption, NoTaskAssumption, SpuriousAssumption, NonEmptyPool, FS_EmptySet
  DEF Init, IInv, Caller, TypeOK, Started, Born, Stopping, Calls, Queue, Running,
      Attended, Building, Busy

\* Every reachable state satisfies the inductive invariant.
THEOREM Invariance == Spec => []IInv
  BY InitIInv, Inductive, PTL DEF Spec

\* Every variable keeps its type.
THEOREM TypeCorrect == Spec => []TypeOK
<1>1. IInv => TypeOK
  BY DEF IInv
<1> QED
  BY <1>1, Invariance, PTL

\* Common/ThreadPool.hpp never ends a thread of a pool that is not being
\* destroyed.
THEOREM NeverEarly == Spec => []NoEarlyExit
<1>1. IInv => NoEarlyExit
  BY DEF IInv, Stopping, NoEarlyExit
<1> QED
  BY <1>1, Invariance, PTL

\* When every thread has left its loop nothing can be left behind: a queued
\* task, a running task and a commit under way each need a live thread.
LEMMA NothingLeft ==
    ASSUME IInv, \A w \in pool : pc[w] = "exited", owner \in {"join", "destroyed"}
    PROVE  \A t \in Task : status[t] \in {"new", "refused", "done"}
<1> SUFFICES ASSUME NEW t \in Task PROVE status[t] \in {"new", "refused", "done"}
  OBVIOUS
<1>1. \A w \in Worker : pc[w] \in {"unborn", "exited"}
  BY DEF IInv, Born
<1>2. tasks = <<>>
  BY DEF IInv, Attended
<1>3. \A c \in Caller : call[c] = "none"
  BY <1>1 DEF IInv, Calls, Caller
<1>4. status[t] # "queued"
  BY <1>2 DEF IInv, Queue
<1>5. status[t] # "running"
  BY <1>1 DEF IInv, Running
<1>6. status[t] # "claimed"
  BY <1>3 DEF IInv, Calls
<1> QED
  BY <1>4, <1>5, <1>6 DEF IInv, TypeOK

\* The destructor of a pool with a thread returns only when every accepted
\* task has been run.
THEOREM DestructorDrains == Spec => []Drained
<1>1. IInv => Drained
  BY NothingLeft DEF IInv, Stopping, Drained
<1> QED
  BY <1>1, Invariance, PTL

-------------------------------------------------------------------------------
(* The counter of idle threads.                                            *)

\* No step disturbs the equation between _idlThrNum and the threads it counts.
LEMMA CountingStep ==
    ASSUME IInv, IInv', IdleAccounting, [Next]_vars
    PROVE  IdleAccounting'
<1> USE DEF IdleAccounting
<1>1. /\ IsFiniteSet(pool) /\ IsFiniteSet(Busy)
      /\ Cardinality(pool) \in Nat /\ Cardinality(Busy) \in Nat
      /\ Busy \subseteq pool
  <2>1. Busy \subseteq pool /\ pool \subseteq Worker
    BY DEF Busy, IInv, Born, TypeOK
  <2> QED
    BY <2>1, WorkerAssumption, FS_Subset, FS_CardinalityType
<1>2. idle \in Int
  BY DEF IInv, TypeOK
<1>3. ASSUME Busy' = Busy, UNCHANGED <<idle, pool, owner>> PROVE IdleAccounting'
  BY <1>3
<1>4. ASSUME NEW w \in Worker, AddThread(w) PROVE IdleAccounting'
  <2>1. Busy' = Busy /\ Busy = {}
    BY <1>4 DEF AddThread, StartThread, Busy, IInv, Building, Born, TypeOK
  <2>2. Cardinality(pool') = Cardinality(pool) + 1
    BY <1>4, PoolGrows DEF AddThread, StartThread, IInv
  <2>3. owner = "grow" /\ owner' = "count" /\ idle' = idle
    BY <1>4 DEF AddThread, StartThread
  <2> QED
    BY <1>1, <1>2, <2>1, <2>2, <2>3
<1>5. CASE CountThread
  <2>1. Busy' = Busy
    BY <1>5 DEF CountThread, Busy
  <2> QED
    BY <1>1, <1>2, <1>5, <2>1 DEF CountThread
<1>6. ASSUME NEW w \in Worker, Take(w) PROVE IdleAccounting'
  <2>1. Busy' = Busy \cup {w} /\ w \notin Busy
    BY <1>6 DEF Take, TakeHead, Busy, IInv, TypeOK
  <2>2. Cardinality(Busy') = Cardinality(Busy) + 1
    BY <1>1, <2>1, FS_AddElement
  <2>3. owner # "count" /\ UNCHANGED <<owner, pool>> /\ idle' = idle - 1
    BY <1>6 DEF Take, TakeHead, ownerVars, IInv, Building
  <2>4. Cardinality(Busy') <= Cardinality(pool)
    <3>1. Busy' \subseteq pool
      BY <1>1, <1>6, <2>1 DEF Take, TakeHead, IInv, Born
    <3> QED
      BY <1>1, <3>1, FS_Subset
  <2> QED
    BY <1>1, <1>2, <2>2, <2>3, <2>4
<1>7. ASSUME NEW w \in Worker, Recount(w) PROVE IdleAccounting'
  <2>1. Busy' = Busy \ {w} /\ w \in Busy
    BY <1>7 DEF Recount, Busy, IInv, TypeOK
  <2>2. Cardinality(Busy') = Cardinality(Busy) - 1
    BY <1>1, <2>1, FS_RemoveElement
  <2>3. UNCHANGED <<owner, pool>> /\ idle' = idle + 1
    BY <1>7 DEF Recount, ownerVars
  <2> QED
    BY <1>1, <1>2, <2>2, <2>3
<1>8. ASSUME NEW w \in Worker, Finish(w) PROVE IdleAccounting'
  <2>1. ~Surplus
    BY NoSurplus DEF IInv
  <2>2. Busy' = Busy
    BY <1>8, <2>1 DEF Finish, Busy, IInv, TypeOK
  <2> QED
    BY <1>3, <1>8, <2>2 DEF Finish, ownerVars
<1>9. ASSUME NEW c \in Caller, CommitNotify(c) PROVE IdleAccounting'
  <2>1. Busy' = Busy
    BY <1>9 DEF CommitNotify, WakeOne, Waiting, Busy, IInv, TypeOK
  <2> QED
    BY <1>3, <1>9, <2>1 DEF CommitNotify, CommitReturn, ownerVars
<1>10. ASSUME Constructed \/ Stop \/ NotifyAll \/ Join PROVE IdleAccounting'
  <2>1. Busy' = Busy
    BY <1>10 DEF Constructed, Stop, NotifyAll, WakeAll, Join, ReturnFromJoin, Busy
  <2>2. owner # "count" /\ owner' # "count" /\ UNCHANGED <<idle, pool>>
    BY <1>10 DEF Constructed, Stop, NotifyAll, Join, ReturnFromJoin
  <2> QED
    BY <2>1, <2>2
<1>11. ASSUME NEW c \in Caller,
              CommitPush(c) \/ \E t \in Task : CommitCheck(c, t) \/ CommitThrows(c, t)
       PROVE  IdleAccounting'
  BY <1>3, <1>11 DEF CommitCheck, CommitThrows, CommitPush, ownerVars, Busy
<1>12. ASSUME NEW w \in Worker, WaitTest(w) \/ Block(w) \/ SpuriousWakeup(w) \/ Exit(w)
       PROVE  IdleAccounting'
  <2>1. Busy' = Busy
    BY <1>12 DEF WaitTest, Block, SpuriousWakeup, Exit, ReturnFromLoop, Busy, IInv, TypeOK
  <2> QED
    BY <1>3, <1>12, <2>1
    DEF WaitTest, Block, SpuriousWakeup, Exit, ReturnFromLoop, ownerVars
<1>13. CASE UNCHANGED vars
  BY <1>3, <1>13 DEF vars, Busy
<1> QED
  BY <1>4, <1>5, <1>6, <1>7, <1>8, <1>9, <1>10, <1>11, <1>12, <1>13
  DEF Next, OwnerStep, CallStep, WorkerStep

\* idlCount() is exact and never negative, for any number of threads.
THEOREM IdleExact == Spec => []IdleAccounting
<1>1. Init => IdleAccounting
  <2> SUFFICES ASSUME Init PROVE IdleAccounting
    OBVIOUS
  <2>1. pool = {} /\ Busy = {} /\ idle = 0 /\ owner = "grow"
    BY DEF Init, Busy
  <2> QED
    BY <2>1, FS_EmptySet DEF IdleAccounting
<1>2. IInv /\ IInv' /\ IdleAccounting /\ [Next]_vars => IdleAccounting'
  BY CountingStep
<1> QED
  BY <1>1, <1>2, Invariance, PTL DEF Spec

-------------------------------------------------------------------------------
(* Refinement of TaskPool.                                                 *)

\* Every step is a step of TaskPool or a stutter: commit submits or refuses, a take
\* starts, the end of a task finishes, and the last join closes.
LEMMA RefinedStep ==
    ASSUME IInv, IInv', [Next]_vars
    PROVE  [Promise!Next]_(Promise!vars)
<1> USE DEF Promise!vars
<1>1. ASSUME UNCHANGED status, owner' = "destroyed" <=> owner = "destroyed"
      PROVE  UNCHANGED Promise!vars
  BY <1>1
<1>2. status \in [Task -> {"new", "claimed", "queued", "running", "done", "refused"}]
  BY DEF IInv, TypeOK
<1> DEFINE States == {"new", "claimed", "queued", "running", "done", "refused"}
           Moves(t, s) == /\ status' = [status EXCEPT ![t] = s]
                          /\ owner # "destroyed"
                          /\ owner' = owner
<1>3. ASSUME NEW t \in Task, NEW s \in States, Moves(t, s)
      PROVE  /\ FutureOf(s) = FutureOf(status[t]) => UNCHANGED Promise!vars
             /\ Promise!Move(t, FutureOf(status[t]), FutureOf(s))
             /\ owner # "destroyed"
  <2>1. [u \in Task |-> FutureOf(status'[u])]
            = [[u \in Task |-> FutureOf(status[u])] EXCEPT ![t] = FutureOf(s)]
    BY <1>2, <1>3
  <2> QED
    BY <1>2, <1>3, <2>1 DEF Promise!Move
<1> HIDE DEF Moves
<1>4. ASSUME NEW w \in Worker, pc[w] \in {"top", "run"} PROVE owner # "destroyed"
  BY <1>4 DEF IInv, Born, Stopping
<1>5. ASSUME NEW c \in Caller, call[c] # "none" PROVE owner # "destroyed"
  BY <1>4, <1>5 DEF IInv, Calls, Caller
<1>6. ASSUME NEW c \in Caller, CanCommit(c) PROVE owner # "destroyed"
  BY <1>4, <1>6 DEF CanCommit, Caller
<1>7. ASSUME NEW w \in Worker, AddThread(w) \/ Recount(w) \/ WaitTest(w) \/ Block(w)
                               \/ Exit(w) \/ SpuriousWakeup(w)
      PROVE  UNCHANGED Promise!vars
  BY <1>1, <1>7
  DEF AddThread, StartThread, Recount, WaitTest, Block, Exit, ReturnFromLoop,
      SpuriousWakeup, ownerVars
<1>8. ASSUME CountThread \/ Constructed \/ Stop \/ NotifyAll PROVE UNCHANGED Promise!vars
  BY <1>1, <1>8 DEF CountThread, Constructed, Stop, NotifyAll
<1>9. ASSUME NEW c \in Caller, CommitNotify(c) PROVE UNCHANGED Promise!vars
  BY <1>1, <1>9 DEF CommitNotify, CommitReturn, ownerVars
<1>10. ASSUME NEW c \in Caller, NEW t \in Task, CommitCheck(c, t)
       PROVE  UNCHANGED Promise!vars
  <2>1. Moves(t, "claimed") /\ status[t] = "new"
    BY <1>6, <1>10 DEF CommitCheck, ownerVars, Moves
  <2>2. FutureOf("claimed") = FutureOf(status[t])
    BY <2>1 DEF FutureOf
  <2> QED
    BY <1>3, <2>1, <2>2
<1>11. ASSUME NEW c \in Caller, NEW t \in Task, CommitThrows(c, t)
       PROVE  Promise!Refuse(t)
  <2>1. Moves(t, "refused") /\ status[t] = "new"
    BY <1>6, <1>11 DEF CommitThrows, ownerVars, Moves
  <2>2. FutureOf("refused") = "broken" /\ FutureOf(status[t]) = "none"
    BY <2>1 DEF FutureOf
  <2>3. Promise!Move(t, "none", "broken")
    BY <1>3, <2>1, <2>2
  <2> QED
    BY <2>1, <2>3 DEF Promise!Refuse, Moves
<1>12. ASSUME NEW c \in Caller, CommitPush(c)
       PROVE  arg[c] \in Task /\ Promise!Submit(arg[c])
  <2>1. arg[c] \in Task /\ status[arg[c]] = "claimed" /\ Moves(arg[c], "queued")
    BY <1>5, <1>12 DEF CommitPush, IInv, Calls, ownerVars, Moves
  <2>2. FutureOf("queued") = "pending" /\ FutureOf(status[arg[c]]) = "none"
    BY <2>1 DEF FutureOf
  <2>3. Promise!Move(arg[c], "none", "pending")
    BY <1>3, <2>1, <2>2
  <2> QED
    BY <2>1, <2>3 DEF Promise!Submit, Moves
<1>13. ASSUME NEW w \in Worker, Take(w)
       PROVE  Head(tasks) \in Task /\ Promise!Start(Head(tasks))
  <2> DEFINE t == Head(tasks)
  <2>1. t \in Task /\ status[t] = "queued" /\ Moves(t, "running")
    BY <1>4, <1>13 DEF Take, TakeHead, IInv, TypeOK, Queue, ownerVars, Moves
  <2>2. FutureOf("running") = "running" /\ FutureOf(status[t]) = "pending"
    BY <2>1 DEF FutureOf
  <2>3. Promise!Move(t, "pending", "running")
    BY <1>3, <2>1, <2>2
  <2> QED
    BY <2>1, <2>3 DEF Promise!Start, Moves
<1>14. ASSUME NEW w \in Worker, Finish(w)
       PROVE  cur[w] \in Task /\ Promise!Finish(cur[w])
  <2>1. cur[w] \in Task /\ status[cur[w]] = "running" /\ Moves(cur[w], "done")
    BY <1>4, <1>14 DEF Finish, IInv, Running, ownerVars, Moves
  <2>2. FutureOf("done") = "done" /\ FutureOf(status[cur[w]]) = "running"
    BY <2>1 DEF FutureOf
  <2>3. Promise!Move(cur[w], "running", "done")
    BY <1>3, <2>1, <2>2
  <2> QED
    BY <2>1, <2>3 DEF Promise!Finish, Moves
<1>15. CASE Join
  <2>1. owner = "join" /\ owner' = "destroyed" /\ UNCHANGED status
    BY <1>15 DEF Join, ReturnFromJoin
  <2>2. \A t \in Task : status[t] \in {"new", "refused", "done"}
    BY <1>15, <2>1, NothingLeft DEF Join
  <2>3. \A t \in Task : FutureOf(status[t]) \notin {"pending", "running"}
    BY <2>2 DEF FutureOf
  <2>4. Promise!Close
    BY <2>1, <2>3 DEF Promise!Close
  <2> QED
    BY <2>4 DEF Promise!Next
<1>16. CASE UNCHANGED vars
  BY <1>1, <1>16 DEF vars
<1> QED
  BY <1>7, <1>8, <1>9, <1>10, <1>11, <1>12, <1>13, <1>14, <1>15, <1>16
  DEF Next, OwnerStep, CallStep, WorkerStep, Promise!Next

\* std::threadpool implements the abstract pool that drops no task: every
\* future it hands out is filled exactly once, before the object is gone.
THEOREM PoolKeepsPromise == Spec => KeepsPromise
<1>1. Init => Promise!Init
  BY DEF Init, Promise!Init, FutureOf
<1>2. IInv /\ IInv' /\ [Next]_vars => [Promise!Next]_(Promise!vars)
  BY RefinedStep
<1> QED
  BY <1>1, <1>2, Invariance, PTL DEF Spec, KeepsPromise, Promise!Spec
===============================================================================
