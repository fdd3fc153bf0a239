--------------------------- MODULE EzThreadPoolProofs ---------------------------
(***************************************************************************)
(* Proofs about EzThreadPool for any workers, posters, tasks and sizes: the *)
(* queue and the futures agree, shutdown lets each worker start one more    *)
(* task at most, and every future is filled or broken exactly once.         *)
(***************************************************************************)
EXTENDS EzThreadPool, FiniteSetTheorems, TLAPS

\* Exactly the started threads have a place in worker_loop; the destructor
\* is past its join only when they have all left it.
Born ==
    /\ \A w \in Worker : pc[w] = "unborn" <=> w \notin threads
    /\ owner = "destroyed" => \A w \in threads : pc[w] = "exited"

\* A running task is held by one worker.
Running ==
    /\ \A w \in Worker : pc[w] = "run" => cur[w] \in Task /\ future[cur[w]] = "running"
    /\ \A v, w \in Worker : pc[v] = "run" /\ pc[w] = "run" /\ cur[v] = cur[w] => v = w
    /\ \A t \in Task : future[t] = "running" =>
           \E w \in Worker : pc[w] = "run" /\ cur[w] = t

\* A worker that has started a task after exit_ was set does not pop again.
Late == \A w \in late : exiting /\ pc[w] \in {"run", "check", "exited"}

IInv == TypeOK /\ QueueExact /\ Born /\ Running /\ Late

\* The initial states satisfy the invariant.
LEMMA InitIInv == Init => IInv
<1> SUFFICES ASSUME Init PROVE IInv
  OBVIOUS
<1>1. TypeOK
  <2>1. exiting \in BOOLEAN
    BY DEF Init
  <2>2. late \in SUBSET Worker
    BY DEF Init
  <2> QED
    BY <2>1, <2>2 DEF Init, TypeOK
<1>2. QueueExact
  BY SizeAssumption DEF Init, QueueExact
<1>3. Born /\ Running /\ Late
  BY DEF Init, Born, Running, Late
<1> QED
  BY <1>1, <1>2, <1>3 DEF IInv

-------------------------------------------------------------------------------
\* What the head of a queue that holds each task once tells of its tail.
LEMMA HeadOnce ==
    ASSUME NEW q \in Seq(Task), q # <<>>,
           \A i, j \in 1..Len(q) : q[i] = q[j] => i = j
    PROVE  /\ Head(q) \in Task
           /\ Head(q) = q[1] /\ 1 \in 1..Len(q)
           /\ Len(Tail(q)) = Len(q) - 1
           /\ \A i \in 1..Len(Tail(q)) :
                  i + 1 \in 1..Len(q) /\ Tail(q)[i] = q[i + 1] /\ q[i + 1] # Head(q)
           /\ \A i \in 1..Len(q) : q[i] # Head(q) =>
                  i - 1 \in 1..Len(Tail(q)) /\ Tail(q)[i - 1] = q[i]
<1>1. Len(q) \in Nat \ {0} /\ Len(Tail(q)) = Len(q) - 1 /\ Head(q) = q[1] /\ Head(q) \in Task
  OBVIOUS
<1>2. \A i \in 1..Len(Tail(q)) : Tail(q)[i] = q[i + 1]
  BY <1>1
<1>3. ASSUME NEW i \in 1..Len(Tail(q)) PROVE i + 1 \in 1..Len(q) /\ q[i + 1] # Head(q)
  BY <1>1
<1>4. ASSUME NEW i \in 1..Len(q), q[i] # Head(q)
      PROVE  i - 1 \in 1..Len(Tail(q)) /\ Tail(q)[i - 1] = q[i]
  <2>1. i # 1 /\ i - 1 \in 1..Len(Tail(q)) /\ (i - 1) + 1 = i
    BY <1>1, <1>4
  <2> QED
    BY <1>2, <2>1
<1> QED
  BY <1>1, <1>2, <1>3, <1>4

\* The invariant is inductive.
LEMMA Inductive == IInv /\ [Next]_vars => IInv'
<1> SUFFICES ASSUME IInv, [Next]_vars PROVE IInv'
  OBVIOUS
<1> USE SizeAssumption, NoTaskAssumption, ThreadAssumption DEF IInv
<1>1. ASSUME NEW w \in Worker, StartWorker(w) PROVE IInv'
  <2>1. TypeOK'
    BY <1>1 DEF StartWorker, TypeOK
  <2>2. QueueExact'
    BY <1>1 DEF StartWorker, QueueExact
  <2>3. Born'
    BY <1>1 DEF StartWorker, TypeOK, Born
  <2>4. Running'
    BY <1>1 DEF StartWorker, TypeOK, Born, Running
  <2>5. Late'
    BY <1>1 DEF StartWorker, TypeOK, Born, Late
  <2> QED
    BY <2>1, <2>2, <2>3, <2>4, <2>5
<1>2. CASE ConstructThrows \/ Constructed \/ Shutdown \/ Destroy
  <2>1. /\ UNCHANGED <<threadNum, queue, threads, pc, cur, future, late>>
        /\ owner' \in {"thrown", "live", "join"}
        /\ exiting' \in {exiting, TRUE}
    BY <1>2 DEF ConstructThrows, Constructed, Shutdown, Destroy
  <2>2. exiting' \in BOOLEAN
    BY <2>1 DEF TypeOK
  <2>3. TypeOK'
    BY <2>1, <2>2 DEF TypeOK
  <2>4. QueueExact' /\ Born' /\ Running'
    BY <2>1 DEF QueueExact, Born, Running
  <2>5. exiting => exiting'
    BY <1>2 DEF ConstructThrows, Constructed, Shutdown, Destroy
  <2>6. Late'
    BY <2>1, <2>5 DEF Late
  <2> QED
    BY <2>3, <2>4, <2>6
<1>3. ASSUME NEW c \in Poster \cup Worker, NEW t \in Task, PostWorkTask(c, t) PROVE IInv'
  <2>1. CASE Len(queue) < MaxItem
    <3>0. ~(Len(queue) >= MaxItem)
      BY <2>1 DEF TypeOK
    <3>1. /\ queue' = Append(queue, t)
          /\ future' = [future EXCEPT ![t] = "pending"]
          /\ future[t] = "none"
          /\ UNCHANGED <<owner, threadNum, exiting, threads, pc, cur, late>>
      BY <1>3, <3>0 DEF PostWorkTask, PushBack
    <3>2. TypeOK'
      BY <3>1 DEF TypeOK
    <3>3. QueueExact'
      BY <2>1, <3>1 DEF TypeOK, QueueExact
    <3>4. Born' /\ Running' /\ Late'
      BY <3>1 DEF TypeOK, Born, Running, Late
    <3> QED
      BY <3>2, <3>3, <3>4
  <2>2. CASE Len(queue) >= MaxItem
    <3>1. /\ queue' = queue
          /\ future' = [future EXCEPT ![t] = "broken"]
          /\ future[t] = "none"
          /\ UNCHANGED <<owner, threadNum, exiting, threads, pc, cur, late>>
      BY <1>3, <2>2 DEF PostWorkTask, PushBack, TypeOK
    <3>2. TypeOK'
      BY <3>1 DEF TypeOK
    <3>3. QueueExact' /\ Born' /\ Late'
      BY <3>1 DEF TypeOK, QueueExact, Born, Late
    <3>4. Running'
      BY <3>1 DEF TypeOK, Running
    <3> QED
      BY <3>2, <3>3, <3>4
  <2> QED
    BY <2>1, <2>2 DEF TypeOK
<1>4. ASSUME NEW w \in Worker, PopItem(w) PROVE IInv'
  <2>1. CASE queue = <<>>
    <3>1. /\ pc' = [pc EXCEPT ![w] = "sleep"] /\ pc[w] = "pop"
          /\ cur' = [cur EXCEPT ![w] = NoTask]
          /\ UNCHANGED <<owner, threadNum, exiting, queue, threads, future, late>>
      BY <1>4, <2>1 DEF PopItem, PopFront
    <3>2. TypeOK'
      BY <3>1 DEF TypeOK
    <3>3. QueueExact' /\ Born' /\ Late'
      BY <3>1 DEF TypeOK, QueueExact, Born, Late
    <3>4. Running'
      BY <3>1 DEF TypeOK, Running
    <3> QED
      BY <3>2, <3>3, <3>4
  <2>2. CASE queue # <<>>
    <3> DEFINE t == Head(queue)
    <3>1. /\ pc' = [pc EXCEPT ![w] = "run"] /\ pc[w] = "pop"
          /\ cur' = [cur EXCEPT ![w] = t]
          /\ queue' = Tail(queue)
          /\ future' = [future EXCEPT ![t] = "running"]
          /\ late' = IF exiting THEN late \cup {w} ELSE late
          /\ UNCHANGED <<owner, threadNum, exiting, threads>>
      BY <1>4, <2>2 DEF PopItem, PopFront
    <3>2. queue \in Seq(Task) /\ \A i, j \in 1..Len(queue) : queue[i] = queue[j] => i = j
      BY DEF TypeOK, QueueExact
    <3>3. /\ t \in Task /\ t = queue[1] /\ 1 \in 1..Len(queue)
          /\ Len(Tail(queue)) = Len(queue) - 1
          /\ \A i \in 1..Len(Tail(queue)) : /\ i + 1 \in 1..Len(queue)
                                            /\ Tail(queue)[i] = queue[i + 1]
                                            /\ queue[i + 1] # t
          /\ \A i \in 1..Len(queue) : queue[i] # t =>
                 i - 1 \in 1..Len(Tail(queue)) /\ Tail(queue)[i - 1] = queue[i]
      BY <2>2, <3>2, HeadOnce
    <3> HIDE DEF t
    <3>4. future[t] = "pending"
      BY <3>3 DEF QueueExact
    <3>5. TypeOK'
      BY <2>2, <3>1, <3>3 DEF TypeOK
    <3>6. QueueExact'
      <4>1. Len(queue') <= MaxItem
        BY <3>1, <3>3 DEF QueueExact, TypeOK
      <4>2. \A i \in 1..Len(queue') : future'[queue'[i]] = "pending"
        BY <3>1, <3>3 DEF QueueExact, TypeOK
      <4>3. \A i, j \in 1..Len(queue') : queue'[i] = queue'[j] => i = j
        BY <3>1, <3>3 DEF QueueExact
      <4>4. ASSUME NEW u \in Task, future'[u] = "pending"
            PROVE  \E i \in 1..Len(queue') : queue'[i] = u
        <5>1. u # t /\ future[u] = "pending"
          BY <3>1, <3>3, <4>4 DEF TypeOK
        <5>2. PICK i \in 1..Len(queue) : queue[i] = u
          BY <5>1 DEF QueueExact
        <5> QED
          BY <3>1, <3>3, <5>1, <5>2
      <4> QED
        BY <4>1, <4>2, <4>3, <4>4 DEF QueueExact
    <3>7. Born'
      BY <3>1 DEF TypeOK, Born
    <3>8. Running'
      BY <3>1, <3>3, <3>4 DEF TypeOK, Running
    <3>9. Late'
      BY <3>1 DEF TypeOK, Late
    <3> QED
      BY <3>5, <3>6, <3>7, <3>8, <3>9
  <2> QED
    BY <2>1, <2>2
<1>5. ASSUME NEW w \in Worker, Sleep(w) PROVE IInv'
  BY <1>5 DEF Sleep, TypeOK, QueueExact, Born, Running, Late
<1>6. ASSUME NEW w \in Worker, RunTask(w) PROVE IInv'
  <2>1. cur[w] \in Task /\ future[cur[w]] = "running"
    BY <1>6 DEF RunTask, Running
  <2>2. TypeOK' /\ Born' /\ Late'
    BY <1>6, <2>1 DEF RunTask, TypeOK, Born, Late
  <2>3. QueueExact'
    BY <1>6, <2>1 DEF RunTask, TypeOK, QueueExact
  <2>4. Running'
    BY <1>6, <2>1 DEF RunTask, TypeOK, Running
  <2> QED
    BY <2>2, <2>3, <2>4
<1>7. ASSUME NEW w \in Worker, CheckExit(w) PROVE IInv'
  BY <1>7 DEF CheckExit, LeaveOrPop, TypeOK, QueueExact, Born, Running, Late
<1>8. CASE Join
  BY <1>8 DEF Join, ReleaseMembers, TypeOK, QueueExact, Born, Running, Late
<1>9. CASE UNCHANGED vars
  BY <1>9 DEF vars, TypeOK, QueueExact, Born, Running, Late
<1> QED
  BY <1>1, <1>2, <1>3, <1>4, <1>5, <1>6, <1>7, <1>8, <1>9
  DEF Next, OwnerStep, WorkerStep

\* The invariant holds in every reachable state.
THEOREM Invariance == Spec => []IInv
  BY InitIInv, Inductive, PTL DEF Spec

\* Every variable keeps its type.
THEOREM TypeCorrect == Spec => []TypeOK
<1>1. IInv => TypeOK
  BY DEF IInv
<1> QED
  BY <1>1, Invariance, PTL

\* The queue is bounded by max_item and agrees with the futures.
THEOREM QueueIsExact == Spec => []QueueExact
<1>1. IInv => QueueExact
  BY DEF IInv
<1> QED
  BY <1>1, Invariance, PTL

\* Shutdown lets each worker start one more task at most.
THEOREM OneLateStart == Spec => AtMostOneLateStart
<1>1. IInv /\ [Next]_vars => [\A w \in late : pc'[w] = "run" => pc[w] = "run"]_vars
  <2> SUFFICES ASSUME IInv, [Next]_vars, NEW w \in late, pc'[w] = "run"
               PROVE  pc[w] = "run"
    OBVIOUS
  <2>1. w \in Worker /\ pc[w] # "pop"
    BY DEF IInv, TypeOK, Late
  <2>2. ASSUME NEW v \in Worker, PopItem(v) PROVE pc[w] = "run"
    BY <2>1, <2>2 DEF PopItem, IInv, TypeOK
  <2>3. ASSUME NEW v \in Worker, StartWorker(v) PROVE pc[w] = "run"
    BY <2>1, <2>3 DEF StartWorker, IInv, TypeOK
  <2>4. ASSUME NEW v \in Worker, Sleep(v) \/ RunTask(v) \/ CheckExit(v) PROVE pc[w] = "run"
    BY <2>1, <2>4 DEF Sleep, RunTask, CheckExit, LeaveOrPop, IInv, TypeOK
  <2>5. ASSUME UNCHANGED pc PROVE pc[w] = "run"
    BY <2>5
  <2> QED
    BY <2>2, <2>3, <2>4, <2>5
    DEF Next, OwnerStep, WorkerStep, ConstructThrows, Constructed, Shutdown, Destroy,
        PostWorkTask, Join, ReleaseMembers, vars
<1> QED
  BY <1>1, Invariance, PTL DEF Spec, AtMostOneLateStart

-------------------------------------------------------------------------------
(* Refinement of TaskPool, with tasks that may be dropped.                 *)

\* Every step is a step of TaskPool or a stutter: a post submits or refuses, a pop
\* starts, a run finishes, and the destructor closes.
LEMMA RefinedStep ==
    ASSUME IInv, [Next]_vars
    PROVE  [Promise!Next]_(Promise!vars)
<1> USE DEF Promise!vars
<1>1. future \in [Task -> {"none", "pending", "running", "done", "broken"}]
  BY DEF IInv, TypeOK
<1>2. ASSUME NEW w \in Worker, pc[w] \in {"pop", "run"} PROVE owner # "destroyed"
  BY <1>2 DEF IInv, Born
<1>3. ASSUME NEW w \in Worker, StartWorker(w) \/ Sleep(w) \/ CheckExit(w)
      PROVE  UNCHANGED Promise!vars
  BY <1>3 DEF StartWorker, Sleep, CheckExit, LeaveOrPop
<1>4. ASSUME ConstructThrows \/ Constructed \/ Shutdown \/ Destroy
      PROVE  UNCHANGED Promise!vars
  BY <1>4 DEF ConstructThrows, Constructed, Shutdown, Destroy
<1>5. ASSUME NEW c \in Poster \cup Worker, NEW t \in Task, PostWorkTask(c, t)
      PROVE  Promise!Submit(t) \/ Promise!Refuse(t)
  <2>1. owner # "destroyed"
    BY <1>2, <1>5 DEF PostWorkTask, MayPost
  <2>2. \/ future' = [future EXCEPT ![t] = "pending"]
        \/ future' = [future EXCEPT ![t] = "broken"]
    BY <1>5 DEF PostWorkTask
  <2> QED
    BY <1>5, <2>1, <2>2 DEF PostWorkTask, Promise!Submit, Promise!Refuse, Promise!Move
<1>6. ASSUME NEW w \in Worker, PopItem(w)
      PROVE  UNCHANGED Promise!vars \/ \E t \in Task : Promise!Start(t)
  <2>1. CASE queue = <<>>
    BY <1>6, <2>1 DEF PopItem, PopFront
  <2>2. CASE queue # <<>>
    <3>1. Head(queue) \in Task /\ future[Head(queue)] = "pending"
      BY <2>2, HeadOnce DEF IInv, TypeOK, QueueExact
    <3>2. future' = [future EXCEPT ![Head(queue)] = "running"] /\ owner' = owner
      BY <1>6, <2>2 DEF PopItem, PopFront
    <3>3. owner # "destroyed"
      BY <1>2, <1>6 DEF PopItem
    <3> QED
      BY <3>1, <3>2, <3>3 DEF Promise!Start, Promise!Move
  <2> QED
    BY <2>1, <2>2
<1>7. ASSUME NEW w \in Worker, RunTask(w)
      PROVE  cur[w] \in Task /\ Promise!Finish(cur[w])
  BY <1>2, <1>7 DEF RunTask, IInv, Running, Promise!Finish, Promise!Move
<1>8. CASE Join
  <2>1. \A t \in Task : future[t] # "running"
    BY <1>8 DEF Join, IInv, Running, Born
  <2>2. Promise!Close
    BY <1>8, <2>1 DEF Join, ReleaseMembers, Promise!Close
  <2> QED
    BY <2>2 DEF Promise!Next
<1>9. CASE UNCHANGED vars
  BY <1>9 DEF vars
<1> QED
  BY <1>3, <1>4, <1>5, <1>6, <1>7, <1>8, <1>9 DEF Next, OwnerStep, WorkerStep, Promise!Next

\* ez::thread_pool implements the abstract pool that may drop tasks: every
\* future is filled or broken exactly once, and none is left pending.
THEOREM PoolKeepsPromise == Spec => KeepsPromise
<1>1. Init => Promise!Init
  BY DEF Init, Promise!Init
<1>2. IInv /\ [Next]_vars => [Promise!Next]_(Promise!vars)
  BY RefinedStep
<1> QED
  BY <1>1, <1>2, Invariance, PTL DEF Spec, KeepsPromise, Promise!Spec
===============================================================================
