---------------------------- MODULE MCStdThreadPool ----------------------------
(* Small instances of StdThreadPool: two or three threads, tasks that may    *)
(* commit other tasks, one client.  Extends the proofs for the assumption    *)
(* they make, which TLC then evaluates.                                      *)
EXTENDS StdThreadPoolProofs

CONSTANTS w1, w2, w3, c1, t1, t2, t3

TwoWorkers == {w1, w2}
ThreeWorkers == {w1, w2, w3}
OneClient == {c1}
TwoTasks == {t1, t2}
ThreeTasks == {t1, t2, t3}
================================================================================
