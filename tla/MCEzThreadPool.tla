----------------------------- MODULE MCEzThreadPool -----------------------------
(* Small instances of EzThreadPool: two workers, one outside poster, tasks    *)
(* that may post other tasks, a queue smaller than the number of tasks.       *)
EXTENDS EzThreadPool

CONSTANTS w1, w2, p1, t1, t2, t3, t4

TwoWorkers == {w1, w2}
OnePoster == {p1}
ThreeTasks == {t1, t2, t3}
FourTasks == {t1, t2, t3, t4}
================================================================================
