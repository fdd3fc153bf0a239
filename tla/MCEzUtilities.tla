----------------------------- MODULE MCEzUtilities -----------------------------
(* What threads wait on: EzSignal with two threads in wait, one in wait_for and   *)
(* two notifiers; or WorkThread, whose exit flag and event others set and check;  *)
(* or the reader of MsgQueue.                                                     *)
EXTENDS EzSignal

CONSTANTS w1, w2, t1, n1, n2, o1, o2, Worker, Owner, MaxPushes

VARIABLES part,
          exitAtom, exitEvent, running, owner, setting, check, gone, taken, asked,
          slot, open, exit, loop, holder, pushes

TwoWaiters == {w1, w2}
OneTimed == {t1}
TwoNotifiers == {n1, n2}

Thread == INSTANCE WorkThread WITH Other <- {o1, o2}
Queue == INSTANCE MsgQueue WITH owner <- holder
threadVars ==
    <<exitAtom, exitEvent, running, owner, setting, check, gone, taken, asked>>
queueVars == <<slot, open, exit, loop, holder, pushes>>

UtilitiesInit ==
    part \in {"signal", "thread", "queue"} /\ Init /\ Thread!Init /\ Queue!Init

UtilitiesNext ==
    \/ part = "signal" /\ Next /\ UNCHANGED <<part, threadVars, queueVars>>
    \/ part = "thread" /\ Thread!Next /\ UNCHANGED <<part, vars, queueVars>>
    \/ part = "queue" /\ Queue!Next /\ UNCHANGED <<part, vars, threadVars>>

UtilitiesSpec ==
    /\ UtilitiesInit /\ [][UtilitiesNext]_<<part, vars, threadVars, queueVars>>
    /\ \A w \in Waiter \cup Timed : WF_vars(Recheck(w))
    /\ \A n \in Notifier : WF_vars(CvNotifyOne(n)) /\ WF_vars(CvNotifyAll(n))
    /\ WF_threadVars(part = "thread" /\ Thread!CheckExit(Worker))
    /\ WF_queueVars(part = "queue" /\ Queue!WorkLoop)
    /\ WF_queueVars(part = "queue" /\ Queue!EndDestruct)

ExitEndsTheThread == Thread!ExitEndsTheThread
DestructorEnds == Queue!DestructorEnds
===============================================================================
