------------------------------- MODULE EzSignal -------------------------------
(***************************************************************************)
(* ez::signal (myutils/include/ez/signal.hpp): threads that wait() or       *)
(* wait_for(), and threads that notify and reset.  A notification sets the  *)
(* flags under mu_ and signals cv_ after it has let go of mu_, so others    *)
(* run in between.  A wait tests sg_ and goes to sleep on cv_ in one step,  *)
(* for it holds mu_ from the test to the sleep.                             *)
(***************************************************************************)
EXTENDS SignalFlag, Naturals, FiniteSets

CONSTANTS Waiter,     \* threads that call wait
          Timed,      \* threads that call wait_for
          Notifier,   \* threads that call notify_one, notify_all and reset
          MaxCalls    \* bound: the calls of the notifiers

ASSUME ThreadsAssumption == Waiter \cap Timed = {}
ASSUME MaxCallsAssumption == MaxCalls \in Nat

VARIABLES flags,   \* sg_ and re_
          wait,    \* waiting thread: "idle", "blocked" on cv_, or "woken"
          notify,  \* notifier: "idle", or before cv_.notify_"one" or _"all"
          calls,   \* the calls of notifiers so far
          sent,    \* history: calls of notify_one that found sg_ not set
          passed,  \* history: waits that returned true or normally while re_
          spent    \* history: a wait_for that cv_ had woken reported a timeout

vars == <<flags, wait, notify, calls, sent, passed, spent>>

Blocked == {w \in Waiter \cup Timed : wait[w] = "blocked"}

Init ==
    /\ flags = Clear
    /\ wait = [w \in Waiter \cup Timed |-> "idle"]
    /\ notify = [n \in Notifier |-> "idle"]
    /\ calls = 0
    /\ sent = 0
    /\ passed = 0
    /\ spent = FALSE

-------------------------------------------------------------------------------
(* Waits.                                                                  *)

\* The signal is set: reset it if re_, and return.
Pass(w) ==
    /\ flags' = Consume(flags)
    /\ passed' = IF flags.re THEN passed + 1 ELSE passed
    /\ wait' = [wait EXCEPT ![w] = "idle"]

Sleep(w) ==
    /\ ~flags.sg
    /\ wait' = [wait EXCEPT ![w] = "blocked"]
    /\ UNCHANGED <<flags, passed>>

Wait(w) ==
    /\ w \in Waiter
    /\ wait[w] = "idle"
    /\ (flags.sg /\ Pass(w)) \/ Sleep(w)
    /\ UNCHANGED <<notify, calls, sent, spent>>

\* wait_for that finds the signal set does not enter the loop and reads
\* no_timeout, which nothing has written: any value.
WaitFor(w) ==
    /\ w \in Timed
    /\ wait[w] = "idle"
    /\ \/ flags.sg /\ \E no_timeout \in BOOLEAN :
              IF no_timeout THEN Pass(w) ELSE UNCHANGED <<flags, wait, passed>>
       \/ Sleep(w)
    /\ UNCHANGED <<notify, calls, sent, spent>>

\* The loop of either wait, after cv_ has woken the thread.
Recheck(w) ==
    /\ wait[w] = "woken"
    /\ (flags.sg /\ Pass(w)) \/ Sleep(w)
    /\ UNCHANGED <<notify, calls, sent, spent>>

\* wait_until may report a timeout although the thread was notified.
Timeout(w) ==
    /\ w \in Timed
    /\ wait[w] \in {"blocked", "woken"}
    /\ wait' = [wait EXCEPT ![w] = "idle"]
    /\ spent' = (spent \/ wait[w] = "woken")
    /\ UNCHANGED <<flags, notify, calls, sent, passed>>

SpuriousWakeup(w) ==
    /\ wait[w] = "blocked"
    /\ wait' = [wait EXCEPT ![w] = "woken"]
    /\ UNCHANGED <<flags, notify, calls, sent, passed, spent>>

-------------------------------------------------------------------------------
(* Notifications.                                                          *)

Call(n) ==
    /\ notify[n] = "idle"
    /\ calls < MaxCalls
    /\ calls' = calls + 1
    /\ UNCHANGED <<wait, passed, spent>>

NotifyOne(n) ==
    /\ Call(n)
    /\ sent' = IF flags.sg THEN sent ELSE sent + 1
    /\ flags' = SetOne(flags)
    /\ notify' = [notify EXCEPT ![n] = "one"]

NotifyAll(n) ==
    /\ Call(n)
    /\ flags' = SetAll(flags)
    /\ notify' = [notify EXCEPT ![n] = "all"]
    /\ UNCHANGED sent

Reset(n) ==
    /\ Call(n)
    /\ flags' = Clear
    /\ UNCHANGED <<notify, sent>>

\* Return without the call of cv_.notify_one (a bug the source avoids).
CvForgotten(n) ==
    /\ notify[n] = "one"
    /\ notify' = [notify EXCEPT ![n] = "idle"]
    /\ UNCHANGED <<flags, wait, calls, sent, passed, spent>>

CvNotifyOne(n) ==
    /\ notify[n] = "one"
    /\ notify' = [notify EXCEPT ![n] = "idle"]
    /\ IF Blocked = {} THEN UNCHANGED wait
       ELSE \E w \in Blocked : wait' = [wait EXCEPT ![w] = "woken"]
    /\ UNCHANGED <<flags, calls, sent, passed, spent>>

\* cv_.notify_one where notify_all calls cv_.notify_all.
CvWakesOneOfAll(n) ==
    /\ notify[n] = "all"
    /\ notify' = [notify EXCEPT ![n] = "idle"]
    /\ IF Blocked = {} THEN UNCHANGED wait
       ELSE \E w \in Blocked : wait' = [wait EXCEPT ![w] = "woken"]
    /\ UNCHANGED <<flags, calls, sent, passed, spent>>

CvNotifyAll(n) ==
    /\ notify[n] = "all"
    /\ notify' = [notify EXCEPT ![n] = "idle"]
    /\ wait' = [w \in DOMAIN wait |-> IF w \in Blocked THEN "woken" ELSE wait[w]]
    /\ UNCHANGED <<flags, calls, sent, passed, spent>>

-------------------------------------------------------------------------------
Next ==
    \/ \E w \in Waiter \cup Timed :
          Wait(w) \/ WaitFor(w) \/ Recheck(w) \/ Timeout(w) \/ SpuriousWakeup(w)
    \/ \E n \in Notifier :
          NotifyOne(n) \/ NotifyAll(n) \/ Reset(n) \/ CvNotifyOne(n) \/ CvNotifyAll(n)

Spec == Init /\ [][Next]_vars

\* A woken thread gets mu_ in the end, and a call in progress is finished.
FairSpec ==
    /\ Spec
    /\ \A w \in Waiter \cup Timed : WF_vars(Recheck(w))
    /\ \A n \in Notifier : WF_vars(CvNotifyOne(n)) /\ WF_vars(CvNotifyAll(n))

-------------------------------------------------------------------------------
TypeOK ==
    /\ flags \in Flags
    /\ wait \in [Waiter \cup Timed -> {"idle", "blocked", "woken"}]
    /\ notify \in [Notifier -> {"idle", "one", "all"}]
    /\ calls \in 0..MaxCalls
    /\ sent \in 0..MaxCalls
    /\ passed \in 0..MaxCalls
    /\ spent \in BOOLEAN

\* While the signal resets itself, a notify_one lets at most one wait through,
\* whoever is first: the thread cv_ woke, one that woke spuriously, one that had
\* not begun to wait, or a wait_for that read the unset no_timeout.
OneWaitPerNotify ==
    passed + (IF flags.sg /\ flags.re THEN 1 ELSE 0) <= sent

\* notify_all releases every thread in wait, also those cv_ wakes after others
\* have gone, unless reset is called first.
LatchReleasesAll ==
    \A w \in Waiter :
        wait[w] = "blocked" /\ ~flags.re ~> wait[w] = "idle" \/ flags.re

\* No wake-up is lost between the flag and cv_: a set signal is consumed, or no
\* thread is left asleep, unless a wait_for timed out with the wake-up in hand.
SignalReachesAWaiter ==
    flags.sg /\ Blocked # {} ~> ~flags.sg \/ Blocked = {} \/ spent

===============================================================================
