------------------------------ MODULE WorkThread ------------------------------
(***************************************************************************)
(* WorkThread of Socket/pocoImp: a thread that is asked to leave by a flag  *)
(* and an event.  Its owner starts it, stops it and destroys the object;    *)
(* others may ask it to leave too.  Poco's event is auto-reset: the first   *)
(* CheckExit that waits takes it away from all others.                      *)
(***************************************************************************)
EXTENDS Naturals

CONSTANTS Other,   \* threads that call SetExit and CheckExit
          Worker,  \* the thread itself: its run() calls CheckExit in a loop
          Owner    \* the thread that calls InitThread, UnInitThread, the destructor

Setter == Other \cup {Owner}
Checker == Other \cup {Worker}

VARIABLES exitAtom,   \* m_exitAtom
          exitEvent,  \* m_exitEvent
          running,    \* m_workThread.isRunning()
          owner,      \* where the owner is
          setting,    \* who is between the two statements of SetExit
          check,      \* CheckExit: "out", "wait" in tryWait, "last" before the second look
          gone,       \* the object is destroyed
          taken,      \* history: those in setting whose request an InitThread took back
          asked       \* history: a SetExit has returned that no InitThread took back

vars == <<exitAtom, exitEvent, running, owner, setting, check, gone, taken, asked>>

Init ==
    /\ exitAtom = FALSE /\ exitEvent = FALSE
    /\ running = FALSE
    /\ owner = "idle"
    /\ setting = {}
    /\ check = [c \in Checker |-> "out"]
    /\ gone = FALSE
    /\ taken = {} /\ asked = FALSE

-------------------------------------------------------------------------------
\* InitThread of a thread that still runs takes back the request to leave before
\* start() throws.
ResetAtom ==
    /\ owner = "idle" /\ owner' = "event"
    /\ exitAtom' = FALSE /\ asked' = FALSE /\ taken' = setting
    /\ UNCHANGED <<exitEvent, running, setting, check, gone>>

ResetEvent ==
    /\ owner = "event" /\ owner' = "start"
    /\ exitEvent' = FALSE
    /\ UNCHANGED <<exitAtom, running, setting, check, gone, taken, asked>>

Start ==
    /\ owner = "start" /\ owner' = "idle"
    /\ running' = TRUE
    /\ UNCHANGED <<exitAtom, exitEvent, setting, check, gone, taken, asked>>

\* The first half of a SetExit that relies on the event.
SetNoAtom(t) ==
    /\ t \notin setting /\ setting' = setting \cup {t}
    /\ IF t = Owner THEN owner = "idle" /\ owner' \in {"stop", "destroy"} ELSE UNCHANGED owner
    /\ taken' = taken \ {t}
    /\ UNCHANGED <<exitAtom, exitEvent, running, check, gone, asked>>

SetAtom(t) ==
    /\ t \notin setting /\ setting' = setting \cup {t}
    /\ IF t = Owner THEN owner = "idle" /\ owner' \in {"stop", "destroy"} ELSE UNCHANGED owner
    /\ exitAtom' = TRUE /\ taken' = taken \ {t}
    /\ UNCHANGED <<exitEvent, running, check, gone, asked>>

SetEvent(t) ==
    /\ t \in setting /\ setting' = setting \ {t}
    /\ exitEvent' = TRUE /\ asked' = (asked \/ t \notin taken)
    /\ UNCHANGED <<exitAtom, running, owner, check, gone, taken>>

\* tryJoin(2000), whose timeout nothing follows from: the destructor goes on.
TryJoin ==
    /\ owner \in {"stop", "destroy"} /\ Owner \notin setting
    /\ owner' = "idle"
    /\ gone' = (owner = "destroy")
    /\ UNCHANGED <<exitAtom, exitEvent, running, setting, check, taken, asked>>

-------------------------------------------------------------------------------
Answer(c, exit) ==
    /\ check' = [check EXCEPT ![c] = "out"]
    /\ running' = (running /\ ~(c = Worker /\ exit))

FirstLook(c, milliseconds) ==
    /\ check[c] = "out" /\ (c = Worker => running)
    /\ CASE exitAtom -> Answer(c, TRUE)
         [] ~exitAtom /\ milliseconds = 0 -> Answer(c, FALSE)
         [] OTHER -> check' = [check EXCEPT ![c] = "wait"] /\ UNCHANGED running
    /\ UNCHANGED <<exitAtom, exitEvent, owner, setting, gone, taken, asked>>

TryWait(c) ==
    /\ check[c] = "wait"
    /\ \/ exitEvent /\ exitEvent' = FALSE /\ Answer(c, TRUE)
       \/ ~exitEvent /\ check' = [check EXCEPT ![c] = "last"] /\ UNCHANGED <<exitEvent, running>>
    /\ UNCHANGED <<exitAtom, owner, setting, gone, taken, asked>>

SecondLook(c) ==
    /\ check[c] = "last"
    /\ Answer(c, exitAtom)
    /\ UNCHANGED <<exitAtom, exitEvent, owner, setting, gone, taken, asked>>

\* run() may also return of itself; the one of this class does so at once.
RunReturns ==
    /\ running /\ check[Worker] = "out"
    /\ running' = FALSE
    /\ UNCHANGED <<exitAtom, exitEvent, owner, setting, check, gone, taken, asked>>

-------------------------------------------------------------------------------
CheckExit(c) ==
    /\ ~gone
    /\ TryWait(c) \/ SecondLook(c) \/ \E milliseconds \in {0, 100} : FirstLook(c, milliseconds)

OwnerStep ==
    /\ ~gone
    /\ ResetAtom \/ ResetEvent \/ Start \/ SetAtom(Owner) \/ SetEvent(Owner) \/ TryJoin

Next ==
    \/ OwnerStep
    \/ \E c \in Checker : CheckExit(c)
    \/ ~gone /\ RunReturns
    \/ ~gone /\ \E t \in Other : SetAtom(t) \/ SetEvent(t)

Spec == Init /\ [][Next]_vars
FairSpec == Spec /\ WF_vars(CheckExit(Worker))

-------------------------------------------------------------------------------
\* A thread that keeps calling CheckExit leaves once it has been asked to, whoever
\* else asked, checked and took the event, and however often; only an InitThread
\* takes the request back.
ExitEndsTheThread ==
    running /\ asked ~> ~running \/ ~asked \/ gone

===============================================================================
