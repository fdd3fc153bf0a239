------------------------- MODULE ServiceProgramProofs -------------------------
(***************************************************************************)
(* Proofs about ServiceProgram, for any number of reports: its types, that  *)
(* ServiceMain and the control handler are never in ReportSvcStatus at one  *)
(* time, what the SCM is told, and what is over when it is told STOPPED.    *)
(***************************************************************************)
EXTENDS ServiceProgram, TLAPS

Pending == {"START_PENDING", "STOP_PENDING"}
InReport(r) == report[r] # Idle

\* The state that ServiceMain reports at each place; it has not come to that
\* report while it is still registering.
ReportOf(m) ==
    CASE m \in {"registering", "registered", "starting"} -> "START_PENDING"
      [] m = "running"  -> "RUNNING"
      [] m = "stopping" -> "STOP_PENDING"
      [] OTHER          -> "STOPPED"

\* A report that is under way owns m_svcStatus, and m_dwCheckPoint is ahead of
\* all that was sent.
ReportInv ==
    /\ InReport("main") => main # "registering" /\ report["main"].state = ReportOf(main)
    /\ InReport("handler") => handler = "reporting" /\ report["handler"].state = "STOP_PENDING"
    /\ \A r \in Reporter :
          /\ report[r].step = "idle" => report[r] = Idle
          /\ report[r].step \in {"checkPoint", "send"} => status.state = report[r].state
          /\ report[r].step = "send" /\ status.state \in {"RUNNING", "STOPPED"}
                => status.checkPoint = 0
          /\ report[r].step = "send" /\ status.state \in Pending
                => status.checkPoint = checkPoint - 1 /\ scm.checkPoint < checkPoint - 1
    /\ scm.checkPoint < checkPoint

\* What the SCM knows, by the place of ServiceMain and the control handler.
ScmInv ==
    /\ main \in {"registering", "registered", "starting"} => scm.state = "START_PENDING"
    /\ main = "running" /\ InReport("main") => scm.state = "START_PENDING"
    /\ main = "running" /\ ~InReport("main") =>
          scm.state = IF InReport("handler") \/ (handler = "idle" /\ "stop" \notin signaled)
                      THEN "RUNNING" ELSE "STOP_PENDING"
    /\ main = "stopping" => scm.state = "STOP_PENDING"
    /\ main = "leaving" =>
          IF InReport("main") THEN scm.state \in {"START_PENDING", "STOP_PENDING"}
                              ELSE scm.state = "STOPPED"
    /\ main = "returned" =>
          IF InReport("main") THEN scm.state = "START_PENDING"
                              ELSE scm.state \in {"START_PENDING", "STOPPED"}

\* The handler runs only while ServiceMain waits for the event it will set.
HandlerInv ==
    /\ handler = "reporting" => main = "running" /\ ~InReport("main") /\ "stop" \notin signaled
    /\ "stop" \in signaled =>
          main = "stopping" \/ (main = "running" /\ ~InReport("main"))

\* ServiceMain waits for the worker and the worker for its task.
WorkerInv ==
    /\ main \in {"registering", "registered", "returned"} => worker = "none"
    /\ worker = "none" => task = "none"
    /\ worker = "started" => task # "none"
    /\ worker = "gone" => task = "over"
    /\ valid = Event /\ main = "leaving" => worker = "gone"

IInv ==
    /\ TypeOK /\ WorkerInv
    /\ "stop" \in valid => ReportInv /\ ScmInv /\ HandlerInv

-----------------------------------------------------------------------------
LEMMA WriteStateStep ==
    ASSUME IInv, NEW r \in Reporter, WriteState(r)
    PROVE  IInv'
<1> USE DEF WriteState, ctxVars, workerVars, Up
<1>1. TypeOK'
  BY DEF IInv, TypeOK, Status
<1>2. WorkerInv'
  BY DEF IInv, WorkerInv, TypeOK
<1>3. "stop" \in valid' => ReportInv' /\ ScmInv' /\ HandlerInv'
  BY DEF IInv, Reporter, Idle, InReport, ReportInv, ScmInv, HandlerInv
<1> QED BY <1>1, <1>2, <1>3 DEF IInv

LEMMA WriteCheckPointStep ==
    ASSUME IInv, NEW r \in Reporter, WriteCheckPoint(r)
    PROVE  IInv'
<1> USE DEF WriteCheckPoint, ctxVars, workerVars, Up
<1>1. TypeOK'
  BY MaxCheckPointAssumption DEF IInv, TypeOK, Status
<1>2. WorkerInv'
  BY DEF IInv, WorkerInv, TypeOK
<1>3. "stop" \in valid' => ReportInv' /\ ScmInv' /\ HandlerInv'
  BY DEF IInv, TypeOK, Status, Idle, InReport, Pending, ReportInv, ScmInv, HandlerInv
<1> QED BY <1>1, <1>2, <1>3 DEF IInv

LEMMA SetServiceStatusStep ==
    ASSUME IInv, NEW r \in Reporter, SetServiceStatus(r)
    PROVE  IInv'
<1> USE DEF SetServiceStatus, ctxVars, workerVars, Up
<1>1. TypeOK'
  BY DEF IInv, TypeOK, State, Idle
<1>2. WorkerInv'
  BY DEF IInv, WorkerInv, TypeOK, Idle
<1>3. "stop" \in valid' => ReportInv' /\ ScmInv' /\ HandlerInv'
  BY DEF IInv, TypeOK, Reporter, Idle, InReport, Pending, ReportInv, ScmInv, HandlerInv, ReportOf
<1> QED BY <1>1, <1>2, <1>3 DEF IInv

LEMMA FirstReportFailsStep ==
    ASSUME IInv, FirstReportFails
    PROVE  IInv'
<1> USE DEF FirstReportFails, MainRuns, Report, ctxVars, workerVars, Up
<1>1. TypeOK'
  BY DEF IInv, TypeOK, State
<1>2. WorkerInv'
  BY DEF IInv, WorkerInv, TypeOK
<1>3. "stop" \in valid' => ReportInv' /\ ScmInv' /\ HandlerInv'
  BY DEF IInv, TypeOK, Reporter, InReport, ReportInv, ScmInv, HandlerInv, ReportOf
<1> QED BY <1>1, <1>2, <1>3 DEF IInv

LEMMA RegisterStep ==
    ASSUME IInv, Register
    PROVE  IInv'
<1> USE DEF Register, MainRuns, Report, ctxVars, workerVars, Up
<1>1. TypeOK'
  BY DEF IInv, TypeOK, State
<1>2. WorkerInv'
  BY DEF IInv, WorkerInv, TypeOK
<1>3. "stop" \in valid' => ReportInv' /\ ScmInv' /\ HandlerInv'
  BY DEF IInv, TypeOK, Reporter, InReport, ReportInv, ScmInv, HandlerInv, ReportOf
<1> QED BY <1>1, <1>2, <1>3 DEF IInv

LEMMA StartWorkerStep ==
    ASSUME IInv, StartWorker
    PROVE  IInv'
<1> USE DEF StartWorker, MainRuns, ctxVars, workerVars, Up
<1>1. TypeOK'
  BY DEF IInv, WorkerInv, TypeOK
<1>2. WorkerInv'
  BY DEF IInv, WorkerInv, TypeOK
<1>3. "stop" \in valid' => ReportInv' /\ ScmInv' /\ HandlerInv'
  BY DEF IInv, InReport, ReportInv, ScmInv, HandlerInv
<1> QED BY <1>1, <1>2, <1>3 DEF IInv

LEMMA StillStartingStep ==
    ASSUME IInv, StillStarting
    PROVE  IInv'
<1> USE DEF StillStarting, MainGoesOn, MainRuns, Report, ctxVars, workerVars, Up
<1>1. TypeOK'
  BY DEF IInv, TypeOK, State
<1>2. WorkerInv'
  BY DEF IInv, WorkerInv, TypeOK
<1>3. "stop" \in valid' => ReportInv' /\ ScmInv' /\ HandlerInv'
  BY DEF IInv, InReport, ReportInv, ScmInv, HandlerInv, ReportOf
<1> QED BY <1>1, <1>2, <1>3 DEF IInv

LEMMA StartedStep ==
    ASSUME IInv, Started
    PROVE  IInv'
<1> USE DEF Started, MainGoesOn, MainRuns, Report, ctxVars, workerVars, Up
<1>1. TypeOK'
  BY DEF IInv, TypeOK, State
<1>2. WorkerInv'
  BY DEF IInv, WorkerInv, TypeOK
<1>3. "stop" \in valid' => ReportInv' /\ ScmInv' /\ HandlerInv'
  BY DEF IInv, TypeOK, Reporter, Idle, InReport, ReportInv, ScmInv, HandlerInv, ReportOf
<1> QED BY <1>1, <1>2, <1>3 DEF IInv

LEMMA StopSeenStep ==
    ASSUME IInv, StopSeen
    PROVE  IInv'
<1> USE DEF StopSeen, MainGoesOn, MainRuns, Report, ctxVars, workerVars, Up
<1>1. TypeOK'
  BY DEF IInv, TypeOK, State
<1>2. WorkerInv'
  BY DEF IInv, WorkerInv, TypeOK
<1>3. "stop" \in valid' => ReportInv' /\ ScmInv' /\ HandlerInv'
  BY DEF IInv, InReport, ReportInv, ScmInv, HandlerInv, ReportOf
<1> QED BY <1>1, <1>2, <1>3 DEF IInv

LEMMA StillStoppingStep ==
    ASSUME IInv, StillStopping
    PROVE  IInv'
<1> USE DEF StillStopping, MainGoesOn, MainRuns, Report, ctxVars, workerVars, Up
<1>1. TypeOK'
  BY DEF IInv, TypeOK, State
<1>2. WorkerInv'
  BY DEF IInv, WorkerInv, TypeOK
<1>3. "stop" \in valid' => ReportInv' /\ ScmInv' /\ HandlerInv'
  BY DEF IInv, InReport, ReportInv, ScmInv, HandlerInv, ReportOf
<1> QED BY <1>1, <1>2, <1>3 DEF IInv

LEMMA StoppedStep ==
    ASSUME IInv, Stopped
    PROVE  IInv'
<1> USE DEF Stopped, MainGoesOn, MainRuns, Report, ctxVars, workerVars, Up
<1>1. TypeOK'
  BY DEF IInv, TypeOK, State
<1>2. WorkerInv'
  BY DEF IInv, WorkerInv, TypeOK
<1>3. "stop" \in valid' => ReportInv' /\ ScmInv' /\ HandlerInv'
  BY DEF IInv, TypeOK, Reporter, Idle, InReport, ReportInv, ScmInv, HandlerInv, ReportOf
<1> QED BY <1>1, <1>2, <1>3 DEF IInv

LEMMA WaitFailsStep ==
    ASSUME IInv, WaitFails
    PROVE  IInv'
<1> USE DEF WaitFails, MainGoesOn, MainRuns, Report, ctxVars, workerVars, Up
<1>1. TypeOK'
  <2>1. CASE "started" \notin valid /\ MainGoesOn("starting", "leaving", "STOPPED")
    BY <2>1 DEF IInv, TypeOK, State
  <2>2. CASE "stop" \notin valid /\ MainGoesOn("running", "leaving", "STOPPED")
    BY <2>2 DEF IInv, TypeOK, State
  <2> QED BY <2>1, <2>2
<1>2. WorkerInv'
  BY DEF IInv, WorkerInv, Event
<1>3. "stop" \in valid' => ReportInv' /\ ScmInv' /\ HandlerInv'
  BY DEF IInv, TypeOK, Event, Reporter, Idle, InReport, ReportInv, ScmInv, HandlerInv, ReportOf
<1> QED BY <1>1, <1>2, <1>3 DEF IInv

LEMMA LeaveStep ==
    ASSUME IInv, Leave
    PROVE  IInv'
<1> USE DEF Leave, MainRuns, ctxVars, workerVars, Up
<1>1. TypeOK'
  BY DEF IInv, TypeOK
<1>2. WorkerInv'
  BY DEF IInv, WorkerInv, TypeOK
<1>3. "stop" \in valid' => ReportInv' /\ ScmInv' /\ HandlerInv'
  BY DEF IInv, InReport, ReportInv, ScmInv, HandlerInv
<1> QED BY <1>1, <1>2, <1>3 DEF IInv

LEMMA WorkerStartsStep ==
    ASSUME IInv, WorkerStarts
    PROVE  IInv'
<1> USE DEF WorkerStarts, ctxVars, workerVars, Up
<1>1. TypeOK'
  BY DEF IInv, TypeOK
<1>2. WorkerInv'
  BY DEF IInv, WorkerInv, TypeOK
<1>3. "stop" \in valid' => ReportInv' /\ ScmInv' /\ HandlerInv'
  BY DEF IInv, InReport, ReportInv, ScmInv, HandlerInv
<1> QED BY <1>1, <1>2, <1>3 DEF IInv

LEMMA WorkerReadyStep ==
    ASSUME IInv, WorkerReady
    PROVE  IInv'
<1> USE DEF WorkerReady, Signaled, ctxVars, workerVars, Up
<1>1. TypeOK'
  BY DEF IInv, WorkerInv, TypeOK
<1>2. WorkerInv'
  BY DEF IInv, WorkerInv, TypeOK
<1>3. "stop" \in valid' => ReportInv' /\ ScmInv' /\ HandlerInv'
  BY DEF IInv, InReport, ReportInv, ScmInv, HandlerInv
<1> QED BY <1>1, <1>2, <1>3 DEF IInv

LEMMA WorkerStopsStep ==
    ASSUME IInv, WorkerStops
    PROVE  IInv'
<1> USE DEF WorkerStops, ctxVars, workerVars, Up
<1>1. TypeOK'
  BY DEF IInv, TypeOK
<1>2. WorkerInv'
  BY DEF IInv, WorkerInv, TypeOK
<1>3. "stop" \in valid' => ReportInv' /\ ScmInv' /\ HandlerInv'
  BY DEF IInv, InReport, ReportInv, ScmInv, HandlerInv
<1> QED BY <1>1, <1>2, <1>3 DEF IInv

LEMMA TaskEndsStep ==
    ASSUME IInv, TaskEnds
    PROVE  IInv'
<1> USE DEF TaskEnds, ctxVars, workerVars, Up
<1>1. TypeOK'
  BY DEF IInv, TypeOK
<1>2. WorkerInv'
  BY DEF IInv, WorkerInv, TypeOK
<1>3. "stop" \in valid' => ReportInv' /\ ScmInv' /\ HandlerInv'
  BY DEF IInv, InReport, ReportInv, ScmInv, HandlerInv
<1> QED BY <1>1, <1>2, <1>3 DEF IInv

LEMMA WorkerEndsStep ==
    ASSUME IInv, WorkerEnds
    PROVE  IInv'
<1> USE DEF WorkerEnds, ctxVars, workerVars, Up
<1>1. TypeOK'
  BY DEF IInv, TypeOK
<1>2. WorkerInv'
  BY DEF IInv, WorkerInv, TypeOK
<1>3. "stop" \in valid' => ReportInv' /\ ScmInv' /\ HandlerInv'
  BY DEF IInv, InReport, ReportInv, ScmInv, HandlerInv
<1> QED BY <1>1, <1>2, <1>3 DEF IInv

LEMMA ControlStep ==
    ASSUME IInv, Control
    PROVE  IInv'
<1> USE DEF Control, Accepting, Report, ctxVars, workerVars, Up
<1>1. TypeOK'
  BY DEF IInv, TypeOK, State
<1>2. WorkerInv'
  BY DEF IInv, WorkerInv, TypeOK
<1>3. "stop" \in valid' => ReportInv' /\ ScmInv' /\ HandlerInv'
  BY DEF IInv, TypeOK, Reporter, Idle, InReport, ReportInv, ScmInv, HandlerInv
<1> QED BY <1>1, <1>2, <1>3 DEF IInv

LEMMA SignalStopStep ==
    ASSUME IInv, SignalStop
    PROVE  IInv'
<1> USE DEF SignalStop, Signaled, ctxVars, workerVars, Up
<1>1. TypeOK'
  BY DEF IInv, TypeOK
<1>2. WorkerInv'
  BY DEF IInv, WorkerInv, TypeOK
<1>3. "stop" \in valid' => ReportInv' /\ ScmInv' /\ HandlerInv'
  BY DEF IInv, InReport, ReportInv, ScmInv, HandlerInv
<1> QED BY <1>1, <1>2, <1>3 DEF IInv

LEMMA MainReturnsStep ==
    ASSUME IInv, MainReturns
    PROVE  IInv'
<1> USE DEF MainReturns, ctxVars, workerVars, Up
<1>1. TypeOK'
  BY DEF IInv, TypeOK
<1>2. WorkerInv'
  BY DEF IInv, WorkerInv, TypeOK
<1>3. "stop" \in valid' => ReportInv' /\ ScmInv' /\ HandlerInv'
  BY DEF IInv, InReport, ReportInv, ScmInv, HandlerInv
<1> QED BY <1>1, <1>2, <1>3 DEF IInv

LEMMA Start == Init => IInv
<1> SUFFICES ASSUME Init PROVE IInv OBVIOUS
<1>1. TypeOK BY MaxCheckPointAssumption DEF Init, TypeOK, State, Status, Idle
<1>2. WorkerInv BY DEF Init, WorkerInv
<1>3. ReportInv BY DEF Init, ReportInv, InReport, Idle, Reporter
<1>4. ScmInv /\ HandlerInv BY DEF Init, ScmInv, HandlerInv, InReport
<1> QED BY <1>1, <1>2, <1>3, <1>4 DEF IInv

LEMMA Step == IInv /\ [Next]_vars => IInv'
<1> SUFFICES ASSUME IInv, [Next]_vars PROVE IInv' OBVIOUS
<1>1. CASE ReportStep
  BY <1>1, WriteStateStep, WriteCheckPointStep, SetServiceStatusStep DEF ReportStep
<1>2. CASE ServiceMainStep
  BY <1>2, RegisterStep, FirstReportFailsStep, StartWorkerStep, StillStartingStep, StartedStep,
     StopSeenStep, StillStoppingStep, StoppedStep, WaitFailsStep, LeaveStep DEF ServiceMainStep
<1>3. CASE WorkerStep
  BY <1>3, WorkerStartsStep, WorkerReadyStep, WorkerStopsStep, TaskEndsStep, WorkerEndsStep
     DEF WorkerStep
<1>4. CASE Control \/ SignalStop \/ MainReturns
  BY <1>4, ControlStep, SignalStopStep, MainReturnsStep
<1>5. CASE UNCHANGED vars
  <2> USE <1>5 DEF vars, ctxVars, workerVars
  <2>1. TypeOK' /\ WorkerInv' BY DEF IInv, TypeOK, WorkerInv
  <2>2. ReportInv => ReportInv' BY DEF ReportInv, InReport
  <2>3. ScmInv /\ HandlerInv => ScmInv' /\ HandlerInv' BY DEF ScmInv, HandlerInv, InReport
  <2> QED BY <2>1, <2>2, <2>3 DEF IInv
<1> QED BY <1>1, <1>2, <1>3, <1>4, <1>5 DEF Next

\* What is known of every reachable state.
THEOREM Invariance == Spec => []IInv
BY Start, Step, PTL DEF Spec

\* The variables keep their types, and a worker that waits has its task thread.
THEOREM TypeCorrect == Spec => []TypeOK
<1>1. IInv => TypeOK BY DEF IInv
<1> QED BY <1>1, Invariance, PTL

\* ReportSvcStatus is never run by two threads at once, if there is a stop event.
THEOREM OneReportAtATime == Spec => []ReportsApart
<1>1. IInv => ReportsApart
  BY DEF IInv, HandlerInv, ReportInv, InReport, ReportsApart, Reporter
<1> QED BY <1>1, Invariance, PTL

\* When the SCM is told STOPPED the worker and its task are gone.
THEOREM StoppedIsDone == Spec => []StoppedMeansDone
<1>1. IInv => StoppedMeansDone
  BY DEF IInv, ScmInv, WorkerInv, StoppedMeansDone, TypeOK, Event
<1> QED BY <1>1, Invariance, PTL

\* The SCM sees the states in their order, with growing check points.
THEOREM StatusInOrder == Spec => StatusAdvances
<1> DEFINE Sent ==
      (\E r \in Reporter : SetServiceStatus(r)) /\ "stop" \in valid =>
        /\ <<scm.state, scm'.state>> \in
               {<<"START_PENDING", "START_PENDING">>, <<"START_PENDING", "RUNNING">>,
                <<"START_PENDING", "STOPPED">>, <<"RUNNING", "STOP_PENDING">>,
                <<"STOP_PENDING", "STOP_PENDING">>, <<"STOP_PENDING", "STOPPED">>}
        /\ scm'.state = scm.state => scm'.checkPoint > scm.checkPoint
        /\ scm'.state \in {"RUNNING", "STOPPED"} <=> scm'.checkPoint = 0
<1>1. IInv => Sent
  <2> SUFFICES ASSUME IInv, NEW r \in Reporter, SetServiceStatus(r), "stop" \in valid
               PROVE  Sent
    OBVIOUS
  <2>1. ReportInv /\ ScmInv /\ HandlerInv BY DEF IInv
  <2>2. scm' = status /\ report[r].step = "send" BY DEF SetServiceStatus
  <2>3. status.state = report[r].state /\ InReport(r)
    BY <2>1, <2>2 DEF ReportInv, InReport, Idle
  <2>4. CASE r = "handler"
    <3>1. scm.state = "RUNNING" /\ status.state = "STOP_PENDING"
      BY <2>1, <2>3, <2>4 DEF ReportInv, ScmInv, HandlerInv
    <3> QED BY <2>1, <2>2, <2>4, <3>1 DEF ReportInv, Pending, IInv, TypeOK, Status
  <2>5. CASE r = "main"
    <3>1. /\ main # "registering" /\ status.state = ReportOf(main)
          /\ main \in {"registered", "starting", "running", "stopping", "leaving", "returned"}
      BY <2>1, <2>3, <2>5 DEF ReportInv, IInv, TypeOK
    <3>2. <<scm.state, status.state>> \in
               {<<"START_PENDING", "START_PENDING">>, <<"START_PENDING", "RUNNING">>,
                <<"START_PENDING", "STOPPED">>,
                <<"STOP_PENDING", "STOP_PENDING">>, <<"STOP_PENDING", "STOPPED">>}
      BY <2>1, <2>3, <2>5, <3>1 DEF ScmInv, ReportOf
    <3> QED BY <2>1, <2>2, <2>5, <3>2 DEF ReportInv, Pending, IInv, TypeOK, Status
  <2> QED BY <2>4, <2>5 DEF Reporter
<1> QED BY <1>1, Invariance, PTL DEF StatusAdvances
===============================================================================
