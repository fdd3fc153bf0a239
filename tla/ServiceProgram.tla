---------------------------- MODULE ServiceProgram ----------------------------
(***************************************************************************)
(* The Windows service of ServiceProgramTask/main.cpp.  Four threads share  *)
(* gCoderSvcCtx without a lock: the dispatcher, which runs the control      *)
(* handler, ServiceMain, the thread CoderServiceWorker and the task thread  *)
(* that CoderWorker starts.  The service control manager (SCM) is external: *)
(* it keeps the last status it was sent and sends no control to a service   *)
(* that is starting, stopping or stopped.                                   *)
(***************************************************************************)
EXTENDS Naturals

CONSTANT MaxCheckPoint   \* bound: m_dwCheckPoint

ASSUME MaxCheckPointAssumption == MaxCheckPoint \in Nat

VARIABLES status,      \* m_svcStatus
          checkPoint,  \* m_dwCheckPoint, the next to be reported
          valid,       \* the events that CreateEvent did create
          signaled,    \* the events that are set
          report,      \* where each thread is in ReportSvcStatus, and with which state
          main,        \* where ServiceMain is
          handler,     \* where CoderServiceController is
          worker,      \* where CoderServiceWorker is
          stopping,    \* CoderWorker::m_bStop
          task,        \* the thread m_thWorker
          scm,         \* the status the SCM was last sent
          process      \* "up", "ended" by main or "aborted" by std::terminate

ctxVars == <<status, checkPoint, valid, signaled, report>>
workerVars == <<worker, stopping, task>>
vars == <<ctxVars, workerVars, main, handler, scm, process>>

State == {"START_PENDING", "RUNNING", "STOP_PENDING", "STOPPED"}
Event == {"started", "stop"}
Reporter == {"main", "handler"}
Status == [state : State, checkPoint : 0..MaxCheckPoint]

Idle == [step |-> "idle", state |-> "STOPPED"]
Up == process = "up"
MainRuns == Up /\ report["main"] = Idle
Signaled(e) == signaled' = signaled \cup ({e} \cap valid)

Init ==
    /\ status = [state |-> "STOPPED", checkPoint |-> 0]   \* all zero; no state yet
    /\ checkPoint = 1
    /\ valid \in SUBSET Event
    /\ signaled = {}
    /\ report = [r \in Reporter |-> Idle]
    /\ main = "registering"
    /\ handler = "idle"
    /\ worker = "none"
    /\ stopping = FALSE
    /\ task = "none"
    /\ scm = [state |-> "START_PENDING", checkPoint |-> 0]
    /\ process = "up"

-------------------------------------------------------------------------------
(* ReportSvcStatus: it writes the fields of the shared m_svcStatus one after  *)
(* the other and sends it.  A pending report is dropped at the bound.         *)
Report(r, s) == report' = [report EXCEPT ![r] = [step |-> "state", state |-> s]]

WriteState(r) ==
    /\ Up /\ report[r].step = "state"
    /\ status' = [status EXCEPT !.state = report[r].state]
    /\ report' = [report EXCEPT ![r].step = "checkPoint"]
    /\ UNCHANGED <<checkPoint, valid, signaled, workerVars, main, handler, scm, process>>

\* m_dwCheckPoint reported and not incremented (a bug the source avoids).
WriteSameCheckPoint(r) ==
    /\ Up /\ report[r].step = "checkPoint"
    /\ status' = [status EXCEPT !.checkPoint =
                     IF report[r].state \in {"RUNNING", "STOPPED"} THEN 0 ELSE checkPoint]
    /\ report' = [report EXCEPT ![r].step = "send"]
    /\ UNCHANGED <<checkPoint, valid, signaled, workerVars, main, handler, scm, process>>

WriteCheckPoint(r) ==
    /\ Up /\ report[r].step = "checkPoint"
    /\ \/ /\ report[r].state \in {"RUNNING", "STOPPED"}
          /\ status' = [status EXCEPT !.checkPoint = 0]
          /\ UNCHANGED checkPoint
       \/ /\ report[r].state \in {"START_PENDING", "STOP_PENDING"}
          /\ checkPoint <= MaxCheckPoint
          /\ status' = [status EXCEPT !.checkPoint = checkPoint]
          /\ checkPoint' = checkPoint + 1
    /\ report' = [report EXCEPT ![r].step = "send"]
    /\ UNCHANGED <<valid, signaled, workerVars, main, handler, scm, process>>

SetServiceStatus(r) ==
    /\ Up /\ report[r].step = "send"
    /\ scm' = status
    /\ report' = [report EXCEPT ![r] = Idle]
    /\ UNCHANGED <<status, checkPoint, valid, signaled, workerVars, main, handler, process>>

\* The first call may be refused; STOPPED is then reported instead.
FirstReportFails ==
    /\ Up /\ main = "registered" /\ report["main"].step = "send"
    /\ Report("main", "STOPPED")
    /\ main' = "returned"
    /\ UNCHANGED <<status, checkPoint, valid, signaled, workerVars, handler, scm, process>>

-------------------------------------------------------------------------------
(* CoderServiceMain and StartCoderServiceWorker                               *)
Register ==
    /\ MainRuns /\ main = "registering"
    /\ \/ main' = "registered" /\ Report("main", "START_PENDING")
       \/ main' = "returned" /\ UNCHANGED report
    /\ UNCHANGED <<status, checkPoint, valid, signaled, workerVars, handler, scm, process>>

StartWorker ==
    /\ MainRuns /\ main = "registered"
    /\ main' = "starting"
    /\ worker' = "starting"
    /\ UNCHANGED <<ctxVars, stopping, task, handler, scm, process>>

\* A wait of ServiceMain ends and the new state is reported.
MainGoesOn(at, next, state) ==
    /\ MainRuns /\ main = at
    /\ main' = next
    /\ Report("main", state)
    /\ UNCHANGED <<status, checkPoint, valid, workerVars, handler, scm, process>>

\* WAIT_TIMEOUT: "Still starting", "Still stopping".  MaxCheckPoint leaves room
\* for the reports the service makes in any case.
StillStarting ==
    /\ "started" \in valid \ signaled
    /\ checkPoint + 2 < MaxCheckPoint
    /\ MainGoesOn("starting", "starting", "START_PENDING")
    /\ UNCHANGED signaled

Started ==
    /\ "started" \in signaled
    /\ MainGoesOn("starting", "running", "RUNNING")
    /\ signaled' = signaled \ {"started"}

\* The event reset as soon as ServiceMain has seen it.
StopSeenAndReset ==
    /\ "stop" \in signaled
    /\ MainGoesOn("running", "stopping", "STOP_PENDING")
    /\ signaled' = signaled \ {"stop"}

StopSeen ==
    /\ "stop" \in signaled
    /\ MainGoesOn("running", "stopping", "STOP_PENDING")
    /\ UNCHANGED signaled

StillStopping ==
    /\ worker # "gone"
    /\ checkPoint < MaxCheckPoint
    /\ MainGoesOn("stopping", "stopping", "STOP_PENDING")
    /\ UNCHANGED signaled

Stopped ==
    /\ worker = "gone"
    /\ MainGoesOn("stopping", "leaving", "STOPPED")
    /\ signaled' = signaled \ {"stop"}

\* "Other errors": the wait for an event that was never created.
WaitFails ==
    /\ \/ "started" \notin valid /\ MainGoesOn("starting", "leaving", "STOPPED")
       \/ "stop" \notin valid /\ MainGoesOn("running", "leaving", "STOPPED")
    /\ UNCHANGED signaled

\* thWorker is still joinable when StartCoderServiceWorker returns.
Leave ==
    /\ MainRuns /\ main = "leaving"
    /\ process' = "aborted"
    /\ UNCHANGED <<ctxVars, workerVars, main, handler, scm>>

-------------------------------------------------------------------------------
(* CoderServiceWorker, CoderWorker::Start, Stop and Run                       *)
WorkerStarts ==
    /\ Up /\ worker = "starting"
    /\ task' = "running"
    /\ worker' = "started"
    /\ UNCHANGED <<ctxVars, stopping, main, handler, scm, process>>

WorkerReady ==
    /\ Up /\ worker = "started"
    /\ worker' = "waiting"
    /\ Signaled("started")
    /\ UNCHANGED <<status, checkPoint, valid, report, stopping, task, main, handler, scm, process>>

WorkerStops ==
    /\ Up /\ worker = "waiting"
    /\ "stop" \in signaled \/ "stop" \notin valid
    /\ stopping' = TRUE
    /\ worker' = "joining"
    /\ UNCHANGED <<ctxVars, task, main, handler, scm, process>>

TaskEnds ==
    /\ Up /\ task = "running" /\ stopping
    /\ task' = "over"
    /\ UNCHANGED <<ctxVars, worker, stopping, main, handler, scm, process>>

\* m_thWorker detached in place of joined.
WorkerEndsUnjoined ==
    /\ Up /\ worker = "joining"
    /\ worker' = "gone"
    /\ UNCHANGED <<ctxVars, stopping, task, main, handler, scm, process>>

WorkerEnds ==
    /\ Up /\ worker = "joining" /\ task = "over"
    /\ worker' = "gone"
    /\ UNCHANGED <<ctxVars, stopping, task, main, handler, scm, process>>

-------------------------------------------------------------------------------
(* The dispatcher's thread: CoderServiceController and main                   *)
Accepting == scm.state = "RUNNING"

Control ==
    /\ Up /\ handler = "idle" /\ Accepting
    /\ handler' = "reporting"
    /\ Report("handler", "STOP_PENDING")
    /\ UNCHANGED <<status, checkPoint, valid, signaled, workerVars, main, scm, process>>

\* The stop event set before STOP_PENDING is reported.
SignalStopFirst ==
    /\ Up /\ handler = "reporting" /\ "stop" \notin signaled
    /\ Signaled("stop")
    /\ handler' = "idle"
    /\ UNCHANGED <<status, checkPoint, valid, report, workerVars, main, scm, process>>

SignalStop ==
    /\ Up /\ handler = "reporting" /\ report["handler"] = Idle
    /\ handler' = "idle"
    /\ Signaled("stop")
    /\ UNCHANGED <<status, checkPoint, valid, report, workerVars, main, scm, process>>

\* StartServiceCtrlDispatcher returns when the service is stopped, and main.
MainReturns ==
    /\ Up /\ handler = "idle" /\ scm.state = "STOPPED"
    /\ process' = "ended"
    /\ UNCHANGED <<ctxVars, workerVars, main, handler, scm>>

-------------------------------------------------------------------------------
ReportStep == \E r \in Reporter :
                 WriteState(r) \/ WriteCheckPoint(r) \/ SetServiceStatus(r)

ServiceMainStep ==
    \/ Register \/ FirstReportFails \/ StartWorker
    \/ StillStarting \/ Started \/ StopSeen \/ StillStopping \/ Stopped
    \/ WaitFails \/ Leave

WorkerStep == WorkerStarts \/ WorkerReady \/ WorkerStops \/ TaskEnds \/ WorkerEnds

Next == ReportStep \/ ServiceMainStep \/ WorkerStep \/ Control \/ SignalStop \/ MainReturns

Spec == Init /\ [][Next]_vars

\* Each thread runs on; a wait that times out does not keep the others from
\* running.  Nobody has to stop the service.
FairSpec ==
    /\ Spec
    /\ \A r \in Reporter : WF_vars(WriteState(r) \/ WriteCheckPoint(r) \/ SetServiceStatus(r))
    /\ WF_vars(Register) /\ WF_vars(StartWorker)
    /\ WF_vars(Started) /\ WF_vars(StopSeen) /\ WF_vars(Stopped) /\ WF_vars(WaitFails)
    /\ WF_vars(WorkerStarts \/ WorkerReady \/ WorkerStops \/ WorkerEnds) /\ WF_vars(TaskEnds)
    /\ WF_vars(SignalStop)

-------------------------------------------------------------------------------
\* Types; a worker that waits has its task thread.
TypeOK ==
    /\ status \in Status
    /\ checkPoint \in 1..(MaxCheckPoint + 1)
    /\ valid \subseteq Event /\ signaled \subseteq valid
    /\ report \in [Reporter -> [step : {"idle", "state", "checkPoint", "send"}, state : State]]
    /\ main \in {"registering", "registered", "starting", "running", "stopping", "leaving",
                 "returned"}
    /\ handler \in {"idle", "reporting"}
    /\ worker \in {"none", "starting", "started", "waiting", "joining", "gone"}
    /\ task \in {"none", "running", "over"}
    /\ worker \in {"waiting", "joining", "gone"} => task # "none"
    /\ stopping => worker \in {"joining", "gone"}
    /\ scm \in Status
    /\ process \in {"up", "ended", "aborted"}

\* m_svcStatus and m_dwCheckPoint have no lock: ServiceMain and the control
\* handler are never in ReportSvcStatus together, if there is a stop event.
ReportsApart ==
    "stop" \in valid => \E r \in Reporter : report[r] = Idle

\* The SCM sees the states in their order, and a check point that grows while a
\* state is pending, whoever reports it.
StatusAdvances ==
    [][(\E r \in Reporter : SetServiceStatus(r)) /\ "stop" \in valid =>
        /\ <<scm.state, scm'.state>> \in
               {<<"START_PENDING", "START_PENDING">>, <<"START_PENDING", "RUNNING">>,
                <<"START_PENDING", "STOPPED">>, <<"RUNNING", "STOP_PENDING">>,
                <<"STOP_PENDING", "STOP_PENDING">>, <<"STOP_PENDING", "STOPPED">>}
        /\ scm'.state = scm.state => scm'.checkPoint > scm.checkPoint
        /\ scm'.state \in {"RUNNING", "STOPPED"} <=> scm'.checkPoint = 0]_vars

\* "If it's stopped then set the status to STOP" (main.cpp:186): when the SCM is
\* told so the worker and its task are gone, if the events could be created.
StoppedMeansDone ==
    scm.state = "STOPPED" /\ valid = Event
        => worker \in {"none", "gone"} /\ task # "running"

\* A service that was told to stop, and has a stop event, is reported as stopped:
\* ServiceMain and the worker both see the event, and the worker's task ends.
StopIsAnswered == handler = "reporting" /\ "stop" \in valid ~> scm.state = "STOPPED"
===============================================================================
