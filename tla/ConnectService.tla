---------------------------- MODULE ConnectService ----------------------------
(***************************************************************************)
(* The server side of ez_grpc: ez::server, client_stream_service with the   *)
(* clean thread of base_service, and the client_stream_reactor of each      *)
(* connection (myutils/ez_grpc/grpc_server).                                *)
(*                                                                          *)
(* A connection is one client stream.  gRPC runs its callbacks on threads   *)
(* of its own, none before the handler has returned; it calls OnDone once   *)
(* the server has called Finish, and Shutdown returns when OnDone has been  *)
(* called for every stream.  A read that succeeds only starts the next one  *)
(* and changes nothing modelled here.                                       *)
(***************************************************************************)
EXTENDS SignalFlag, FiniteSets

CONSTANTS Connection,     \* the streams clients may open
          Uninitialised   \* what status_ may hold before it is assigned:
                          \* the constructor of connect_reactor leaves it unset

AnyStatus == {"created", "connected", "finished", "done", "other"}

ASSUME UninitialisedAssumption == Uninitialised \subseteq AnyStatus

VARIABLES
    rpc,          \* gRPC's view of each stream
    status,       \* status_ of each reactor
    connections,  \* connections_
    deleted,      \* the reactors clean has deleted
    cleaner,      \* where the clean thread is
    todo,         \* the reactors its loop has still to visit
    exitSignal,   \* exit_signal_
    unset,        \* history: wait_for returned a no_timeout nobody set
    server,       \* where ~server is
    crashed       \* the process died of undefined behaviour

vars == <<rpc, status, connections, deleted, cleaner, todo, exitSignal, unset, server,
          crashed>>

streamVars == <<rpc, status>>
cleanVars == <<connections, deleted, cleaner, todo, exitSignal, unset>>

Over == {c \in Connection : rpc[c] \in {"none", "done"}}

Init ==
    /\ rpc = [c \in Connection |-> "none"]
    /\ status = [c \in Connection |-> "created"]
    /\ connections = {}
    /\ deleted = {}
    /\ cleaner = "enter"
    /\ todo = {}
    /\ exitSignal = Clear
    /\ unset = FALSE
    /\ server \in {"unstarted", "serving"}
    /\ crashed = FALSE

-------------------------------------------------------------------------------
(* ClientStreamCommunicate and the callbacks of a stream.                  *)

NewReactor(c) ==
    /\ server = "serving"
    /\ rpc[c] = "none"
    /\ rpc' = [rpc EXCEPT ![c] = "handler"]
    /\ \E garbage \in Uninitialised : status' = [status EXCEPT ![c] = garbage]
    /\ UNCHANGED <<cleanVars, server>>

\* connections_mutex_ is held by the clean thread for a whole sweep.
AddConnect(c) ==
    /\ rpc[c] = "handler"
    /\ cleaner # "sweep"
    /\ connections' = connections \cup {c}
    /\ rpc' = [rpc EXCEPT ![c] = "open"]
    /\ UNCHANGED <<status, deleted, cleaner, todo, exitSignal, unset, server>>

\* The reactor reported done before gRPC has called OnDone (a bug the source avoids).
DisconnectSaysDone(c) ==
    /\ rpc[c] = "open"
    /\ c \notin deleted
    /\ status' = [status EXCEPT ![c] = "done"]
    /\ rpc' = [rpc EXCEPT ![c] = "finishing"]
    /\ UNCHANGED <<cleanVars, server>>

\* Finish forgotten.
DisconnectNeverFinishes(c) ==
    /\ rpc[c] = "open"
    /\ c \notin deleted
    /\ status' = [status EXCEPT ![c] = "finished"]
    /\ rpc' = [rpc EXCEPT ![c] = "unfinished"]
    /\ UNCHANGED <<cleanVars, server>>

\* OnReadDone(false), when the client closes or the call is cancelled:
\* disconnect() finishes the stream unless status_ says that it is.
Disconnect(c) ==
    /\ rpc[c] = "open"
    /\ c \notin deleted
    /\ IF status[c] \notin {"done", "finished"}
       THEN /\ status' = [status EXCEPT ![c] = "finished"]
            /\ rpc' = [rpc EXCEPT ![c] = "finishing"]
       ELSE /\ rpc' = [rpc EXCEPT ![c] = "unfinished"]
            /\ UNCHANGED status
    /\ UNCHANGED <<cleanVars, server>>

OnDone(c) ==
    /\ rpc[c] = "finishing"
    /\ c \notin deleted
    /\ status' = [status EXCEPT ![c] = "done"]
    /\ rpc' = [rpc EXCEPT ![c] = "done"]
    /\ UNCHANGED <<cleanVars, server>>

-------------------------------------------------------------------------------
(* clean.                                                                  *)

\* wait_for: a signal set before the call makes it return the uninitialised
\* no_timeout.
EnterWait ==
    /\ cleaner = "enter"
    /\ IF exitSignal.sg
       THEN \E no_timeout \in BOOLEAN :
                /\ cleaner' = IF no_timeout THEN "exited" ELSE "lock"
                /\ unset' = (unset \/ ~no_timeout)
       ELSE cleaner' = "wait" /\ UNCHANGED unset
    /\ UNCHANGED <<streamVars, connections, deleted, todo, exitSignal, server>>

Notified ==
    /\ cleaner = "wait"
    /\ exitSignal.sg
    /\ cleaner' = "exited"
    /\ exitSignal' = Consume(exitSignal)
    /\ UNCHANGED <<streamVars, connections, deleted, todo, unset, server>>

TimesOut ==
    /\ cleaner = "wait"
    /\ cleaner' = "lock"
    /\ UNCHANGED <<streamVars, connections, deleted, todo, exitSignal, unset, server>>

Sweep ==
    /\ cleaner = "lock"
    /\ cleaner' = "sweep"
    /\ todo' = connections
    /\ UNCHANGED <<streamVars, connections, deleted, exitSignal, unset, server>>

\* The range-for goes on with the iterator erase has just invalidated: the
\* sweep visits any of the other reactors, or (SweepCrashes) dies.
Visit(c) ==
    /\ cleaner = "sweep"
    /\ c \in todo
    /\ IF status[c] = "done"
       THEN /\ deleted' = deleted \cup {c}
            /\ connections' = connections \ {c}
            /\ todo' \in SUBSET (todo \ {c})
       ELSE todo' = todo \ {c} /\ UNCHANGED <<deleted, connections>>
    /\ UNCHANGED <<streamVars, cleaner, exitSignal, unset, server>>

SweepEnds ==
    /\ cleaner = "sweep"
    /\ todo = {}
    /\ cleaner' = "enter"
    /\ UNCHANGED <<streamVars, connections, deleted, todo, exitSignal, unset, server>>

-------------------------------------------------------------------------------
(* ~server: Shutdown, then the destructor of client_stream_service_, which  *)
(* is declared after grpc_server_.                                          *)

Shutdown ==
    /\ server = "serving"
    /\ server' = "shutdown"
    /\ UNCHANGED <<streamVars, cleanVars>>

\* After 1000 ms gRPC cancels the calls that are left.
DeadlinePasses ==
    /\ server = "shutdown"
    /\ server' = "cancelled"
    /\ UNCHANGED <<streamVars, cleanVars>>

ShutdownReturns ==
    /\ \/ server = "unstarted"
       \/ server \in {"shutdown", "cancelled"} /\ Over = Connection
    /\ server' = "stopping"
    /\ UNCHANGED <<streamVars, cleanVars>>

\* The join without the notification.
StopCleanSilent ==
    /\ server = "stopping"
    /\ server' = "joining"
    /\ UNCHANGED <<streamVars, cleanVars>>

StopClean ==
    /\ server = "stopping"
    /\ exitSignal' = SetAll(exitSignal)
    /\ server' = "joining"
    /\ UNCHANGED <<streamVars, connections, deleted, cleaner, todo, unset>>

\* The notification without the join.
StopCleanJoinSkipped ==
    /\ server = "joining"
    /\ server' = "down"
    /\ UNCHANGED <<streamVars, cleanVars>>

StopCleanJoins ==
    /\ server = "joining"
    /\ cleaner = "exited"
    /\ server' = "down"
    /\ UNCHANGED <<streamVars, cleanVars>>

-------------------------------------------------------------------------------
StreamStep(c) == AddConnect(c) \/ OnDone(c) \/ (server = "cancelled" /\ Disconnect(c))

CleanStep ==
    \/ EnterWait \/ Notified \/ TimesOut \/ Sweep \/ SweepEnds
    \/ \E c \in Connection : Visit(c)

DestructorStep == DeadlinePasses \/ ShutdownReturns \/ StopClean \/ StopCleanJoins

Running ==
    \/ \E c \in Connection : NewReactor(c) \/ StreamStep(c) \/ Disconnect(c)
    \/ CleanStep
    \/ Shutdown
    \/ DestructorStep

\* A callback on a reactor that clean has deleted.
UseFreed == \E c \in deleted : rpc[c] \in {"open", "finishing"}

\* The iterator of an erased element, dereferenced.
SweepCrashes == cleaner = "sweep" /\ \E c \in todo : status[c] = "done"

Dies ==
    /\ UseFreed \/ SweepCrashes
    /\ crashed' = TRUE
    /\ UNCHANGED <<streamVars, cleanVars, server>>

Next == ~crashed /\ ((Running /\ UNCHANGED crashed) \/ Dies)

Spec == Init /\ [][Next]_vars

\* gRPC completes what it was asked to do, the clean thread is scheduled and the
\* destructor goes on; a handler that waits for connections_mutex_ gets it between
\* two sweeps, which are 5 s apart.  Clients need not connect, close, or the owner
\* shut down.
FairSpec ==
    /\ Spec
    /\ WF_vars(~crashed /\ CleanStep /\ UNCHANGED crashed)
    /\ WF_vars(~crashed /\ server # "unstarted" /\ DestructorStep /\ UNCHANGED crashed)
    /\ \A c \in Connection :
          /\ WF_vars(~crashed /\ StreamStep(c) /\ UNCHANGED crashed)
          /\ SF_vars(~crashed /\ AddConnect(c) /\ UNCHANGED crashed)

-------------------------------------------------------------------------------
TypeOK ==
    /\ rpc \in [Connection -> {"none", "handler", "open", "finishing", "unfinished", "done"}]
    /\ status \in [Connection -> AnyStatus]
    /\ connections \subseteq Connection
    /\ deleted \subseteq Connection
    /\ cleaner \in {"enter", "wait", "lock", "sweep", "exited"}
    /\ todo \subseteq connections /\ (todo # {} => cleaner = "sweep")
    /\ exitSignal \in Flags
    /\ unset \in BOOLEAN /\ crashed \in BOOLEAN
    /\ server \in {"unstarted", "serving", "shutdown", "cancelled", "stopping", "joining",
                   "down"}

\* clean deletes a reactor only after gRPC has made its last callback: from the
\* handler on, whatever the sweep finds in status_, it is the truth about the
\* stream.  (Where a reactor starts with an arbitrary status_ this fails.)
NoUseAfterFree ==
    /\ \A c \in deleted : rpc[c] = "done"
    /\ connections \cap deleted = {}

\* When ~server has returned no stream is left that gRPC could call back, and no
\* thread that could sweep the connections it has destroyed.
NothingOutlivesTheServer ==
    server = "down" => Over = Connection /\ cleaner = "exited"

\* "grpc_server calling shutdown(), wait all reactors deleted, shutdown
\* continue" (client_stream_reactor.cpp:27-29): Shutdown returns.
ShutdownContinues == server = "shutdown" ~> server = "stopping" \/ crashed

\* stop_clean joins a thread that ends: the exit signal is latched, so it is seen
\* also when the thread is sweeping, unless wait_for returns the no_timeout it
\* never set.
StopReturns == server = "joining" ~> server = "down" \/ unset \/ crashed

===============================================================================
