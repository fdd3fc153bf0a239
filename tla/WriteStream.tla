------------------------------ MODULE WriteStream ------------------------------
(***************************************************************************)
(* ez::client_connect_write_stream (myutils/ez_grpc/grpc_client): callers   *)
(* queue packages with request(), one writer thread sends them over a gRPC  *)
(* client stream one at a time and waits on signal_ for each OnWriteDone,   *)
(* and disconnect() stops the writer and joins it.  disconnect is called by *)
(* the owner, again by the destructor, and by every OnWriteDone that        *)
(* reports a failed write, on a thread of gRPC.                             *)
(*                                                                          *)
(* gRPC itself is external: it completes each write it was given with or    *)
(* without success, and fails all writes once the stream is broken.  The    *)
(* message is read through the pointer StartWrite was given, at the latest  *)
(* when the write completes.                                                *)
(***************************************************************************)
EXTENDS EzQueue, FiniteSets, SequencesExt, SignalFlag

CONSTANTS Package,    \* the packages callers may send
          NoPackage,  \* request_ after Clear
          Requester,  \* the threads that call request
          Owner,      \* the thread that calls disconnect and the destructor
          Callback,   \* the gRPC threads that run OnWriteDone: one for each package, for
                      \* a callback that joins the writer keeps its thread
          MaxSize     \* the size queue_ is constructed with, 1000000

ASSUME MaxSizeAssumption == MaxSize \in Nat
ASSUME NoPackageAssumption == NoPackage \notin Package
ASSUME ThreadAssumption == Owner \notin Callback

VARIABLES
    connected,   \* connected_: WaitForConnected succeeded
    exiting,     \* exit_
    queue,       \* queue_
    signal,      \* signal_
    buffer,      \* request_, which StartWrite is given the address of
    writer,      \* where write_loop is
    joinable,    \* write_thread_.joinable()
    disc,        \* where each caller of disconnect is
    round,       \* how often the owner has called disconnect
    asking,      \* where each call of request is, and with which package
    status,      \* the answer request gave for each package
    accepted,    \* history: the packages queued, in order
    stream,      \* gRPC: "open", or "broken" by the server or the network
    writes,      \* gRPC: the number of writes outstanding
    wire,        \* gRPC: the packages written, in order
    crashed      \* std::terminate was called

vars == <<connected, exiting, queue, signal, buffer, writer, joinable, disc, round,
          asking, status, accepted, stream, writes, wire, crashed>>

callVars == <<asking, status, accepted>>
grpcVars == <<stream, writes, wire>>

\* Only the calls in disconnect move on their own; "join" is inside join().
Joining == {d \in DOMAIN disc : disc[d] = "join"}

Init ==
    /\ connected \in BOOLEAN
    /\ exiting = FALSE
    /\ queue = <<>>
    /\ signal = Clear
    /\ buffer = NoPackage
    /\ writer = IF connected THEN "loop" ELSE "none"
    /\ joinable = connected
    /\ disc = [d \in Callback \cup {Owner} |-> "idle"]
    /\ round = 0
    /\ asking = [r \in Requester |-> NoPackage]
    /\ status = [p \in Package |-> "none"]
    /\ accepted = <<>>
    /\ stream = "open"
    /\ writes = 0
    /\ wire = <<>>
    /\ crashed = FALSE

-------------------------------------------------------------------------------
(* request: test exit_, then push.                                         *)

RequestCheck(r, p) ==
    /\ asking[r] = NoPackage
    /\ status[p] = "none"
    /\ round < 2
    /\ IF exiting
       THEN status' = [status EXCEPT ![p] = "refused"] /\ UNCHANGED asking
       ELSE asking' = [asking EXCEPT ![r] = p] /\ status' = [status EXCEPT ![p] = "asked"]
    /\ UNCHANGED <<connected, exiting, queue, signal, buffer, writer, joinable, disc,
                   round, accepted, grpcVars>>

RequestPush(r) ==
    /\ asking[r] # NoPackage
    /\ LET p == asking[r]
           push == PushBack(queue, p, MaxSize)
       IN  /\ queue' = push.queue
           /\ status' = [status EXCEPT ![p] = IF push.ok THEN "accepted" ELSE "refused"]
           /\ accepted' = IF push.ok THEN Append(accepted, p) ELSE accepted
    /\ asking' = [asking EXCEPT ![r] = NoPackage]
    /\ UNCHANGED <<connected, exiting, signal, buffer, writer, joinable, disc, round,
                   grpcVars>>

-------------------------------------------------------------------------------
(* write_loop.                                                             *)

WriterLeaves ==
    /\ writer = "loop"
    /\ exiting
    /\ writer' = "exited"
    /\ UNCHANGED <<connected, exiting, queue, signal, buffer, joinable, disc, round,
                   callVars, grpcVars>>

\* pop_front fails: sleep 500 ms and test exit_ again.
WriterSleeps ==
    /\ writer = "loop"
    /\ ~exiting
    /\ queue = <<>>
    /\ writer' = "sleep"
    /\ UNCHANGED <<connected, exiting, queue, signal, buffer, joinable, disc, round,
                   callVars, grpcVars>>

WriterWakes ==
    /\ writer = "sleep"
    /\ writer' = "loop"
    /\ UNCHANGED <<connected, exiting, queue, signal, buffer, joinable, disc, round,
                   callVars, grpcVars>>

\* exit_ is tested before the pop, in a step of its own.
WriterGoesOn ==
    /\ writer = "loop"
    /\ ~exiting
    /\ queue # <<>>
    /\ writer' = "pop"
    /\ UNCHANGED <<connected, exiting, queue, signal, buffer, joinable, disc, round,
                   callVars, grpcVars>>

WriterPops ==
    /\ writer = "pop"
    /\ LET pop == PopFront(queue, buffer)
       IN  queue' = pop.queue /\ buffer' = pop.item
    /\ writes' = writes + 1
    /\ writer' = "wait"
    /\ UNCHANGED <<connected, exiting, signal, joinable, disc, round, callVars,
                   stream, wire>>

\* signal_.wait() returns and request_ is cleared.
WriterResumes ==
    /\ writer = "wait"
    /\ signal.sg
    /\ signal' = Consume(signal)
    /\ buffer' = NoPackage
    /\ writer' = "loop"
    /\ UNCHANGED <<connected, exiting, queue, joinable, disc, round, callVars, grpcVars>>

-------------------------------------------------------------------------------
(* gRPC completes a write, and runs OnWriteDone on one of its threads.     *)

BreakStream ==
    /\ stream = "open"
    /\ stream' = "broken"
    /\ UNCHANGED <<connected, exiting, queue, signal, buffer, writer, joinable, disc,
                   round, callVars, writes, wire>>

WriteSucceeds(s) ==
    /\ writes > 0
    /\ stream = "open"
    /\ writes' = writes - 1
    /\ wire' = Append(wire, buffer)
    /\ signal' = s
    /\ UNCHANGED <<connected, exiting, queue, buffer, writer, joinable, disc, round,
                   callVars, stream>>

\* The writer waits with no time limit, so notify_one and the wake-up of the
\* writer are one step.
OnWriteDoneOk == WriteSucceeds(SetOne(signal))

\* OnWriteDone(false) with its calls in the other order: the notification comes
\* only when disconnect has returned (a bug the source avoids).
OnWriteDoneDisconnectsFirst(c) ==
    /\ writes > 0
    /\ stream = "broken"
    /\ disc[c] = "idle"
    /\ writes' = writes - 1
    /\ disc' = [disc EXCEPT ![c] = "enter"]
    /\ UNCHANGED <<connected, exiting, queue, signal, buffer, writer, joinable, round,
                   callVars, stream, wire>>

\* OnWriteDone(false): notify_one, then disconnect() on the same thread.
OnWriteDoneFails(c) ==
    /\ writes > 0
    /\ stream = "broken"
    /\ disc[c] = "idle"
    /\ writes' = writes - 1
    /\ signal' = SetOne(signal)
    /\ disc' = [disc EXCEPT ![c] = "enter"]
    /\ UNCHANGED <<connected, exiting, queue, buffer, writer, joinable, round, callVars,
                   stream, wire>>

-------------------------------------------------------------------------------
(* disconnect.                                                             *)

OwnerDisconnects ==
    /\ disc[Owner] = "idle"
    /\ round < 2
    /\ round = 1 => \A r \in Requester : asking[r] = NoPackage
    /\ round' = round + 1
    /\ disc' = [disc EXCEPT ![Owner] = "enter"]
    /\ UNCHANGED <<connected, exiting, queue, signal, buffer, writer, joinable, callVars,
                   grpcVars>>

SetExit(d) ==
    /\ disc[d] = "enter"
    /\ exiting' = TRUE
    /\ disc' = [disc EXCEPT ![d] = "test"]
    /\ UNCHANGED <<connected, queue, signal, buffer, writer, joinable, round, callVars,
                   grpcVars>>

TestJoinable(d) ==
    /\ disc[d] = "test"
    /\ disc' = [disc EXCEPT ![d] = IF joinable THEN "join" ELSE "idle"]
    /\ UNCHANGED <<connected, exiting, queue, signal, buffer, writer, joinable, round,
                   callVars, grpcVars>>

\* disconnect without the join.
JoinEarly(d) ==
    /\ disc[d] = "join"
    /\ disc' = [disc EXCEPT ![d] = "idle"]
    /\ UNCHANGED <<connected, exiting, queue, signal, buffer, writer, joinable, round,
                   callVars, grpcVars>>

\* join() returns when the writer has exited.  Two threads joining the same
\* std::thread is undefined: the second join throws and ends the process, or
\* returns like the first.
JoinReturns(d) ==
    /\ disc[d] = "join"
    /\ writer = "exited"
    /\ joinable' = FALSE
    /\ disc' = [disc EXCEPT ![d] = "idle"]
    /\ UNCHANGED <<connected, exiting, queue, signal, buffer, writer, round, callVars,
                   grpcVars>>

JoinTwice(d) ==
    /\ disc[d] = "join"
    /\ writer = "exited"
    /\ ~joinable \/ Joining # {d}
    /\ crashed' = TRUE
    /\ UNCHANGED <<connected, exiting, queue, signal, buffer, writer, joinable, disc,
                   round, callVars, grpcVars>>

-------------------------------------------------------------------------------
WriterStep ==
    \/ WriterLeaves
    \/ WriterSleeps
    \/ WriterWakes
    \/ WriterGoesOn
    \/ WriterPops
    \/ WriterResumes

DiscStep(d) == SetExit(d) \/ TestJoinable(d) \/ JoinReturns(d)

WriteDone == OnWriteDoneOk \/ \E c \in Callback : OnWriteDoneFails(c)

Running ==
    \/ WriterStep
    \/ WriteDone
    \/ BreakStream
    \/ OwnerDisconnects
    \/ \E r \in Requester : RequestPush(r) \/ \E p \in Package : RequestCheck(r, p)
    \/ \E d \in DOMAIN disc : DiscStep(d)

Next ==
    /\ ~crashed
    /\ \/ Running /\ UNCHANGED crashed
       \/ \E d \in DOMAIN disc : JoinTwice(d)

Spec == Init /\ [][Next]_vars

\* gRPC completes every write it was given, and the threads that can run
\* keep running; nobody has to call request or disconnect.
FairSpec ==
    /\ Spec
    /\ WF_vars(~crashed /\ WriterStep /\ UNCHANGED crashed)
    /\ WF_vars(~crashed /\ WriteDone /\ UNCHANGED crashed)
    /\ \A r \in Requester : WF_vars(~crashed /\ RequestPush(r) /\ UNCHANGED crashed)
    /\ \A d \in Callback \cup {Owner} : WF_vars(~crashed /\ DiscStep(d) /\ UNCHANGED crashed)

-------------------------------------------------------------------------------
TypeOK ==
    /\ connected \in BOOLEAN /\ exiting \in BOOLEAN /\ joinable \in BOOLEAN
    /\ crashed \in BOOLEAN
    /\ queue \in Seq(Package) /\ Len(queue) <= MaxSize
    /\ signal \in Flags
    /\ buffer \in Package \cup {NoPackage}
    /\ writer \in {"none", "loop", "sleep", "pop", "wait", "exited"}
    /\ disc \in [Callback \cup {Owner} -> {"idle", "enter", "test", "join"}]
    /\ round \in 0..2
    /\ asking \in [Requester -> Package \cup {NoPackage}]
    /\ status \in [Package -> {"none", "asked", "refused", "accepted"}]
    /\ accepted \in Seq(Package) /\ wire \in Seq(Package)
    /\ stream \in {"open", "broken"}
    /\ writes \in 0..1

InFlight == IF writes > 0 THEN <<buffer>> ELSE <<>>

\* Until a write fails, every package request accepted has been written, is the
\* one gRPC is writing, or is queued, in the order of acceptance: the writer
\* neither skips a package, nor writes one twice, nor overwrites request_ under
\* a StartWrite.  After a failure what was written is still a prefix.
WrittenInOrder ==
    /\ stream = "open" => accepted = wire \o InFlight \o queue
    /\ IsPrefix(wire, accepted)

\* The destructor joins the writer before the object goes: when the second
\* disconnect of the owner has returned, gRPC holds no pointer to request_ and
\* no thread can push to queue_ any more.
NothingOutstandingAtTheEnd ==
    round = 2 /\ disc[Owner] = "idle" =>
        /\ writes = 0
        /\ writer \in {"none", "exited"}
        /\ \A r \in Requester : asking[r] = NoPackage

\* A disconnect of the owner returns, wherever the writer is: asleep, at a write, or
\* waiting for its completion.  A failed write stops the stream: the writer, which
\* OnWriteDone both wakes and joins, leaves its loop, and request refuses what comes
\* later.  Either holds unless the process ends on the second join of one thread.
DisconnectReturns ==
    /\ disc[Owner] = "enter" ~> disc[Owner] = "idle" \/ crashed
    /\ (\E c \in Callback : disc[c] = "enter") ~> (writer = "exited" /\ exiting) \/ crashed

===============================================================================
