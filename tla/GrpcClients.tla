----------------------------- MODULE GrpcClients -----------------------------
(***************************************************************************)
(* The clients of Socket/grpcImp, each against the server that answers it:  *)
(* the functions of ClientImpl, GrpcClient::Request and the SayHello of     *)
(* client_async.cpp, which block; a PersistentConnect, written to by its    *)
(* owner and read by its thread; and AsyncTransmit and the SayHello of      *)
(* client_async2.cpp, here AsyncSayHello, whose call objects are deleted by *)
(* a loop.  A behaviour is that of one method.  The handlers of the         *)
(* asynchronous servers are in AsyncServer; gRPC is external.               *)
(***************************************************************************)
EXTENDS Naturals

CONSTANTS Call,        \* calls of AsyncTransmit or AsyncSayHello
          MaxMessages  \* bound: messages written to a stream

VARIABLES method,      \* the method the client uses
          caller,      \* where the function, or the owner of the connection, is
          reader,      \* where PersistentConnect::run is
          stream,      \* "open", or "finished" by the server, or "lost"
          server,      \* of a stream: it is to read, or it holds what it has read
          up, down,    \* messages under way to the server and to the client
          got,         \* messages that the client has read
          loop,        \* ClientImpl::run or AsyncCompleteRpc has been started
          calls        \* the object of each such call

wire == <<stream, server, up, down, got>>
async == <<loop, calls>>
clientVars == <<method, caller, reader, wire, async>>

\* Where each function begins: the requests of the first two are sent by then.
First ==
    [BaseTransmit |-> "finish", ServerStreamTransmit |-> "read",
     ClientStreamTransmit |-> "write", StreamTransmit |-> "write",
     PersistentConnect |-> "owner", SayHello |-> "finish",
     AsyncTransmit |-> "owner", AsyncSayHello |-> "owner"]

AfterWrite == [ClientStreamTransmit |-> "write", StreamTransmit |-> "read"]
AfterRead == [ServerStreamTransmit |-> "read", StreamTransmit |-> "write"]
AfterFailure ==
    [ServerStreamTransmit |-> "returned", ClientStreamTransmit |-> "finish",
     StreamTransmit |-> "returned"]

Init ==
    /\ method \in DOMAIN First
    /\ caller = "begin" /\ reader = "none"
    /\ stream = "open" /\ server = "read"
    /\ up = 0 /\ down = 0 /\ got = 0
    /\ loop = FALSE
    /\ calls = [c \in Call |-> "none"]

\* The functions that send their one request with the call.
Unary == {"BaseTransmit", "SayHello"}
Asking == Unary \cup {"ServerStreamTransmit"}
AsyncMethod == {"AsyncTransmit", "AsyncSayHello"}

-------------------------------------------------------------------------------
(* The functions that block                                                   *)

\* The function that listens before it speaks.
BeginByReading ==
    /\ caller = "begin"
    /\ caller' = IF method = "StreamTransmit" THEN "read" ELSE First[method]
    /\ up' = IF method \in Asking THEN 1 ELSE 0
    /\ reader' = IF method = "PersistentConnect" THEN "read" ELSE "none"
    /\ UNCHANGED <<method, stream, server, down, got, async>>

\* CreatePersistentConnect starts the thread that reads.
Begin ==
    /\ caller = "begin"
    /\ caller' = First[method]
    /\ up' = IF method \in Asking THEN 1 ELSE 0
    /\ reader' = IF method = "PersistentConnect" THEN "read" ELSE "none"
    /\ UNCHANGED <<method, stream, server, down, got, async>>

\* The bound counts what was written; a write is followed by a pause.
Written == got + down + up + IF server = "write" THEN 1 ELSE 0

Write ==
    /\ caller = "write" /\ stream = "open" /\ Written < MaxMessages
    /\ up' = up + 1
    /\ caller' = AfterWrite[method]
    /\ UNCHANGED <<method, reader, stream, server, down, got, async>>

\* What has arrived is read even if the server has finished.
Receive == down > 0 /\ stream # "lost" /\ down' = down - 1 /\ got' = got + 1
CannotRead == stream = "lost" \/ (stream = "finished" /\ down = 0)

Read ==
    /\ caller = "read" /\ Receive
    /\ caller' = AfterRead[method]
    /\ UNCHANGED <<method, reader, stream, server, up, async>>

WriteOrReadFails ==
    /\ \/ caller = "write" /\ stream # "open"
       \/ caller = "read" /\ CannotRead
    /\ caller' = AfterFailure[method]
    /\ UNCHANGED <<method, reader, wire, async>>

\* A unary call returns whatever the status; ClientStreamTransmit ends with
\* WritesDone and Finish.
Finish ==
    /\ caller = "finish" /\ method # "SayHello" /\ stream # "open"
    /\ caller' = "returned"
    /\ UNCHANGED <<method, reader, wire, async>>

\* SayHello waits at a queue of its own for the one event that can come, and looks
\* neither at its tag nor at whether it is ok.
SayHello ==
    /\ caller = "finish" /\ method = "SayHello" /\ stream # "open"
    /\ caller' = "returned"
    /\ UNCHANGED <<method, reader, wire, async>>

Blocking == Begin \/ Read \/ WriteOrReadFails \/ Finish \/ SayHello

-------------------------------------------------------------------------------
(* PersistentConnect: Request, run and the destructor                         *)

Request ==
    /\ caller = "owner" /\ method = "PersistentConnect"
    /\ stream = "open" /\ Written < MaxMessages
    /\ up' = up + 1
    /\ UNCHANGED <<method, caller, reader, stream, server, down, got, async>>

\* The destructor waits for no one: what a thread still in Read does then is not
\* defined, and the model does not follow it.
Destroy ==
    /\ caller = "owner" /\ method = "PersistentConnect"
    /\ caller' = "destroyed"
    /\ UNCHANGED <<method, reader, wire, async>>

Run ==
    /\ reader = "read" /\ caller # "destroyed"
    /\ \/ Receive /\ UNCHANGED reader
       \/ CannotRead /\ reader' = "ended" /\ UNCHANGED <<down, got>>
    /\ UNCHANGED <<method, caller, stream, server, up, async>>

-------------------------------------------------------------------------------
(* AsyncTransmit and AsyncSayHello, and their loops                           *)

\* The new object is the tag of its Finish.
AsyncTransmit(c) ==
    /\ caller = "owner" /\ method = "AsyncTransmit" /\ calls[c] = "none"
    /\ calls' = [calls EXCEPT ![c] = "sent"]
    /\ UNCHANGED <<method, caller, reader, wire, loop>>

AsyncSayHello(c) ==
    /\ caller = "owner" /\ method = "AsyncSayHello" /\ calls[c] = "none"
    /\ calls' = [calls EXCEPT ![c] = "sent"]
    /\ UNCHANGED <<method, caller, reader, wire, loop>>

LoopReceiveResponse ==
    /\ caller = "owner" /\ method \in AsyncMethod /\ ~loop
    /\ loop' = TRUE
    /\ UNCHANGED <<method, caller, reader, wire, calls>>

\* gRPC queues the event of a call: with a status, or not ok.
Complete(c) ==
    /\ calls[c] = "sent" /\ caller # "aborted"
    /\ \E event \in {"completed", "not ok"} : calls' = [calls EXCEPT ![c] = event]
    /\ UNCHANGED <<method, caller, reader, wire, loop>>

\* The loop that passes over an event that is not ok.
SkipNotOk(c) ==
    /\ loop /\ method = "AsyncTransmit" /\ calls[c] \in {"completed", "not ok"}
    /\ calls' = [calls EXCEPT ![c] = IF @ = "not ok" THEN "taken" ELSE "deleted"]
    /\ UNCHANGED <<method, caller, reader, wire, loop>>

\* Every event that is taken has its object deleted, ok or not.
TakeAndDelete(c) ==
    /\ loop /\ method = "AsyncTransmit" /\ calls[c] \in {"completed", "not ok"}
    /\ calls' = [calls EXCEPT ![c] = "deleted"]
    /\ UNCHANGED <<method, caller, reader, wire, loop>>

\* This loop asserts that the event is ok: the process ends if it is not.
AsyncCompleteRpc(c) ==
    /\ loop /\ method = "AsyncSayHello" /\ caller # "aborted"
    /\ \/ calls[c] = "completed"
          /\ calls' = [calls EXCEPT ![c] = "deleted"] /\ UNCHANGED caller
       \/ calls[c] = "not ok" /\ caller' = "aborted" /\ UNCHANGED calls
    /\ UNCHANGED <<method, reader, wire, loop>>

-------------------------------------------------------------------------------
(* The other side                                                             *)

Streams == {"StreamTransmit", "PersistentConnect"}

\* BaseServiceImpl and AsyncServiceImpl answer once; the two methods with a stream
\* of one direction are not implemented, and end at once.
Answer ==
    /\ caller # "begin" /\ stream = "open" /\ method \notin Streams \cup AsyncMethod
    /\ method \in Unary => up = 1
    /\ stream' = "finished"
    /\ UNCHANGED <<method, caller, reader, server, up, down, got, async>>

\* AsyncStreamTransmitImpl reads and writes in turn, and never finishes.
ServerRead ==
    /\ stream = "open" /\ method \in Streams
    /\ server = "read" /\ up > 0
    /\ up' = up - 1 /\ server' = "write"
    /\ UNCHANGED <<method, caller, reader, stream, down, got, async>>

ServerWrite ==
    /\ stream = "open" /\ method \in Streams
    /\ server = "write"
    /\ down' = down + 1 /\ server' = "read"
    /\ UNCHANGED <<method, caller, reader, stream, up, got, async>>

\* The connection or the server is gone.
Lose ==
    /\ stream = "open" /\ stream' = "lost"
    /\ UNCHANGED <<method, caller, reader, server, up, down, got, async>>

Next ==
    \/ Blocking \/ Write
    \/ Request \/ Destroy \/ Run
    \/ LoopReceiveResponse
    \/ \E c \in Call : AsyncTransmit(c) \/ AsyncSayHello(c)
    \/ \E c \in Call : Complete(c) \/ TakeAndDelete(c) \/ AsyncCompleteRpc(c)
    \/ Answer \/ ServerRead \/ ServerWrite \/ Lose

Spec == Init /\ [][Next]_clientVars

\* A function that can go on does, and so do the threads, the server and gRPC.
\* Nobody has to break the connection, to ask, or to start the loop.
FairSpec ==
    /\ Spec
    /\ WF_clientVars(Blocking) /\ WF_clientVars(Write)
    /\ WF_clientVars(Run) /\ WF_clientVars(Answer)
    /\ WF_clientVars(ServerRead) /\ WF_clientVars(ServerWrite)
    /\ \A c \in Call :
          /\ WF_clientVars(Complete(c))
          /\ WF_clientVars(TakeAndDelete(c)) /\ WF_clientVars(AsyncCompleteRpc(c))

-------------------------------------------------------------------------------
\* The client of StreamTransmit writes and reads in turn and its server reads and
\* writes in turn: the two never wait for one another, and as long as the stream
\* is there the n-th answer comes for every n.
ConversationGoesOn ==
    \A n \in 1..MaxMessages :
        method = "StreamTransmit" ~> got >= n \/ stream = "lost"

\* Whatever becomes of the connection, a unary function returns, a function on a
\* stream and the reading thread end when the stream does, and the object of each
\* asynchronous call is deleted, by a loop that may start late, or that ends the
\* process on an event that is not ok.
CallsEnd ==
    /\ method \in Asking \cup {"ClientStreamTransmit"}
           ~> caller = "returned"
    /\ method = "StreamTransmit" /\ stream = "lost" ~> caller = "returned"
    /\ reader = "read" /\ stream = "lost" ~> reader = "ended" \/ caller = "destroyed"
    /\ \A c \in Call : loop /\ calls[c] # "none" ~> calls[c] = "deleted" \/ caller = "aborted"

===============================================================================
