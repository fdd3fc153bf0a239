------------------------------ MODULE AsyncServer ------------------------------
(***************************************************************************)
(* The asynchronous servers of Socket/grpcImp and their clients: threads    *)
(* that poll a completion queue for the events of handlers, which delete    *)
(* themselves.  A behaviour is that of one queue: of AsyncServiceImpl       *)
(* ("unary") or AsyncStreamTransmitImpl ("stream"), polled by one thread    *)
(* each, or of CallData ("hello"), polled by any number.  gRPC is external. *)
(***************************************************************************)
EXTENDS Naturals, FiniteSets

CONSTANTS Poller,      \* threads in HandleRpcs; one of them if there is one
          Handler,     \* addresses, in the order in which they are allocated
          Call,        \* calls of clients
          NoCall,
          MaxMessages  \* bound: messages a client writes to a stream

ASSUME SizeAssumption ==
    /\ IsFiniteSet(Poller) /\ Poller # {}
    /\ IsFiniteSet(Call) /\ NoCall \notin Call
    /\ Handler = 1..(Cardinality(Call) + Cardinality(Poller))
    /\ MaxMessages \in Nat

VARIABLES server,       \* whose queue this is
          status,       \* status_ of each handler, and whether it is allocated
          thread,       \* thread_ of each handler
          serves,       \* the call of each handler
          outstanding,  \* the operations of each handler that gRPC has not completed
          events,       \* the completion queue
          poller,       \* where each thread is in its loop, with the event it took
          call,         \* each call of a client
          sent, taken, replied,   \* messages of each stream: written, read, answered
          aborted       \* GPR_ASSERT has failed

handlerVars == <<status, thread, serves>>
callVars == <<call, sent, taken, replied>>
vars == <<server, handlerVars, outstanding, events, poller, callVars, aborted>>

Server == {"unary", "stream", "hello"}
Operation == {"request", "read", "write", "finish"}
Event == [tag : Handler, op : Operation, ok : BOOLEAN]

\* HandleRpcs "can be run in multiple threads"; the others have one thread.
PollersOfAll == Poller
Pollers == IF server = "hello" THEN Poller ELSE {CHOOSE p \in Poller : TRUE}

At(p, where) == ~aborted /\ poller[p].at = where
Goto(p, where) == poller' = [poller EXCEPT ![p].at = where]
Tag(p) == poller[p].tag
Give(h, op) == outstanding' = [outstanding EXCEPT ![h] = @ \cup {op}]
Fresh(h) == status[h] = "unallocated" /\ \A g \in 1..(h - 1) : status[g] # "unallocated"

Init ==
    /\ server \in Server
    /\ status = [h \in Handler |-> "unallocated"]
    /\ thread = [h \in Handler |-> "none"]
    /\ serves = [h \in Handler |-> NoCall]
    /\ outstanding = [h \in Handler |-> {}]
    /\ events = {}
    /\ poller = [p \in Poller |-> [at |-> "begin", tag |-> 1, op |-> "request"]]
    /\ call = [c \in Call |-> "idle"]
    /\ sent = [c \in Call |-> 0] /\ taken = sent /\ replied = sent
    /\ aborted = FALSE

-------------------------------------------------------------------------------
(* The loop: Next and Proceed                                                 *)

\* A new handler runs its CREATE state in its constructor.
New == \E h \in Handler :
    /\ Fresh(h)
    /\ status' = [status EXCEPT ![h] = IF server = "stream" THEN "INIT_READ" ELSE "PROCESS"]
    /\ Give(h, "request")

Begin(p) ==
    /\ At(p, "begin")
    /\ New
    /\ Goto(p, "next")
    /\ UNCHANGED <<server, thread, serves, events, callVars, aborted>>

\* An event that is not ok is dropped, and its handler is forgotten; HandleRpcs
\* asserts that there is none.
TakeEvent(p) == \E e \in events :
    /\ At(p, "next")
    /\ events' = events \ {e}
    /\ \/ e.ok /\ poller' = [poller EXCEPT ![p] = [at |-> "proceed", tag |-> e.tag, op |-> e.op]]
               /\ UNCHANGED aborted
       \/ ~e.ok /\ aborted' = (server = "hello") /\ UNCHANGED poller
    /\ UNCHANGED <<server, handlerVars, outstanding, callVars>>

\* The handler goes on without a successor (a bug the source avoids).
ProceedAlone(p) ==
    /\ At(p, "proceed") /\ status[Tag(p)] \in {"PROCESS", "INIT_READ"}
    /\ Goto(p, IF server = "hello" THEN "FINISH" ELSE "work")
    /\ UNCHANGED <<server, handlerVars, outstanding, events, callVars, aborted>>

\* PROCESS and INIT_READ: a new handler is to serve the next call.
Spawn(p) ==
    /\ At(p, "proceed") /\ status[Tag(p)] \in {"PROCESS", "INIT_READ"}
    /\ New
    /\ Goto(p, IF server = "hello" THEN "FINISH" ELSE "work")
    /\ UNCHANGED <<server, thread, serves, events, callVars, aborted>>

\* WorkThread::InitThread
InitThread(p) ==
    /\ At(p, "work") /\ server = "unary"
    /\ thread' = [thread EXCEPT ![Tag(p)] = "running"]
    /\ Goto(p, "FINISH")
    /\ UNCHANGED <<server, status, serves, outstanding, events, callVars, aborted>>

\* stream_.Read, from INIT_READ or READ, and stream_.Write from WRITE.
Read(p) ==
    /\ \/ At(p, "work") /\ server = "stream"
       \/ At(p, "proceed") /\ status[Tag(p)] = "READ"
    /\ Give(Tag(p), "read")
    /\ Goto(p, "WRITE")
    /\ UNCHANGED <<server, handlerVars, events, callVars, aborted>>

Write(p) ==
    /\ At(p, "proceed") /\ status[Tag(p)] = "WRITE"
    /\ Give(Tag(p), "write")
    /\ Goto(p, "READ")
    /\ UNCHANGED <<server, handlerVars, events, callVars, aborted>>

\* status_ is set after the thread, the read or the write has been started, and
\* in CallData before Finish.
SetStatus(p) ==
    /\ poller[p].at \in {"FINISH", "WRITE", "READ"} /\ ~aborted
    /\ status' = [status EXCEPT ![Tag(p)] = poller[p].at]
    /\ Goto(p, IF server = "hello" THEN "finish" ELSE "next")
    /\ UNCHANGED <<server, thread, serves, outstanding, events, callVars, aborted>>

Finish(p) ==
    /\ At(p, "finish")
    /\ Give(Tag(p), "finish")
    /\ Goto(p, "next")
    /\ UNCHANGED <<server, handlerVars, events, callVars, aborted>>

\* FINISH without "delete this".
Keep(p) ==
    /\ At(p, "proceed") /\ status[Tag(p)] = "FINISH"
    /\ Goto(p, "next")
    /\ UNCHANGED <<server, handlerVars, outstanding, events, callVars, aborted>>

Delete(p) ==
    /\ At(p, "proceed") /\ status[Tag(p)] = "FINISH"
    /\ status' = [status EXCEPT ![Tag(p)] = "deleted"]
    /\ Goto(p, "next")
    /\ UNCHANGED <<server, thread, serves, outstanding, events, callVars, aborted>>

Loop(p) ==
    \/ Begin(p) \/ TakeEvent(p) \/ Spawn(p) \/ InitThread(p) \/ Read(p) \/ Write(p)
    \/ SetStatus(p) \/ Finish(p) \/ Delete(p)

\* AsyncServiceImpl::run: grpc_proc_ computes the answer, and Finish.
Run(h) ==
    /\ ~aborted /\ thread[h] = "running"
    /\ thread' = [thread EXCEPT ![h] = "ended"]
    /\ Give(h, "finish")
    /\ UNCHANGED <<server, status, serves, events, poller, callVars, aborted>>

-------------------------------------------------------------------------------
(* gRPC completes operations: each takes one and queues its event.            *)
Complete(h, op, ok) ==
    /\ op \in outstanding[h] /\ ~aborted
    /\ outstanding' = [outstanding EXCEPT ![h] = @ \ {op}]
    /\ events' = events \cup {[tag |-> h, op |-> op, ok |-> ok]}
    /\ UNCHANGED <<server, status, thread, poller, aborted>>

Open(h) == call[serves[h]] = "open"

Accept(h, c) ==
    /\ Complete(h, "request", TRUE)
    /\ call[c] = "sent"
    /\ call' = [call EXCEPT ![c] = "open"]
    /\ serves' = [serves EXCEPT ![h] = c]
    /\ UNCHANGED <<sent, taken, replied>>

ReadDone(h) ==
    /\ \/ /\ Complete(h, "read", TRUE)
          /\ taken[serves[h]] < sent[serves[h]]
          /\ taken' = [taken EXCEPT ![serves[h]] = @ + 1]
       \/ /\ Complete(h, "read", FALSE)
          /\ ~Open(h)
          /\ UNCHANGED taken
    /\ UNCHANGED <<serves, call, sent, replied>>

WriteDone(h) ==
    /\ "write" \in outstanding[h] /\ Complete(h, "write", Open(h))
    /\ replied' = IF Open(h) THEN [replied EXCEPT ![serves[h]] = @ + 1] ELSE replied
    /\ UNCHANGED <<serves, call, sent, taken>>

FinishDone(h) ==
    /\ "finish" \in outstanding[h] /\ Complete(h, "finish", Open(h))
    /\ call' = IF Open(h) THEN [call EXCEPT ![serves[h]] = "answered"] ELSE call
    /\ UNCHANGED <<serves, sent, taken, replied>>

Runtime == \E h \in Handler :
    \/ ReadDone(h) \/ WriteDone(h) \/ FinishDone(h)
    \/ \E c \in Call : Accept(h, c)

-------------------------------------------------------------------------------
(* Clients                                                                    *)

\* AsyncTransmit, SayHello, or the constructor of PersistentConnect.
Transmit(c) ==
    /\ call[c] = "idle"
    /\ call' = [call EXCEPT ![c] = "sent"]
    /\ UNCHANGED <<server, handlerVars, outstanding, events, poller, sent, taken, replied, aborted>>

\* PersistentConnect::Request
Request(c) ==
    /\ server = "stream" /\ call[c] \in {"sent", "open"} /\ sent[c] < MaxMessages
    /\ sent' = [sent EXCEPT ![c] = @ + 1]
    /\ UNCHANGED <<server, handlerVars, outstanding, events, poller, call, taken, replied, aborted>>

\* The call is cancelled, or the client or its connection is gone.
Fail(c) ==
    /\ call[c] \in {"sent", "open"}
    /\ call' = [call EXCEPT ![c] = "failed"]
    /\ UNCHANGED <<server, handlerVars, outstanding, events, poller, sent, taken, replied, aborted>>

\* The client's loop takes the event of the call and deletes it, with an answer
\* or with an error.
CompleteRpc(c) ==
    /\ server # "stream" /\ call[c] \in {"answered", "failed"}
    /\ call' = [call EXCEPT ![c] = IF @ = "answered" THEN "received" ELSE "lost"]
    /\ UNCHANGED <<server, handlerVars, outstanding, events, poller, sent, taken, replied, aborted>>

-------------------------------------------------------------------------------
Next ==
    \/ \E p \in Pollers : Loop(p)
    \/ \E h \in Handler : Run(h)
    \/ Runtime
    \/ \E c \in Call : Transmit(c) \/ Request(c) \/ Fail(c) \/ CompleteRpc(c)

Spec == Init /\ [][Next]_vars

\* Every thread runs on and gRPC completes what can be completed.  No client has
\* to call, and none to fail.
FairSpec ==
    /\ Spec
    /\ \A p \in Poller : WF_vars(p \in Pollers /\ Loop(p))
    /\ \A h \in Handler :
          /\ WF_vars(Run(h))
          /\ WF_vars(ReadDone(h)) /\ WF_vars(WriteDone(h)) /\ WF_vars(FinishDone(h))
    /\ \A c \in Call : WF_vars(\E h \in Handler : Accept(h, c)) /\ WF_vars(CompleteRpc(c))

-------------------------------------------------------------------------------
Allocated(h) == status[h] \notin {"unallocated", "deleted"}

TypeOK ==
    /\ server \in Server
    /\ status \in [Handler -> {"unallocated", "PROCESS", "INIT_READ", "READ", "WRITE",
                               "FINISH", "deleted"}]
    /\ thread \in [Handler -> {"none", "running", "ended"}]
    /\ serves \in [Handler -> Call \cup {NoCall}]
    /\ outstanding \in [Handler -> SUBSET Operation]
    /\ events \subseteq Event
    /\ poller \in [Poller -> [at : {"begin", "next", "proceed", "work", "FINISH", "WRITE",
                                    "READ", "finish"},
                              tag : Handler, op : Operation]]
    /\ call \in [Call -> {"idle", "sent", "open", "answered", "failed", "received", "lost"}]
    /\ sent \in [Call -> 0..MaxMessages]
    /\ taken \in [Call -> 0..MaxMessages]
    /\ replied \in [Call -> 0..MaxMessages]
    /\ \A c \in Call : replied[c] <= taken[c] /\ taken[c] <= sent[c]
    /\ aborted \in BOOLEAN

\* The state in which a handler waits for the end of an operation.
Awaits(op) ==
    CASE op = "request" -> IF server = "stream" THEN "INIT_READ" ELSE "PROCESS"
      [] op = "read"    -> "WRITE"
      [] op = "write"   -> "READ"
      [] op = "finish"  -> "FINISH"

\* A tag says neither which operation has ended nor that its handler is there:
\* status_ must say the one and the handler's life the other, although status_ is
\* set after the operation or the thread has been started, and the handler
\* deletes itself.  The handler of an event, of an operation or of a thread lives,
\* has but one of them, and is in the state that awaits it when the event is taken.
EventsMeetTheirState ==
    /\ \A p \in Poller : poller[p].at = "proceed" => status[Tag(p)] = Awaits(poller[p].op)
    /\ \A h \in Handler :
          /\ outstanding[h] # {} \/ thread[h] = "running" => Allocated(h)
          /\ \A op1, op2 \in outstanding[h] : op1 = op2
          /\ thread[h] = "running" => outstanding[h] = {}
    /\ \A e \in events :
          /\ Allocated(e.tag)
          /\ outstanding[e.tag] = {} /\ thread[e.tag] # "running"
          /\ \A f \in events : f.tag = e.tag => f = e

\* Each loop keeps one handler that listens for the next call, or is about to
\* make one: calls are never served by fewer or by more listeners than threads.
AlwaysListening ==
    Cardinality({h \in Handler : "request" \in outstanding[h]})
        + Cardinality({e \in events : e.op = "request"})
        + Cardinality({p \in Poller : poller[p].at = "proceed" /\ poller[p].op = "request"})
    = Cardinality({p \in Poller : poller[p].at # "begin"})

Failed == {c \in Call : call[c] \in {"failed", "lost"}}

\* A call, and every message on a stream, is answered, unless the client fails.
\* A failed call is the end of a server that asserts.
CallAnswered ==
    \A c \in Call :
        /\ server # "stream" /\ call[c] = "sent"
               ~> call[c] \in {"answered", "received"} \/ c \in Failed \/ aborted
        /\ \A n \in 1..MaxMessages :
               sent[c] >= n ~> replied[c] >= n \/ c \in Failed

\* "Once in the FINISH state, deallocate ourselves": the handler of a call that has
\* been finished is deleted.  That of a call that failed never is.
FinishedIsFreed ==
    \A h \in Handler :
        thread[h] = "ended" \/ status[h] = "FINISH"
            ~> status[h] = "deleted" \/ serves[h] \in Failed \/ aborted
===============================================================================
