--------------------------- MODULE AsyncServerProofs ---------------------------
(***************************************************************************)
(* Proofs about AsyncServer, for any number of threads, calls and messages: *)
(* its types, and that an event finds its handler alive and in the state    *)
(* that awaits it.                                                          *)
(***************************************************************************)
EXTENDS AsyncServer, FiniteSetTheorems, TLAPS

\* A thread that is in Proceed.
Busy(p) == poller[p].at \notin {"begin", "next"}
BusyWith(p, h) == Busy(p) /\ Tag(p) = h

\* A thread that has started an operation and not yet set status_.
Started(p, op) ==
    \/ poller[p].at = "WRITE" /\ op = "read"
    \/ poller[p].at = "READ" /\ op = "write"
    \/ poller[p].at = "FINISH" /\ op = "finish" /\ server = "unary"

\* Which threads are in Proceed, and at most one for each handler.
Apart ==
    /\ \A p \in Poller : Busy(p) => p \in Pollers /\ serves[Tag(p)] \in Call
    /\ \A p, q \in Poller : Busy(p) /\ BusyWith(q, Tag(p)) => p = q

\* status_ at each place in Proceed.
Places ==
    \A p \in Poller :
        /\ poller[p].at = "proceed" =>
               /\ status[Tag(p)] = Awaits(poller[p].op) /\ thread[Tag(p)] # "running"
               /\ server = "stream" => poller[p].op # "finish"
               /\ server # "stream" => poller[p].op \in {"request", "finish"}
        /\ poller[p].at = "work" => server # "hello" /\ status[Tag(p)] = Awaits("request")
        /\ poller[p].at = "FINISH" =>
               /\ server # "stream" /\ status[Tag(p)] = "PROCESS"
               /\ server = "unary" => thread[Tag(p)] # "none"
        /\ poller[p].at = "WRITE" => server = "stream" /\ status[Tag(p)] \in {"INIT_READ", "READ"}
        /\ poller[p].at = "READ" => server = "stream" /\ status[Tag(p)] = "WRITE"
        /\ poller[p].at = "finish" => server = "hello" /\ status[Tag(p)] = "FINISH"

\* An operation that gRPC has, or whose event is in the queue: its handler awaits
\* it, or a thread is about to say so.
Awaited(h, op) ==
    /\ Allocated(h)
    /\ server = "stream" => op # "finish"
    /\ server # "stream" => op \in {"request", "finish"}
    /\ \A p \in Poller : BusyWith(p, h) => Started(p, op)
    /\ (\A p \in Poller : ~BusyWith(p, h)) => status[h] = Awaits(op)

Operations ==
    \A h \in Handler :
        /\ \A op \in outstanding[h] :
              /\ Awaited(h, op)
              /\ thread[h] # "running"
              /\ op # "request" => serves[h] \in Call
        /\ \A op1, op2 \in outstanding[h] : op1 = op2

Queue ==
    /\ \A e \in events :
          /\ Awaited(e.tag, e.op)
          /\ outstanding[e.tag] = {} /\ thread[e.tag] # "running" /\ serves[e.tag] \in Call
    /\ \A e, f \in events : e.tag = f.tag => e = f

\* The thread of a handler exists only from InitThread on.
Threads ==
    \A h \in Handler : thread[h] # "none" =>
        /\ server = "unary" /\ serves[h] \in Call
        /\ \/ status[h] \in {"FINISH", "deleted"} /\ (thread[h] = "running" => status[h] = "FINISH")
           \/ status[h] = "PROCESS" /\ \E p \in Poller : BusyWith(p, h) /\ poller[p].at = "FINISH"

\* Handlers serve different calls.
Serving ==
    /\ \A h \in Handler : serves[h] \in Call =>
          /\ call[serves[h]] \notin {"idle", "sent"}
          /\ \A g \in Handler : serves[g] = serves[h] => g = h
    /\ \A h \in Handler : status[h] = "unallocated" => serves[h] = NoCall

\* Between the message and the answer to it, the message has been taken.
Due(h) ==
    \/ "write" \in outstanding[h]
    \/ \E e \in events : e.tag = h /\ e.op = "read" /\ e.ok
    \/ \E p \in Poller : poller[p].at = "proceed" /\ Tag(p) = h /\ poller[p].op = "read"

Answers ==
    \A h \in Handler : Due(h) => serves[h] \in Call /\ replied[serves[h]] < taken[serves[h]]

IInv ==
    /\ TypeOK /\ Apart /\ Places /\ Operations /\ Queue /\ Threads /\ Serving /\ Answers

-------------------------------------------------------------------------------
LEMMA OnePoller ==
    server # "hello" => \A p, q \in Pollers : p = q
BY SizeAssumption DEF Pollers

LEMMA Completed ==
    ASSUME TypeOK, NEW h \in Handler, NEW op, NEW ok \in BOOLEAN, Complete(h, op, ok)
    PROVE  events' \subseteq Event
<1>1. op \in Operation BY DEF TypeOK, Complete
<1>2. [tag |-> h, op |-> op, ok |-> ok] \in Event BY <1>1 DEF Event
<1> QED BY <1>2 DEF TypeOK, Complete

\* The types of what Goto and Give change.
Polling == [at : {"begin", "next", "proceed", "work", "FINISH", "WRITE", "READ", "finish"},
            tag : Handler, op : Operation]

LEMMA GotoTyped ==
    ASSUME TypeOK, NEW p \in Poller, NEW where, Goto(p, where),
           where \in {"begin", "next", "proceed", "work", "FINISH", "WRITE", "READ", "finish"}
    PROVE  poller' \in [Poller -> Polling]
<1>1. poller \in [Poller -> Polling] BY DEF TypeOK, Polling
<1>2. [poller[p] EXCEPT !.at = where] \in Polling BY <1>1 DEF Polling
<1> QED BY <1>1, <1>2 DEF Goto

LEMMA GiveTyped ==
    ASSUME TypeOK, NEW h \in Handler, NEW op \in Operation, Give(h, op)
    PROVE  outstanding' \in [Handler -> SUBSET Operation]
BY DEF TypeOK, Give

\* The one event that is new.
LEMMA NewEvent ==
    ASSUME NEW h \in Handler, NEW op, NEW ok, Complete(h, op, ok)
    PROVE  /\ \A e \in events' : e \in events \/ (e.tag = h /\ e.op = op)
           /\ \A e, f \in events' : e \in events \/ f \in events \/ e = f
<1> DEFINE new == [tag |-> h, op |-> op, ok |-> ok]
<1>1. events' = events \cup {new} BY DEF Complete
<1>2. new.tag = h /\ new.op = op OBVIOUS
<1> HIDE DEF new
<1> QED BY <1>1, <1>2

LEMMA BeginStep ==
    ASSUME IInv, NEW p \in Pollers, Begin(p)
    PROVE  IInv'
<1> p \in Poller BY SizeAssumption DEF Pollers
<1>1. TypeOK'
    BY DEF Begin, callVars, New, IInv, TypeOK, Operation, Awaits, Goto, Give
<1>2. Apart'
    BY DEF Begin, callVars, New, IInv, TypeOK, Operation, Apart, Busy, BusyWith, Tag,
        Pollers, Awaits, Goto, Give
<1>3. Places'
    BY OnePoller DEF Begin, New, Fresh, IInv, Apart, Busy, BusyWith, Tag, Pollers, Places,
        Awaits, At, Goto
<1>4. Operations'
    BY DEF Begin, New, Fresh, IInv, TypeOK, Operation, Busy, BusyWith, Tag, Places,
        Awaits, Operations, Awaited, Allocated, Started, Threads, At, Goto, Give
<1>5. Queue'
    BY OnePoller DEF Begin, New, Fresh, IInv, TypeOK, Event, Operation, Busy, BusyWith,
        Tag, Pollers, Places, Awaits, Operations, Awaited, Allocated, Started, Queue,
        Threads, Serving, At, Goto, Give
<1>6. Threads'
    BY DEF Begin, New, Fresh, IInv, TypeOK, Event, Operation, Busy, BusyWith, Tag,
        Pollers, Awaits, Awaited, Allocated, Started, Queue, Threads, Serving, At, Goto,
        Give
<1>7. Serving'
    BY DEF Begin, callVars, New, Fresh, IInv, Threads, Serving, At
<1>8. Answers'
    BY DEF Begin, callVars, New, IInv, Tag, Serving, Answers, Due, Goto, Give
<1> QED BY <1>1, <1>2, <1>3, <1>4, <1>5, <1>6, <1>7, <1>8 DEF IInv

LEMMA TakeEventStep ==
    ASSUME IInv, NEW p \in Pollers, TakeEvent(p)
    PROVE  IInv'
<1> p \in Poller BY SizeAssumption DEF Pollers
<1>e. PICK e \in events : TakeEvent(p)!(e) BY DEF TakeEvent
<1>1. TypeOK'
  <2>1. /\ server' \in Server
        /\ status' \in [Handler -> {"unallocated", "PROCESS", "INIT_READ", "READ", "WRITE",
                                    "FINISH", "deleted"}]
        /\ thread' \in [Handler -> {"none", "running", "ended"}]
        /\ serves' \in [Handler -> Call \cup {NoCall}]
        /\ outstanding' \in [Handler -> SUBSET Operation]
    BY <1>e DEF IInv, TypeOK, TakeEvent, At, handlerVars
  <2>2. events' \subseteq Event
    BY <1>e DEF IInv, TypeOK, TakeEvent, At, handlerVars
  <2>3. /\ poller' \in [Poller -> [at : {"begin", "next", "proceed", "work", "FINISH", "WRITE",
                                       "READ", "finish"},
                                 tag : Handler, op : Operation]]
        /\ call' \in [Call -> {"idle", "sent", "open", "answered", "failed", "received", "lost"}]
    BY <1>e DEF IInv, TypeOK, Event, TakeEvent, callVars
  <2>4. /\ sent' \in [Call -> 0..MaxMessages]
        /\ taken' \in [Call -> 0..MaxMessages]
        /\ replied' \in [Call -> 0..MaxMessages]
        /\ \A x \in Call : replied'[x] <= taken'[x] /\ taken'[x] <= sent'[x]
    BY <1>e, SizeAssumption DEF IInv, TypeOK, TakeEvent, At, callVars
  <2>5. aborted' \in BOOLEAN
    BY <1>e DEF IInv, TypeOK, TakeEvent, At, callVars
  <2> QED BY <2>1, <2>2, <2>3, <2>4, <2>5 DEF TypeOK
<1>2. Apart'
    BY <1>e, OnePoller, SMTT(30) DEF TakeEvent, handlerVars, IInv, TypeOK, Event, Apart,
        Busy, 
        BusyWith, Tag, Pollers, Operations, Awaited, Started, Queue, Threads, Serving,
        Answers, At
<1>3. Places'
    BY <1>e, OnePoller DEF TakeEvent, handlerVars, IInv, TypeOK, Event, Operation, Apart,
        Busy, BusyWith, Tag, Pollers, Places, Awaits, Operations, Awaited, Started, Queue,
        Threads, Serving, Answers, At
<1>4. Operations'
  <2>1. UNCHANGED <<outstanding, thread, serves, status, server>>
    BY <1>e DEF handlerVars
  <2>2. ASSUME NEW h \in Handler, NEW op \in outstanding[h] PROVE Awaited(h, op)'
    <3>1. h # e.tag BY <2>2 DEF IInv, Queue
    <3>2. \A q \in Poller : BusyWith(q, h)' => BusyWith(q, h) /\ Started(q, op)' = Started(q, op)
      BY <1>e, <2>1, <3>1 DEF IInv, TypeOK, BusyWith, Busy, Tag, Started
    <3>3. \A q \in Poller : BusyWith(q, h) => BusyWith(q, h)'
      BY <1>e DEF IInv, TypeOK, BusyWith, Busy, Tag, At
    <3> QED BY <2>1, <2>2, <3>2, <3>3 DEF IInv, Operations, Awaited, Allocated, Awaits
  <2> QED BY <2>1, <2>2 DEF IInv, Operations
<1>5. Queue'
    BY <1>e, OnePoller, SMTT(30) DEF TakeEvent, handlerVars, IInv, TypeOK, Event,
        Operation, Busy, 
        BusyWith, Tag, Places, Awaits, Awaited, Allocated, Started, Queue, At
<1>6. Threads'
    BY <1>e, SMTT(30) DEF TakeEvent, handlerVars, IInv, TypeOK, Event, Operation, Busy,
        BusyWith, 
        Tag, Places, Awaits, Awaited, Allocated, Started, Queue, Threads, At
<1>7. Serving'
    BY <1>e DEF TakeEvent, callVars, handlerVars, IInv, TypeOK, Busy, BusyWith, Tag,
        Threads, Serving, At
<1>8. Answers'
  <2> SUFFICES ASSUME NEW h \in Handler, Due(h)'
               PROVE  serves[h] \in Call /\ replied[serves[h]] < taken[serves[h]]
    BY <1>e DEF Answers, callVars, handlerVars
  <2>1. Due(h) BY <1>e, SMTT(30) DEF IInv, TypeOK, Due, Tag, At
  <2> QED BY <2>1 DEF IInv, Answers
<1> QED BY <1>1, <1>2, <1>3, <1>4, <1>5, <1>6, <1>7, <1>8 DEF IInv

LEMMA SpawnStep ==
    ASSUME IInv, NEW p \in Pollers, Spawn(p)
    PROVE  IInv'
<1> p \in Poller BY SizeAssumption DEF Pollers
<1>1. TypeOK'
    BY DEF Spawn, callVars, New, IInv, TypeOK, Operation, Goto, Give
<1>2. Apart'
    BY DEF Spawn, callVars, New, IInv, TypeOK, Operation, Apart, Busy, BusyWith, Tag,
        Pollers, At, Goto, Give
<1>3. Places'
    BY DEF Spawn, New, Fresh, IInv, TypeOK, Operation, Apart, Busy, BusyWith, Tag,
        Pollers, Places, Awaits, At, Goto
<1>4. Operations'
    BY DEF Spawn, New, Fresh, IInv, TypeOK, Operation, Busy, BusyWith, Tag, Places,
        Awaits, Operations, Awaited, Allocated, Started, Threads, At, Goto, Give
<1>5. Queue'
    BY DEF Spawn, New, Fresh, IInv, TypeOK, Event, Operation, Busy, BusyWith, Tag, Places,
        Awaits, Operations, Awaited, Allocated, Started, Queue, Threads, At, Goto, Give
<1>6. Threads'
    BY DEF Spawn, New, Fresh, IInv, TypeOK, Event, Operation, Busy, BusyWith, Tag, Awaits,
        Awaited, Allocated, Started, Queue, Threads, At, Goto, Give
<1>7. Serving'
    BY DEF Spawn, callVars, New, Fresh, IInv, Busy, BusyWith, Tag, Threads, Serving, At,
        Goto
<1>8. Answers'
    BY DEF Spawn, callVars, New, IInv, Tag, Serving, Answers, Due, Goto, Give
<1> QED BY <1>1, <1>2, <1>3, <1>4, <1>5, <1>6, <1>7, <1>8 DEF IInv

LEMMA InitThreadStep ==
    ASSUME IInv, NEW p \in Pollers, InitThread(p)
    PROVE  IInv'
<1> p \in Poller BY SizeAssumption DEF Pollers
<1>1. TypeOK'
  <2>1. poller' \in [Poller -> Polling] BY GotoTyped DEF InitThread, IInv
  <2>2. thread' \in [Handler -> {"none", "running", "ended"}]
    BY DEF InitThread, IInv, TypeOK
  <2> QED BY <2>1, <2>2 DEF InitThread, callVars, IInv, TypeOK, Polling
<1>2. Apart'
    BY DEF InitThread, callVars, IInv, TypeOK, Apart, Busy, BusyWith, Tag, Pollers,
        Awaits, At, Goto
<1>3. Places'
    BY DEF InitThread, IInv, TypeOK, Apart, Busy, BusyWith, Tag, Pollers, Places, Awaits,
        At, Goto
<1>4. Operations'
    BY DEF InitThread, IInv, TypeOK, Apart, Busy, BusyWith, Tag, Places, Awaits,
        Operations, Awaited, Allocated, Started, At, Goto
<1>5. Queue'
    BY DEF InitThread, IInv, Event, Busy, BusyWith, Tag, Awaits, Operations, Awaited,
        Allocated, Started, Queue, At, Goto
<1>6. Threads'
    BY DEF InitThread, IInv, TypeOK, Event, Apart, Busy, BusyWith, Tag, Places, Awaits,
        Awaited, Allocated, Started, Queue, Threads, At, Goto
<1>7. Serving'
    BY DEF InitThread, callVars, IInv, TypeOK, Apart, Busy, BusyWith, Tag, Places, Awaits,
        Threads, Serving, At, Goto
<1>8. Answers'
    BY DEF InitThread, callVars, IInv, Tag, Serving, Answers, Due, Goto
<1> QED BY <1>1, <1>2, <1>3, <1>4, <1>5, <1>6, <1>7, <1>8 DEF IInv

LEMMA ReadStep ==
    ASSUME IInv, NEW p \in Pollers, Read(p)
    PROVE  IInv'
<1> p \in Poller BY SizeAssumption DEF Pollers
<1>1. TypeOK'
  <2>1. Tag(p) \in Handler BY DEF Tag, IInv, TypeOK
  <2>2. poller' \in [Poller -> Polling] BY GotoTyped DEF Read, IInv
  <2>3. outstanding' \in [Handler -> SUBSET Operation]
    BY <2>1, GiveTyped DEF Read, Operation, IInv
  <2> QED BY <2>2, <2>3 DEF Read, callVars, handlerVars, IInv, TypeOK, Polling
<1>2. Apart'
    BY DEF Read, callVars, handlerVars, IInv, TypeOK, Operation, Apart, Busy, BusyWith,
        Tag, Pollers, At, Goto, Give
<1>3. Places'
    BY OnePoller DEF Read, handlerVars, IInv, TypeOK, Apart, Busy, BusyWith, Tag, Pollers,
        Places, Awaits, At, Goto
<1>4. Operations'
    BY DEF Read, handlerVars, IInv, TypeOK, Operation, Apart, Busy, BusyWith, Tag, Places,
        Awaits, Operations, Awaited, Allocated, Started, Threads, At, Goto, Give
<1>5. Queue'
    BY DEF Read, handlerVars, IInv, TypeOK, Event, Operation, Apart, Busy, BusyWith, Tag,
        Places, Awaits, Operations, Awaited, Allocated, Started, Queue, Threads, At, Goto,
        Give
<1>6. Threads'
    BY DEF Read, handlerVars, IInv, TypeOK, Event, Operation, Busy, BusyWith, Tag, Awaits,
        Awaited, Allocated, Started, Queue, Threads, At, Goto, Give
<1>7. Serving'
    BY DEF Read, callVars, handlerVars, IInv, Busy, BusyWith, Tag, Threads, Serving, Goto
<1>8. Answers'
    BY DEF Read, callVars, handlerVars, IInv, Tag, Serving, Answers, Due, Goto, Give
<1> QED BY <1>1, <1>2, <1>3, <1>4, <1>5, <1>6, <1>7, <1>8 DEF IInv

LEMMA WriteStep ==
    ASSUME IInv, NEW p \in Pollers, Write(p)
    PROVE  IInv'
<1> p \in Poller BY SizeAssumption DEF Pollers
<1>1. TypeOK'
    BY DEF Write, callVars, handlerVars, IInv, TypeOK, Event, Operation, Tag, Places,
        Goto, Give
<1>2. Apart'
    BY DEF Write, callVars, handlerVars, IInv, TypeOK, Event, Operation, Apart, Busy,
        BusyWith, Tag, Pollers, Places, At, Goto, Give
<1>3. Places'
    BY OnePoller DEF Write, handlerVars, IInv, TypeOK, Apart, Busy, BusyWith, Tag,
        Pollers, Places, Awaits, At, Goto
<1>4. Operations'
    BY DEF Write, handlerVars, IInv, TypeOK, Operation, Apart, Busy, BusyWith, Tag,
        Places, Awaits, Operations, Awaited, Allocated, Started, At, Goto, Give
<1>5. Queue'
    BY DEF Write, handlerVars, IInv, TypeOK, Event, Operation, Apart, Busy, BusyWith, Tag,
        Places, Awaits, Operations, Awaited, Allocated, Started, Queue, At, Goto, Give
<1>6. Threads'
    BY DEF Write, handlerVars, IInv, TypeOK, Event, Operation, Busy, BusyWith, Tag,
        Awaits, Awaited, Allocated, Started, Queue, Threads, At, Goto, Give
<1>7. Serving'
    BY DEF Write, callVars, handlerVars, IInv, Busy, BusyWith, Tag, Threads, Serving, Goto
<1>8. Answers'
    BY DEF Write, callVars, handlerVars, IInv, TypeOK, Operation, Tag, Places, Awaits,
        Serving, Answers, Due, At, Goto, Give
<1> QED BY <1>1, <1>2, <1>3, <1>4, <1>5, <1>6, <1>7, <1>8 DEF IInv

LEMMA SetStatusStep ==
    ASSUME IInv, NEW p \in Pollers, SetStatus(p)
    PROVE  IInv'
<1> p \in Poller BY SizeAssumption DEF Pollers
<1>1. TypeOK'
    BY DEF SetStatus, callVars, IInv, TypeOK, Tag, Goto
<1>2. Apart'
    BY DEF SetStatus, callVars, IInv, TypeOK, Apart, Busy, BusyWith, Tag, Pollers, Goto
<1>3. Places'
    BY OnePoller DEF SetStatus, IInv, TypeOK, Apart, Busy, BusyWith, Tag, Pollers, Places,
        Awaits, Goto
<1>4. Operations'
    BY DEF SetStatus, IInv, TypeOK, Operation, Apart, Busy, BusyWith, Tag, Places, Awaits,
        Operations, Awaited, Allocated, Started, Goto
<1>5. Queue'
    BY OnePoller, SMTT(30) DEF SetStatus, IInv, TypeOK, Event, Operation, Busy, BusyWith,
        Tag, 
        Awaits, Operations, Awaited, Allocated, Started, Queue, Goto
<1>6. Threads'
    BY DEF SetStatus, IInv, TypeOK, Event, Operation, Busy, BusyWith, Tag, Places, Awaits,
        Awaited, Allocated, Started, Queue, Threads, Goto
<1>7. Serving'
    BY DEF SetStatus, callVars, IInv, TypeOK, Busy, BusyWith, Tag, Places, Threads,
        Serving, Goto
<1>8. Answers'
    BY DEF SetStatus, callVars, IInv, Tag, Serving, Answers, Due, Goto
<1> QED BY <1>1, <1>2, <1>3, <1>4, <1>5, <1>6, <1>7, <1>8 DEF IInv

LEMMA FinishStep ==
    ASSUME IInv, NEW p \in Pollers, Finish(p)
    PROVE  IInv'
<1> p \in Poller BY SizeAssumption DEF Pollers
<1>1. TypeOK'
  <2>1. Tag(p) \in Handler BY DEF Tag, IInv, TypeOK
  <2>2. poller' \in [Poller -> Polling] BY GotoTyped DEF Finish, IInv
  <2>3. outstanding' \in [Handler -> SUBSET Operation]
    BY <2>1, GiveTyped DEF Finish, Operation, IInv
  <2> QED BY <2>2, <2>3 DEF Finish, callVars, handlerVars, IInv, TypeOK, Polling
<1>2. Apart'
    BY DEF Finish, callVars, handlerVars, IInv, TypeOK, Operation, Apart, Busy, BusyWith,
        Tag, Pollers, Places, At, Goto, Give
<1>3. Places'
    BY DEF Finish, handlerVars, IInv, Apart, Busy, BusyWith, Tag, Pollers, Places, Awaits,
        At, Goto
<1>4. Operations'
    BY DEF Finish, handlerVars, IInv, TypeOK, Apart, Busy, BusyWith, Tag, Places, Awaits,
        Operations, Awaited, Allocated, Started, Threads, At, Goto, Give
<1>5. Queue'
    BY DEF Finish, handlerVars, IInv, TypeOK, Apart, Busy, BusyWith, Tag, Places, Awaits,
        Operations, Awaited, Allocated, Started, Queue, Threads, At, Goto, Give
<1>6. Threads'
    BY DEF Finish, handlerVars, IInv, Busy, BusyWith, Tag, Awaits, Awaited, Allocated,
        Started, Queue, Threads, At, Goto, Give
<1>7. Serving'
    BY DEF Finish, callVars, handlerVars, IInv, Busy, BusyWith, Tag, Threads, Serving, At,
        Goto
<1>8. Answers'
    BY DEF Finish, callVars, handlerVars, IInv, Tag, Serving, Answers, Due, Goto, Give
<1> QED BY <1>1, <1>2, <1>3, <1>4, <1>5, <1>6, <1>7, <1>8 DEF IInv

LEMMA DeleteStep ==
    ASSUME IInv, NEW p \in Pollers, Delete(p)
    PROVE  IInv'
<1> p \in Poller BY SizeAssumption DEF Pollers
<1>1. TypeOK'
    BY DEF Delete, callVars, IInv, TypeOK, Goto
<1>2. Apart'
    BY DEF Delete, callVars, IInv, TypeOK, Apart, Busy, BusyWith, Tag, Pollers, Goto
<1>3. Places'
    BY OnePoller DEF Delete, IInv, TypeOK, Apart, Busy, BusyWith, Tag, Pollers, Places,
        Awaits, At, Goto
<1>4. Operations'
    BY DEF Delete, IInv, TypeOK, Operation, Apart, Busy, BusyWith, Tag, Places, Awaits,
        Operations, Awaited, Allocated, Started, At, Goto
<1>5. Queue'
    BY SMTT(30) DEF Delete, IInv, TypeOK, Event, Operation, Busy, BusyWith, Tag, Awaits,
        Operations, Awaited, Allocated, Started, Queue, At, Goto
<1>6. Threads'
    BY DEF Delete, IInv, TypeOK, Event, Operation, Busy, BusyWith, Tag, Places, Awaits,
        Awaited, Allocated, Started, Queue, Threads, At, Goto
<1>7. Serving'
    BY DEF Delete, callVars, IInv, Busy, BusyWith, Tag, Places, Threads, Serving, At, Goto
<1>8. Answers'
    BY DEF Delete, callVars, IInv, Tag, Serving, Answers, Due, Goto
<1> QED BY <1>1, <1>2, <1>3, <1>4, <1>5, <1>6, <1>7, <1>8 DEF IInv

LEMMA RunStep ==
    ASSUME IInv, NEW h \in Handler, Run(h)
    PROVE  IInv'
<1>1. TypeOK'
    BY DEF Run, callVars, IInv, TypeOK, Operation, Give
<1>2. Apart'
    BY DEF Run, callVars, IInv, TypeOK, Operation, Apart, Busy, BusyWith, Tag, Pollers, Give
<1>3. Places'
  <2>1. UNCHANGED <<server, status, poller>> BY DEF Run
  <2>2. \A q \in Poller : thread'[Tag(q)] # "running" <=> thread[Tag(q)] # "running" \/ Tag(q) = h
    BY DEF Run, IInv, TypeOK, Tag
  <2>3. \A q \in Poller : thread'[Tag(q)] # "none" <=> thread[Tag(q)] # "none"
    BY DEF Run, IInv, TypeOK, Tag
  <2> QED BY <2>1, <2>2, <2>3 DEF IInv, Places, Tag, Awaits
<1>4. Operations'
    BY OnePoller DEF Run, IInv, TypeOK, Busy, BusyWith, Tag, Pollers, Places, Awaits,
        Operations, Awaited, Allocated, Started, Threads, Give
<1>5. Queue'
    BY DEF Run, IInv, TypeOK, Busy, BusyWith, Tag, Pollers, Places, Awaits, Operations,
        Awaited, Allocated, Started, Queue, Threads, Give
<1>6. Threads'
    BY DEF Run, IInv, Busy, BusyWith, Tag, Awaits, Awaited, Allocated, Started, Queue,
        Threads, Give
<1>7. Serving'
    BY DEF Run, callVars, IInv, Busy, BusyWith, Tag, Threads, Serving
<1>8. Answers'
    BY DEF Run, callVars, IInv, Tag, Serving, Answers, Due, Give
<1> QED BY <1>1, <1>2, <1>3, <1>4, <1>5, <1>6, <1>7, <1>8 DEF IInv

LEMMA AcceptStep ==
    ASSUME IInv, NEW h \in Handler, NEW c \in Call, Accept(h, c)
    PROVE  IInv'
<1>1. TypeOK'
  <2>1. /\ server' \in Server
        /\ status' \in [Handler -> {"unallocated", "PROCESS", "INIT_READ", "READ", "WRITE",
                                    "FINISH", "deleted"}]
        /\ thread' \in [Handler -> {"none", "running", "ended"}]
        /\ serves' \in [Handler -> Call \cup {NoCall}]
        /\ outstanding' \in [Handler -> SUBSET Operation]
    BY DEF IInv, TypeOK, Accept, Complete, At
  <2>2. events' \subseteq Event
    BY Completed DEF IInv, Accept
  <2>3. /\ poller' \in [Poller -> [at : {"begin", "next", "proceed", "work", "FINISH", "WRITE",
                                       "READ", "finish"},
                                 tag : Handler, op : Operation]]
        /\ call' \in [Call -> {"idle", "sent", "open", "answered", "failed", "received", "lost"}]
    BY DEF IInv, TypeOK, Accept, Complete, At
  <2>4. /\ sent' \in [Call -> 0..MaxMessages]
        /\ taken' \in [Call -> 0..MaxMessages]
        /\ replied' \in [Call -> 0..MaxMessages]
        /\ \A x \in Call : replied'[x] <= taken'[x] /\ taken'[x] <= sent'[x]
    BY SizeAssumption DEF IInv, TypeOK, Accept, Complete, At
  <2>5. aborted' \in BOOLEAN
    BY DEF IInv, TypeOK, Accept, Complete, At
  <2> QED BY <2>1, <2>2, <2>3, <2>4, <2>5 DEF TypeOK
<1>2. Apart'
    BY DEF Accept, Complete, IInv, Apart, Busy, BusyWith, Tag, Pollers
<1>3. Places'
    BY DEF Accept, Complete, IInv, Apart, Busy, BusyWith, Tag, Pollers, Places, Awaits
<1>4. Operations'
    BY DEF Accept, Complete, IInv, TypeOK, Operation, Busy, BusyWith, Tag, Places, Awaits,
        Operations, Awaited, Allocated, Started
<1>5. Queue'
  <2>1. /\ \A e \in events' : e \in events \/ (e.tag = h /\ e.op = "request")
        /\ \A e, f \in events' : e \in events \/ f \in events \/ e = f
    BY NewEvent DEF Accept
  <2>2. "request" \in outstanding[h] /\ outstanding'[h] = {}
    BY DEF IInv, TypeOK, Operations, Accept, Complete
  <2>3. \A e \in events : e.tag # h
    BY <2>2 DEF IInv, Queue, Accept, Complete
  <2>4. Awaited(h, "request")' /\ thread'[h] # "running" /\ serves'[h] \in Call
    BY <2>2 DEF Accept, Complete, IInv, TypeOK, Operations, Awaited, Allocated, Awaits,
        Started, Busy, BusyWith, Tag
  <2>5. \A e \in events' : /\ Awaited(e.tag, e.op)'
                          /\ outstanding'[e.tag] = {} /\ thread'[e.tag] # "running"
                          /\ serves'[e.tag] \in Call
    BY <2>1, <2>2, <2>3, <2>4 DEF Accept, Complete, IInv, TypeOK, Event, Operation, Queue,
        Awaited, Allocated, Awaits, Started, Busy, BusyWith, Tag
  <2>6. \A e, f \in events' : e.tag = f.tag => e = f
    BY <2>1, <2>3 DEF IInv, Queue
  <2> QED BY <2>5, <2>6 DEF Queue
<1>6. Threads'
    BY DEF Accept, Complete, IInv, Busy, BusyWith, Tag, Threads
<1>7. Serving'
    BY DEF Accept, Complete, IInv, TypeOK, Operation, Apart, Busy, BusyWith, Tag, Places,
        Awaits, Operations, Awaited, Threads, Serving
<1>8. Answers'
    BY DEF Accept, Complete, IInv, TypeOK, Operation, Apart, Busy, BusyWith, Tag, Places,
        Awaits, Operations, Awaited, Started, Queue, Serving, Answers, Due
<1> QED BY <1>1, <1>2, <1>3, <1>4, <1>5, <1>6, <1>7, <1>8 DEF IInv

LEMMA ReadDoneStep ==
    ASSUME IInv, NEW h \in Handler, ReadDone(h)
    PROVE  IInv'
<1>1. TypeOK'
  <2>1. /\ server' \in Server
        /\ status' \in [Handler -> {"unallocated", "PROCESS", "INIT_READ", "READ", "WRITE",
                                    "FINISH", "deleted"}]
        /\ thread' \in [Handler -> {"none", "running", "ended"}]
        /\ serves' \in [Handler -> Call \cup {NoCall}]
        /\ outstanding' \in [Handler -> SUBSET Operation]
    BY DEF IInv, TypeOK, ReadDone, Complete, At
  <2>2. events' \subseteq Event
    BY Completed DEF IInv, ReadDone
  <2>3. /\ poller' \in [Poller -> [at : {"begin", "next", "proceed", "work", "FINISH", "WRITE",
                                       "READ", "finish"},
                                 tag : Handler, op : Operation]]
        /\ call' \in [Call -> {"idle", "sent", "open", "answered", "failed", "received", "lost"}]
    BY DEF IInv, TypeOK, ReadDone, Complete, At
  <2>4. /\ sent' \in [Call -> 0..MaxMessages]
        /\ taken' \in [Call -> 0..MaxMessages]
        /\ replied' \in [Call -> 0..MaxMessages]
        /\ \A x \in Call : replied'[x] <= taken'[x] /\ taken'[x] <= sent'[x]
    <3>1. serves[h] \in Call
      BY DEF IInv, Operations, ReadDone, Complete, At
    <3>2. CASE taken' = taken
      BY <3>2 DEF IInv, TypeOK, ReadDone, Complete, At
    <3>3. CASE /\ taken' = [taken EXCEPT ![serves[h]] = @ + 1]
               /\ taken[serves[h]] < sent[serves[h]]
      <4>1. taken[serves[h]] \in Nat /\ sent[serves[h]] \in 0..MaxMessages
        BY <3>1 DEF IInv, TypeOK
      <4>2. taken[serves[h]] + 1 \in 0..MaxMessages
        BY <3>3, <4>1, SizeAssumption
      <4> QED BY <3>1, <3>3, <4>1, <4>2 DEF IInv, TypeOK, ReadDone, Complete, At
    <3> QED BY <3>2, <3>3 DEF ReadDone
  <2>5. aborted' \in BOOLEAN
    BY DEF IInv, TypeOK, ReadDone, Complete, At
  <2> QED BY <2>1, <2>2, <2>3, <2>4, <2>5 DEF TypeOK
<1>2. Apart'
    BY DEF ReadDone, Complete, IInv, Apart, Busy, BusyWith, Tag, Pollers
<1>3. Places'
  <2>1. UNCHANGED <<server, status, thread, poller>> BY DEF ReadDone, Complete
  <2> QED BY <2>1 DEF IInv, Places, Tag, Awaits
<1>4. Operations'
    BY DEF ReadDone, Complete, IInv, TypeOK, Operation, Busy, BusyWith, Tag, Places,
        Awaits, Operations, Awaited, Allocated, Started
<1>5. Queue'
  <2>1. /\ \A e \in events' : e \in events \/ (e.tag = h /\ e.op = "read")
        /\ \A e, f \in events' : e \in events \/ f \in events \/ e = f
    BY NewEvent DEF ReadDone
  <2>2. "read" \in outstanding[h] /\ outstanding'[h] = {}
    BY DEF IInv, TypeOK, Operations, ReadDone, Complete
  <2>3. \A e \in events : e.tag # h
    BY <2>2 DEF IInv, Queue, ReadDone, Complete
  <2>4. Awaited(h, "read")' /\ thread'[h] # "running" /\ serves'[h] \in Call
    BY <2>2 DEF ReadDone, Complete, IInv, Operations, Awaited, Allocated, Awaits, Started,
        Busy, BusyWith, Tag
  <2>5. \A e \in events' : /\ Awaited(e.tag, e.op)'
                          /\ outstanding'[e.tag] = {} /\ thread'[e.tag] # "running"
                          /\ serves'[e.tag] \in Call
    BY <2>1, <2>2, <2>3, <2>4 DEF ReadDone, Complete, IInv, TypeOK, Event, Operation,
        Queue, Awaited, Allocated, Awaits, Started, Busy, BusyWith, Tag
  <2>6. \A e, f \in events' : e.tag = f.tag => e = f
    BY <2>1, <2>3 DEF IInv, Queue
  <2> QED BY <2>5, <2>6 DEF Queue
<1>6. Threads'
    BY DEF ReadDone, Complete, IInv, Busy, BusyWith, Tag, Threads
<1>7. Serving'
    BY DEF ReadDone, Complete, IInv, Busy, BusyWith, Tag, Threads, Serving
<1>8. Answers'
    BY DEF ReadDone, Complete, IInv, TypeOK, Tag, Operations, Serving, Answers, Due
<1> QED BY <1>1, <1>2, <1>3, <1>4, <1>5, <1>6, <1>7, <1>8 DEF IInv

LEMMA WriteDoneStep ==
    ASSUME IInv, NEW h \in Handler, WriteDone(h)
    PROVE  IInv'
<1>1. TypeOK'
  <2>1. /\ server' \in Server
        /\ status' \in [Handler -> {"unallocated", "PROCESS", "INIT_READ", "READ", "WRITE",
                                    "FINISH", "deleted"}]
        /\ thread' \in [Handler -> {"none", "running", "ended"}]
        /\ serves' \in [Handler -> Call \cup {NoCall}]
        /\ outstanding' \in [Handler -> SUBSET Operation]
    BY DEF IInv, TypeOK, WriteDone, Complete, At
  <2>2. events' \subseteq Event
    <3>1. Open(h) \in BOOLEAN BY DEF Open
    <3>2. TypeOK /\ Complete(h, "write", Open(h)) BY DEF IInv, WriteDone
    <3> QED BY <3>1, <3>2, Completed
  <2>3. /\ poller' \in [Poller -> [at : {"begin", "next", "proceed", "work", "FINISH", "WRITE",
                                       "READ", "finish"},
                                 tag : Handler, op : Operation]]
        /\ call' \in [Call -> {"idle", "sent", "open", "answered", "failed", "received", "lost"}]
    BY DEF IInv, TypeOK, WriteDone, Complete, At
  <2>4. /\ sent' \in [Call -> 0..MaxMessages]
        /\ taken' \in [Call -> 0..MaxMessages]
        /\ replied' \in [Call -> 0..MaxMessages]
        /\ \A x \in Call : replied'[x] <= taken'[x] /\ taken'[x] <= sent'[x]
    BY SizeAssumption DEF IInv, TypeOK, Answers, Due, WriteDone, Complete
  <2>5. aborted' \in BOOLEAN
    BY DEF IInv, TypeOK, WriteDone, Complete, At
  <2> QED BY <2>1, <2>2, <2>3, <2>4, <2>5 DEF TypeOK
<1>2. Apart'
    BY DEF WriteDone, Complete, IInv, Apart, Busy, BusyWith, Tag, Pollers
<1>3. Places'
    BY DEF WriteDone, Complete, IInv, Apart, Busy, BusyWith, Tag, Pollers, Places, Awaits
<1>4. Operations'
    BY DEF WriteDone, Complete, IInv, TypeOK, Operation, Busy, BusyWith, Tag, Places,
        Awaits, Operations, Awaited, Allocated, Started
<1>5. Queue'
    BY DEF WriteDone, Complete, IInv, TypeOK, Event, Operation, Busy, BusyWith, Tag,
        Awaits, Operations, Awaited, Allocated, Started, Queue
<1>6. Threads'
    BY DEF WriteDone, Complete, IInv, TypeOK, Event, Operation, Busy, BusyWith, Tag,
        Awaits, Operations, Awaited, Allocated, Started, Queue, Threads
<1>7. Serving'
    BY DEF WriteDone, Complete, IInv, Threads, Serving
<1>8. Answers'
    BY DEF WriteDone, Complete, IInv, TypeOK, Busy, BusyWith, Tag, Operations, Awaited,
        Started, Queue, Serving, Answers, Due
<1> QED BY <1>1, <1>2, <1>3, <1>4, <1>5, <1>6, <1>7, <1>8 DEF IInv

LEMMA FinishDoneStep ==
    ASSUME IInv, NEW h \in Handler, FinishDone(h)
    PROVE  IInv'
<1>1. TypeOK'
  <2>1. /\ server' \in Server
        /\ status' \in [Handler -> {"unallocated", "PROCESS", "INIT_READ", "READ", "WRITE",
                                    "FINISH", "deleted"}]
        /\ thread' \in [Handler -> {"none", "running", "ended"}]
        /\ serves' \in [Handler -> Call \cup {NoCall}]
        /\ outstanding' \in [Handler -> SUBSET Operation]
    BY DEF IInv, TypeOK, FinishDone, Complete, At
  <2>2. events' \subseteq Event
    <3>1. Open(h) \in BOOLEAN BY DEF Open
    <3>2. TypeOK /\ Complete(h, "finish", Open(h)) BY DEF IInv, FinishDone
    <3> QED BY <3>1, <3>2, Completed
  <2>3. /\ poller' \in [Poller -> [at : {"begin", "next", "proceed", "work", "FINISH", "WRITE",
                                       "READ", "finish"},
                                 tag : Handler, op : Operation]]
        /\ call' \in [Call -> {"idle", "sent", "open", "answered", "failed", "received", "lost"}]
    BY DEF IInv, TypeOK, FinishDone, Complete, At
  <2>4. /\ sent' \in [Call -> 0..MaxMessages]
        /\ taken' \in [Call -> 0..MaxMessages]
        /\ replied' \in [Call -> 0..MaxMessages]
        /\ \A x \in Call : replied'[x] <= taken'[x] /\ taken'[x] <= sent'[x]
    BY SizeAssumption DEF IInv, TypeOK, FinishDone, Complete, At
  <2>5. aborted' \in BOOLEAN
    BY DEF IInv, TypeOK, FinishDone, Complete, At
  <2> QED BY <2>1, <2>2, <2>3, <2>4, <2>5 DEF TypeOK
<1>2. Apart'
    BY DEF FinishDone, Complete, IInv, Apart, Busy, BusyWith, Tag, Pollers
<1>3. Places'
    BY DEF FinishDone, Complete, IInv, Apart, Busy, BusyWith, Tag, Pollers, Places, Awaits
<1>4. Operations'
    BY DEF FinishDone, Complete, IInv, Busy, BusyWith, Tag, Places, Awaits, Operations,
        Awaited, Allocated, Started
<1>5. Queue'
    BY DEF FinishDone, Complete, Open, IInv, TypeOK, Busy, BusyWith, Tag, Pollers, Awaits,
        Operations, Awaited, Allocated, Started, Queue
<1>6. Threads'
    BY DEF FinishDone, Complete, Open, IInv, TypeOK, Busy, BusyWith, Tag, Pollers, Awaits,
        Operations, Awaited, Allocated, Started, Queue, Threads
<1>7. Serving'
    BY DEF FinishDone, Complete, IInv, Busy, BusyWith, Tag, Threads, Serving
<1>8. Answers'
    BY DEF FinishDone, Complete, IInv, Tag, Serving, Answers, Due
<1> QED BY <1>1, <1>2, <1>3, <1>4, <1>5, <1>6, <1>7, <1>8 DEF IInv

LEMMA TransmitStep ==
    ASSUME IInv, NEW c \in Call, Transmit(c)
    PROVE  IInv'
<1>1. TypeOK'
    BY DEF Transmit, handlerVars, IInv, TypeOK, At
<1>2. Apart'
    BY DEF Transmit, handlerVars, IInv, TypeOK, Apart, Busy, BusyWith, Tag, Pollers
<1>3. Places'
    BY DEF Transmit, handlerVars, IInv, Apart, Busy, BusyWith, Tag, Pollers, Places, Awaits
<1>4. Operations'
    BY DEF Transmit, handlerVars, IInv, TypeOK, Operation, Busy, BusyWith, Tag, Places,
        Awaits, Operations, Awaited, Allocated, Started
<1>5. Queue'
    BY DEF Transmit, handlerVars, IInv, TypeOK, Event, Operation, Busy, BusyWith, Tag,
        Awaits, Operations, Awaited, Allocated, Started, Queue
<1>6. Threads'
    BY DEF Transmit, handlerVars, IInv, TypeOK, Event, Operation, Busy, BusyWith, Tag,
        Awaits, Awaited, Allocated, Started, Queue, Threads
<1>7. Serving'
    BY DEF Transmit, handlerVars, IInv, Busy, BusyWith, Tag, Threads, Serving
<1>8. Answers'
    BY DEF Transmit, handlerVars, IInv, Tag, Serving, Answers, Due
<1> QED BY <1>1, <1>2, <1>3, <1>4, <1>5, <1>6, <1>7, <1>8 DEF IInv

LEMMA RequestStep ==
    ASSUME IInv, NEW c \in Call, Request(c)
    PROVE  IInv'
<1>1. TypeOK'
  <2>1. /\ server' \in Server
        /\ status' \in [Handler -> {"unallocated", "PROCESS", "INIT_READ", "READ", "WRITE",
                                    "FINISH", "deleted"}]
        /\ thread' \in [Handler -> {"none", "running", "ended"}]
        /\ serves' \in [Handler -> Call \cup {NoCall}]
        /\ outstanding' \in [Handler -> SUBSET Operation]
    BY DEF IInv, TypeOK, Request, At, handlerVars
  <2>2. events' \subseteq Event
    BY DEF IInv, TypeOK, Request, At, handlerVars
  <2>3. /\ poller' \in [Poller -> [at : {"begin", "next", "proceed", "work", "FINISH", "WRITE",
                                       "READ", "finish"},
                                 tag : Handler, op : Operation]]
        /\ call' \in [Call -> {"idle", "sent", "open", "answered", "failed", "received", "lost"}]
    BY DEF IInv, TypeOK, Request, At, callVars
  <2>4. /\ sent' \in [Call -> 0..MaxMessages]
        /\ taken' \in [Call -> 0..MaxMessages]
        /\ replied' \in [Call -> 0..MaxMessages]
        /\ \A x \in Call : replied'[x] <= taken'[x] /\ taken'[x] <= sent'[x]
    BY SizeAssumption DEF IInv, TypeOK, Request, At, callVars
  <2>5. aborted' \in BOOLEAN
    BY DEF IInv, TypeOK, Request, At, callVars
  <2> QED BY <2>1, <2>2, <2>3, <2>4, <2>5 DEF TypeOK
<1>2. Apart'
    BY DEF Request, handlerVars, IInv, Apart, Busy, BusyWith, Tag, Pollers
<1>3. Places'
    BY DEF Request, handlerVars, IInv, Apart, Busy, BusyWith, Tag, Pollers, Places, Awaits
<1>4. Operations'
    BY DEF Request, handlerVars, IInv, TypeOK, Operation, Busy, BusyWith, Tag, Places,
        Awaits, Operations, Awaited, Allocated, Started
<1>5. Queue'
    BY DEF Request, handlerVars, IInv, TypeOK, Event, Operation, Busy, BusyWith, Tag,
        Awaits, Operations, Awaited, Allocated, Started, Queue
<1>6. Threads'
    BY DEF Request, handlerVars, IInv, TypeOK, Event, Operation, Busy, BusyWith, Tag,
        Awaits, Awaited, Allocated, Started, Queue, Threads
<1>7. Serving'
    BY DEF Request, handlerVars, IInv, Threads, Serving
<1>8. Answers'
    BY DEF Request, handlerVars, IInv, Tag, Serving, Answers, Due
<1> QED BY <1>1, <1>2, <1>3, <1>4, <1>5, <1>6, <1>7, <1>8 DEF IInv

LEMMA FailStep ==
    ASSUME IInv, NEW c \in Call, Fail(c)
    PROVE  IInv'
<1>1. TypeOK'
    BY DEF Fail, handlerVars, IInv, TypeOK, At
<1>2. Apart'
    BY DEF Fail, handlerVars, IInv, TypeOK, Apart, Busy, BusyWith, Tag, Pollers
<1>3. Places'
    BY DEF Fail, handlerVars, IInv, Apart, Busy, BusyWith, Tag, Pollers, Places, Awaits
<1>4. Operations'
    BY DEF Fail, handlerVars, IInv, TypeOK, Operation, Busy, BusyWith, Tag, Places,
        Awaits, Operations, Awaited, Allocated, Started
<1>5. Queue'
    BY DEF Fail, handlerVars, IInv, TypeOK, Event, Operation, Busy, BusyWith, Tag, Awaits,
        Operations, Awaited, Allocated, Started, Queue
<1>6. Threads'
    BY DEF Fail, handlerVars, IInv, TypeOK, Event, Operation, Busy, BusyWith, Tag, Awaits,
        Awaited, Allocated, Started, Queue, Threads
<1>7. Serving'
    BY DEF Fail, handlerVars, IInv, Busy, BusyWith, Tag, Threads, Serving
<1>8. Answers'
    BY DEF Fail, handlerVars, IInv, Tag, Serving, Answers, Due
<1> QED BY <1>1, <1>2, <1>3, <1>4, <1>5, <1>6, <1>7, <1>8 DEF IInv

LEMMA CompleteRpcStep ==
    ASSUME IInv, NEW c \in Call, CompleteRpc(c)
    PROVE  IInv'
<1>1. TypeOK'
    BY DEF CompleteRpc, handlerVars, IInv, TypeOK, At
<1>2. Apart'
    BY DEF CompleteRpc, handlerVars, IInv, TypeOK, Apart, Busy, BusyWith, Tag, Pollers
<1>3. Places'
    BY DEF CompleteRpc, handlerVars, IInv, Apart, Busy, BusyWith, Tag, Pollers, Places,
        Awaits
<1>4. Operations'
    BY DEF CompleteRpc, handlerVars, IInv, Busy, BusyWith, Tag, Places, Awaits,
        Operations, Awaited, Allocated, Started
<1>5. Queue'
    BY DEF CompleteRpc, handlerVars, IInv, Busy, BusyWith, Tag, Awaits, Operations,
        Awaited, Allocated, Started, Queue
<1>6. Threads'
    BY DEF CompleteRpc, handlerVars, IInv, Busy, BusyWith, Tag, Awaits, Awaited,
        Allocated, Started, Queue, Threads
<1>7. Serving'
    BY DEF CompleteRpc, handlerVars, IInv, Busy, BusyWith, Tag, Threads, Serving
<1>8. Answers'
    BY DEF CompleteRpc, handlerVars, IInv, Tag, Serving, Answers, Due
<1> QED BY <1>1, <1>2, <1>3, <1>4, <1>5, <1>6, <1>7, <1>8 DEF IInv

-------------------------------------------------------------------------------
LEMMA Start == Init => IInv
<1> SUFFICES ASSUME Init PROVE IInv OBVIOUS
<1>1. 1 \in Handler
  <2>1. Cardinality(Call) \in Nat /\ Cardinality(Poller) \in Nat
    BY SizeAssumption, FS_CardinalityType
  <2>2. Cardinality(Poller) # 0
    BY SizeAssumption, FS_EmptySet
  <2> QED BY <2>1, <2>2, SizeAssumption
<1>2. TypeOK
  <2>1. aborted \in BOOLEAN BY DEF Init
  <2>2. 0 \in 0..MaxMessages /\ 0 <= 0 BY SizeAssumption
  <2>3. poller \in [Poller -> [at : {"begin"}, tag : Handler, op : {"request"}]]
    BY <1>1 DEF Init
  <2> QED BY <2>1, <2>2, <2>3, SizeAssumption DEF Init, TypeOK, Server, Event, Operation
<1>3. \A p \in Poller : ~Busy(p) /\ poller[p].at = "begin" BY DEF Init, Busy
<1>4. Apart BY <1>3 DEF Apart, BusyWith
<1>5. Places BY <1>3 DEF Places
<1>6. Operations /\ Queue /\ Threads /\ Serving
  BY SizeAssumption DEF Init, Operations, Queue, Threads, Serving
<1>7. Answers BY <1>3 DEF Init, Answers, Due
<1> QED BY <1>2, <1>4, <1>5, <1>6, <1>7 DEF IInv

LEMMA Step == IInv /\ [Next]_vars => IInv'
<1> SUFFICES ASSUME IInv, [Next]_vars PROVE IInv' OBVIOUS
<1>1. ASSUME NEW p \in Pollers, Loop(p) PROVE IInv'
  BY <1>1, BeginStep, TakeEventStep, SpawnStep, InitThreadStep, ReadStep, WriteStep,
     SetStatusStep, FinishStep, DeleteStep DEF Loop
<1>2. ASSUME NEW h \in Handler, Run(h) PROVE IInv'
  BY <1>2, RunStep
<1>3. CASE Runtime
  BY <1>3, AcceptStep, ReadDoneStep, WriteDoneStep, FinishDoneStep DEF Runtime
<1>4. ASSUME NEW c \in Call, Transmit(c) \/ Request(c) \/ Fail(c) \/ CompleteRpc(c)
      PROVE  IInv'
  BY <1>4, TransmitStep, RequestStep, FailStep, CompleteRpcStep
<1>5. CASE UNCHANGED vars
  <2> USE <1>5 DEF vars, handlerVars, callVars, IInv
  <2>1. TypeOK' BY DEF TypeOK
  <2>2. Apart' /\ Places'
    BY DEF Apart, Busy, BusyWith, Tag, Pollers, Places, Awaits
  <2>3. \A h \in Handler, op \in Operation : Awaited(h, op)' = Awaited(h, op)
    BY DEF Awaited, Allocated, Awaits, Started, Busy, BusyWith, Tag
  <2>4. Operations' /\ Queue' BY <2>3 DEF TypeOK, Event, Operations, Queue
  <2>5. Threads' BY DEF Threads, Busy, BusyWith, Tag
  <2>6. Serving' /\ Answers' BY DEF Serving, Answers, Due, Tag
  <2> QED BY <2>1, <2>2, <2>4, <2>5, <2>6
<1> QED BY <1>1, <1>2, <1>3, <1>4, <1>5 DEF Next

\* What is known of every reachable state.
THEOREM Invariance == Spec => []IInv
BY Start, Step, PTL DEF Spec

\* The variables keep their types; no message is answered before it was taken, and
\* none is taken before it was sent.
THEOREM TypeCorrect == Spec => []TypeOK
<1>1. IInv => TypeOK BY DEF IInv
<1> QED BY <1>1, Invariance, PTL

\* An event finds its handler alive and in the state that awaits it, with any number
\* of threads at the queue of CallData and one at the others.
THEOREM EventsMeet == Spec => []EventsMeetTheirState
<1>1. IInv => EventsMeetTheirState
  <2> SUFFICES ASSUME IInv PROVE EventsMeetTheirState OBVIOUS
  <2>1. ASSUME NEW p \in Poller, poller[p].at = "proceed"
        PROVE  status[Tag(p)] = Awaits(poller[p].op)
    BY <2>1 DEF IInv, Places
  <2>2. ASSUME NEW h \in Handler
        PROVE  /\ outstanding[h] # {} \/ thread[h] = "running" => Allocated(h)
               /\ \A op1, op2 \in outstanding[h] : op1 = op2
               /\ thread[h] = "running" => outstanding[h] = {}
    BY DEF IInv, Operations, Awaited, Threads, Allocated
  <2>3. ASSUME NEW e \in events
        PROVE  /\ Allocated(e.tag)
               /\ outstanding[e.tag] = {} /\ thread[e.tag] # "running"
               /\ \A f \in events : f.tag = e.tag => f = e
    BY DEF IInv, Queue, Awaited
  <2> QED BY <2>1, <2>2, <2>3 DEF EventsMeetTheirState
<1> QED BY <1>1, Invariance, PTL
-------------------------------------------------------------------------------
(* The listeners, counted: with gRPC, in the queue, and in the hands of a       *)
(* thread; and the threads that must have one.                                  *)
Given == {h \in Handler : "request" \in outstanding[h]}
Arrived == {e \in events : e.op = "request"}
Taken == {p \in Poller : poller[p].at = "proceed" /\ poller[p].op = "request"}
Begun == {p \in Poller : poller[p].at # "begin"}

\* A listener that has been met by a call is never dropped.
Listening ==
    /\ IsFiniteSet(events)
    /\ \A e \in events : e.op = "request" => e.ok
    /\ Cardinality(Given) + Cardinality(Arrived) + Cardinality(Taken) = Cardinality(Begun)

LEMMA Counts ==
    ASSUME IsFiniteSet(events)
    PROVE  /\ IsFiniteSet(Given) /\ IsFiniteSet(Arrived) /\ IsFiniteSet(Taken) /\ IsFiniteSet(Begun)
           /\ Cardinality(Given) \in Nat /\ Cardinality(Arrived) \in Nat
           /\ Cardinality(Taken) \in Nat /\ Cardinality(Begun) \in Nat
<1>1. IsFiniteSet(Handler)
  <2>1. Cardinality(Call) \in Nat /\ Cardinality(Poller) \in Nat
    BY SizeAssumption, FS_CardinalityType
  <2> QED BY <2>1, FS_Interval, SizeAssumption
<1>2. Given \subseteq Handler /\ Arrived \subseteq events /\ Taken \subseteq Poller /\ Begun \subseteq Poller
  BY DEF Given, Arrived, Taken, Begun
<1>3. IsFiniteSet(Given) /\ IsFiniteSet(Arrived) /\ IsFiniteSet(Taken) /\ IsFiniteSet(Begun)
  BY <1>1, <1>2, FS_Subset, SizeAssumption
<1> QED BY <1>3, FS_CardinalityType

\* One more in a finite set, and one less.
LEMMA OneMore ==
    ASSUME NEW S, IsFiniteSet(S), NEW x, x \notin S
    PROVE  Cardinality(S \cup {x}) = Cardinality(S) + 1
BY FS_AddElement

LEMMA OneLess ==
    ASSUME NEW S, IsFiniteSet(S), NEW x, x \in S
    PROVE  Cardinality(S \ {x}) = Cardinality(S) - 1
BY FS_RemoveElement

\* A step that neither gives, completes nor takes a listener.
LEMMA ListenersKept ==
    ASSUME Listening, Given' = Given, Arrived' = Arrived, Taken' = Taken, Begun' = Begun,
           IsFiniteSet(events'), \A e \in events' : e \in events \/ e.op # "request"
    PROVE  Listening'
BY DEF Listening

LEMMA BeginListens ==
    ASSUME IInv, Listening, NEW p \in Pollers, Begin(p)
    PROVE  Listening'
<1> p \in Poller BY SizeAssumption DEF Pollers
<1>h. PICK h \in Handler : Fresh(h) /\ Give(h, "request") BY DEF Begin, New
<1>1. h \notin Given
  BY <1>h DEF Given, Fresh, IInv, Operations, Awaited, Allocated
<1>2. Given' = Given \cup {h}
  BY <1>h DEF Given, Give, IInv, TypeOK
<1>3. p \notin Begun /\ Begun' = Begun \cup {p} /\ Taken' = Taken
  BY DEF Begun, Taken, Begin, At, Goto, IInv, TypeOK
<1>4. Arrived' = Arrived /\ events' = events BY DEF Arrived, Begin
<1>5. Cardinality(Given') = Cardinality(Given) + 1 /\ Cardinality(Begun') = Cardinality(Begun) + 1
  BY <1>1, <1>2, <1>3, Counts, OneMore DEF Listening
<1> QED BY <1>3, <1>4, <1>5, Counts DEF Listening

LEMMA TakeEventListens ==
    ASSUME IInv, Listening, NEW p \in Pollers, TakeEvent(p)
    PROVE  Listening'
<1> p \in Poller BY SizeAssumption DEF Pollers
<1>e. PICK e \in events : TakeEvent(p)!(e) BY DEF TakeEvent
<1>1. Given' = Given BY <1>e DEF Given
<1>2. events' = events \ {e} /\ IsFiniteSet(events') BY <1>e, FS_RemoveElement DEF Listening
<1>3. Begun' = Begun
  BY <1>e DEF Begun, At, IInv, TypeOK
<1>4. CASE e.op = "request"
  <2>1. e.ok BY <1>4 DEF Listening
  <2>2. p \notin Taken /\ Taken' = Taken \cup {p}
    BY <1>e, <1>4, <2>1 DEF Taken, At, IInv, TypeOK
  <2>3. e \in Arrived /\ Arrived' = Arrived \ {e}
    BY <1>2, <1>4 DEF Arrived
  <2>4. Cardinality(Taken') = Cardinality(Taken) + 1
    BY <2>2, Counts, OneMore DEF Listening
  <2>5. Cardinality(Arrived') = Cardinality(Arrived) - 1
    BY <2>3, Counts, OneLess DEF Listening
  <2> QED BY <1>1, <1>2, <1>3, <2>4, <2>5, Counts DEF Listening
<1>5. CASE e.op # "request"
  <2>1. Taken' = Taken BY <1>e, <1>5 DEF Taken, At, IInv, TypeOK
  <2>2. Arrived' = Arrived BY <1>2, <1>5 DEF Arrived
  <2> QED BY <1>1, <1>2, <1>3, <2>1, <2>2, ListenersKept
<1> QED BY <1>4, <1>5

LEMMA SpawnListens ==
    ASSUME IInv, Listening, NEW p \in Pollers, Spawn(p)
    PROVE  Listening'
<1> p \in Poller BY SizeAssumption DEF Pollers
<1>h. PICK h \in Handler : Fresh(h) /\ Give(h, "request") BY DEF Spawn, New
<1>1. h \notin Given
  BY <1>h DEF Given, Fresh, IInv, Operations, Awaited, Allocated
<1>2. Given' = Given \cup {h}
  BY <1>h DEF Given, Give, IInv, TypeOK
<1>3. poller[p].op = "request"
  BY DEF Spawn, At, IInv, TypeOK, Places, Awaits, Operation, Server
<1>4. p \in Taken /\ Taken' = Taken \ {p} /\ Begun' = Begun
  BY <1>3 DEF Taken, Begun, Spawn, At, Goto, IInv, TypeOK
<1>5. Arrived' = Arrived /\ events' = events BY DEF Arrived, Spawn
<1>6. Cardinality(Given') = Cardinality(Given) + 1 /\ Cardinality(Taken') = Cardinality(Taken) - 1
  BY <1>1, <1>2, <1>4, Counts, OneMore, OneLess DEF Listening
<1> QED BY <1>4, <1>5, <1>6, Counts DEF Listening

\* The other steps of Proceed.
LEMMA LoopListens ==
    ASSUME IInv, Listening, NEW p \in Pollers,
           InitThread(p) \/ Read(p) \/ Write(p) \/ SetStatus(p) \/ Finish(p) \/ Delete(p)
    PROVE  Listening'
<1> p \in Poller BY SizeAssumption DEF Pollers
<1>1. events' = events /\ Arrived' = Arrived
  BY DEF Arrived, InitThread, Read, Write, SetStatus, Finish, Delete
<1>2. Given' = Given
  BY DEF Given, InitThread, Read, Write, SetStatus, Finish, Delete, Give, IInv, TypeOK
<1>3. poller[p].at # "begin" /\ (poller[p].at = "proceed" => poller[p].op # "request")
  BY DEF InitThread, Read, Write, SetStatus, Finish, Delete, At, IInv, Places, Awaits
<1>4. PICK where \in {"next", "FINISH", "WRITE", "READ", "finish"} : Goto(p, where)
  BY DEF InitThread, Read, Write, SetStatus, Finish, Delete
<1>5. Taken' = Taken /\ Begun' = Begun
  BY <1>3, <1>4 DEF Taken, Begun, Goto, IInv, TypeOK
<1> QED BY <1>1, <1>2, <1>5, ListenersKept DEF Listening

LEMMA AcceptListens ==
    ASSUME IInv, Listening, NEW h \in Handler, NEW c \in Call, Accept(h, c)
    PROVE  Listening'
<1> DEFINE new == [tag |-> h, op |-> "request", ok |-> TRUE]
<1>1. /\ "request" \in outstanding[h] /\ events' = events \cup {new}
      /\ outstanding' = [outstanding EXCEPT ![h] = @ \ {"request"}] /\ poller' = poller
  BY DEF Accept, Complete
<1>2. new.tag = h /\ new.op = "request" /\ new.ok = TRUE OBVIOUS
<1> HIDE DEF new
<1>3. new \notin events BY <1>1, <1>2 DEF IInv, Queue
<1>4. IsFiniteSet(events') BY <1>1, FS_AddElement DEF Listening
<1>5. h \in Given /\ Given' = Given \ {h} BY <1>1 DEF Given, IInv, TypeOK
<1>6. new \notin Arrived /\ Arrived' = Arrived \cup {new} BY <1>1, <1>2, <1>3 DEF Arrived
<1>7. Taken' = Taken /\ Begun' = Begun BY <1>1 DEF Taken, Begun
<1>8. Cardinality(Given') = Cardinality(Given) - 1 /\ Cardinality(Arrived') = Cardinality(Arrived) + 1
  BY <1>5, <1>6, Counts, OneMore, OneLess DEF Listening
<1> QED BY <1>1, <1>2, <1>4, <1>7, <1>8, Counts DEF Listening

\* The completion of any other operation.
LEMMA CompleteListens ==
    ASSUME IInv, Listening, NEW h \in Handler, NEW op \in Operation \ {"request"},
           NEW ok \in BOOLEAN, Complete(h, op, ok)
    PROVE  Listening'
<1>1. Given' = Given BY DEF Complete, Given, IInv, TypeOK
<1>2. \A e \in events' : e \in events \/ e.op # "request" BY NewEvent
<1>3. events \subseteq events' /\ IsFiniteSet(events')
  BY FS_AddElement DEF Complete, Listening
<1>4. Arrived' = Arrived BY <1>2, <1>3 DEF Arrived
<1>5. Taken' = Taken /\ Begun' = Begun BY DEF Complete, Taken, Begun
<1> QED BY <1>1, <1>2, <1>3, <1>4, <1>5, ListenersKept

\* Each loop keeps one handler that listens, whatever the number of threads and
\* calls: Spawn makes the successor before its thread does anything else with the
\* call, and nothing else takes a listener away.
THEOREM OneListenerEach == Spec => []AlwaysListening
<1>1. Init => Listening
  <2> SUFFICES ASSUME Init PROVE Listening OBVIOUS
  <2>1. Given = {} /\ Arrived = {} /\ Taken = {} /\ Begun = {} /\ events = {}
    BY DEF Init, Given, Arrived, Taken, Begun
  <2> QED BY <2>1, FS_EmptySet DEF Listening
<1>2. IInv /\ Listening /\ [Next]_vars => Listening'
  <2> SUFFICES ASSUME IInv, Listening, [Next]_vars PROVE Listening' OBVIOUS
  <2>1. ASSUME NEW p \in Pollers, Loop(p) PROVE Listening'
    BY <2>1, BeginListens, TakeEventListens, SpawnListens, LoopListens DEF Loop
  <2>2. ASSUME NEW h \in Handler, Run(h) PROVE Listening'
    <3>1. Given' = Given BY <2>2 DEF Run, Give, Given, IInv, TypeOK
    <3>2. Arrived' = Arrived /\ Taken' = Taken /\ Begun' = Begun /\ events' = events
      BY <2>2 DEF Run, Arrived, Taken, Begun
    <3> QED BY <3>1, <3>2, ListenersKept DEF Listening
  <2>3. CASE Runtime
    <3>1. ASSUME NEW h \in Handler, NEW c \in Call, Accept(h, c) PROVE Listening'
      BY <3>1, AcceptListens
    <3>2. ASSUME NEW h \in Handler, ReadDone(h) \/ WriteDone(h) \/ FinishDone(h)
          PROVE  Listening'
      <4>1. Open(h) \in BOOLEAN BY DEF Open
      <4>2. PICK op \in {"read", "write", "finish"}, ok \in BOOLEAN : Complete(h, op, ok)
        BY <3>2, <4>1 DEF ReadDone, WriteDone, FinishDone
      <4> QED BY <4>2, CompleteListens DEF Operation
    <3> QED BY <2>3, <3>1, <3>2 DEF Runtime
  <2>4. CASE \/ \E c \in Call : Transmit(c) \/ Request(c) \/ Fail(c) \/ CompleteRpc(c)
             \/ UNCHANGED vars
    <3>1. outstanding' = outstanding /\ events' = events /\ poller' = poller
      BY <2>4 DEF Transmit, Request, Fail, CompleteRpc, vars
    <3>2. Given' = Given /\ Arrived' = Arrived /\ Taken' = Taken /\ Begun' = Begun
      BY <3>1 DEF Given, Arrived, Taken, Begun
    <3> QED BY <3>1, <3>2, ListenersKept DEF Listening
  <2> QED BY <2>1, <2>2, <2>3, <2>4 DEF Next
<1>3. Listening => AlwaysListening
  BY DEF Listening, AlwaysListening, Given, Arrived, Taken, Begun
<1> QED BY <1>1, <1>2, <1>3, Invariance, PTL DEF Spec
===============================================================================
