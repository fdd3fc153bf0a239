----------------------------- MODULE MCAsyncServer -----------------------------
(* AsyncServer with two threads that may poll and two calls; or GrpcClients, with *)
(* as many calls.                                                                 *)
EXTENDS AsyncServer

VARIABLES part, method, caller, reader, stream, peer, up, down, got, loop, calls

MCHandler == 1..(Cardinality(Call) + Cardinality(Poller))

Clients == INSTANCE GrpcClients WITH server <- peer
clientVars == <<method, caller, reader, stream, peer, up, down, got, loop, calls>>

\* The part that does not run has one initial state.
GrpcInit ==
    /\ part \in {"server", "clients"} /\ Init /\ Clients!Init
    /\ part = "server" => method = "AsyncTransmit"
    /\ part = "clients" => server = "hello"

GrpcNext ==
    \/ part = "server" /\ Next /\ UNCHANGED <<part, clientVars>>
    \/ part = "clients" /\ Clients!Next /\ UNCHANGED <<part, vars>>

\* The fairness of each part's FairSpec.
GrpcSpec ==
    /\ GrpcInit /\ [][GrpcNext]_<<part, vars, clientVars>>
    /\ \A p \in Poller : WF_vars(part = "server" /\ p \in Pollers /\ Loop(p))
    /\ \A h \in Handler :
          /\ WF_vars(Run(h))
          /\ WF_vars(ReadDone(h)) /\ WF_vars(WriteDone(h)) /\ WF_vars(FinishDone(h))
    /\ \A c \in Call :
          /\ WF_vars(\E h \in Handler : Accept(h, c)) /\ WF_vars(CompleteRpc(c))
          /\ WF_clientVars(Clients!Complete(c)) /\ WF_clientVars(Clients!TakeAndDelete(c))
          /\ WF_clientVars(Clients!AsyncCompleteRpc(c))
    /\ WF_clientVars(part = "clients" /\ Clients!Blocking)
    /\ WF_clientVars(Clients!Write) /\ WF_clientVars(Clients!Run)
    /\ WF_clientVars(Clients!Answer)
    /\ WF_clientVars(Clients!ServerRead) /\ WF_clientVars(Clients!ServerWrite)

ConversationGoesOn == Clients!ConversationGoesOn
CallsEnd == Clients!CallsEnd
===============================================================================
