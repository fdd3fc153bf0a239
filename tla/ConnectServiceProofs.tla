------------------------- MODULE ConnectServiceProofs -------------------------
(***************************************************************************)
(* Proofs about ConnectService, for any number of streams: where status_    *)
(* cannot begin as "done", the clean thread deletes no reactor that gRPC    *)
(* may still call, and nothing outlives ~server.                            *)
(***************************************************************************)
EXTENDS ConnectService, TLAPS

\* What the code relies on and does not see to: connect_reactor's constructor
\* leaves status_ unset.
HonestStart == "done" \notin Uninitialised

\* "done" is the truth about a stream, and what is deleted is done.
Reactors ==
    \A c \in Connection :
        /\ status[c] = "done" => rpc[c] = "done"
        /\ c \in deleted => rpc[c] = "done" /\ c \notin connections

\* No stream is left once Shutdown has returned, and none comes.
Streams ==
    /\ server \in {"unstarted", "stopping", "joining", "down"} => Over = Connection
    /\ server = "down" => cleaner = "exited"

IInv == TypeOK /\ Reactors /\ Streams

-----------------------------------------------------------------------------
\* The steps of a stream.
LEMMA NewReactorStep ==
    ASSUME HonestStart, IInv, NEW c \in Connection, NewReactor(c), UNCHANGED crashed
    PROVE  IInv'
<1> USE DEF NewReactor, cleanVars
<1>1. TypeOK' BY UninitialisedAssumption DEF IInv, TypeOK
<1>2. Reactors' BY DEF HonestStart, IInv, TypeOK, Reactors
<1>3. Streams' BY DEF IInv, Streams
<1> QED BY <1>1, <1>2, <1>3 DEF IInv

LEMMA AddConnectStep ==
    ASSUME IInv, NEW c \in Connection, AddConnect(c), UNCHANGED crashed
    PROVE  IInv'
<1> USE DEF AddConnect
<1>1. TypeOK' BY DEF IInv, TypeOK
<1>2. Reactors' BY DEF IInv, TypeOK, Reactors
<1>3. Streams' BY DEF IInv, Streams, Over
<1> QED BY <1>1, <1>2, <1>3 DEF IInv

LEMMA DisconnectStep ==
    ASSUME IInv, NEW c \in Connection, Disconnect(c), UNCHANGED crashed
    PROVE  IInv'
<1> USE DEF Disconnect, cleanVars
<1>1. TypeOK' BY DEF IInv, TypeOK, AnyStatus
<1>2. Reactors' BY DEF IInv, TypeOK, Reactors
<1>3. Streams' BY DEF IInv, Streams, Over
<1> QED BY <1>1, <1>2, <1>3 DEF IInv

LEMMA OnDoneStep ==
    ASSUME IInv, NEW c \in Connection, OnDone(c), UNCHANGED crashed
    PROVE  IInv'
<1> USE DEF OnDone, cleanVars
<1>1. TypeOK' BY DEF IInv, TypeOK, AnyStatus
<1>2. Reactors' BY DEF IInv, TypeOK, Reactors
<1>3. Streams' BY DEF IInv, Streams, Over
<1> QED BY <1>1, <1>2, <1>3 DEF IInv

-----------------------------------------------------------------------------
\* The steps of the clean thread, which ends in "exited" for good.
LEMMA VisitStep ==
    ASSUME IInv, NEW c \in Connection, Visit(c), UNCHANGED crashed
    PROVE  IInv'
<1> USE DEF Visit, streamVars
<1>1. TypeOK' BY DEF IInv, TypeOK
<1>2. Reactors' BY DEF IInv, TypeOK, Reactors
<1>3. Streams' BY DEF IInv, Streams, Over
<1> QED BY <1>1, <1>2, <1>3 DEF IInv

LEMMA WaitStep ==
    ASSUME IInv, EnterWait \/ Notified \/ TimesOut \/ Sweep \/ SweepEnds, UNCHANGED crashed
    PROVE  IInv'
<1> USE DEF EnterWait, Notified, TimesOut, Sweep, SweepEnds, streamVars
<1>1. exitSignal' \in Flags
  <2>1. Consume(exitSignal) \in Flags BY DEF IInv, TypeOK, Flags, Consume
  <2> QED BY <2>1 DEF IInv, TypeOK
<1>2. unset' \in BOOLEAN BY DEF IInv, TypeOK
<1>3. TypeOK' BY <1>1, <1>2 DEF IInv, TypeOK
<1>4. Reactors' BY DEF IInv, Reactors
<1>5. Streams' BY DEF IInv, Streams, Over
<1> QED BY <1>3, <1>4, <1>5 DEF IInv

-----------------------------------------------------------------------------
\* The steps of ~server.
LEMMA ServerStep ==
    ASSUME IInv, Shutdown \/ DestructorStep, UNCHANGED crashed
    PROVE  IInv'
<1> USE DEF Shutdown, DestructorStep, DeadlinePasses, ShutdownReturns, StopClean,
            StopCleanJoins, streamVars, cleanVars
<1>1. TypeOK'
  <2>1. exitSignal' \in Flags
    <3>1. exitSignal \in Flags BY DEF IInv, TypeOK
    <3>2. SetAll(exitSignal) \in Flags BY DEF SetAll, Flags
    <3>3. exitSignal' = exitSignal \/ exitSignal' = SetAll(exitSignal) OBVIOUS
    <3> QED BY <3>1, <3>2, <3>3
  <2> QED BY <2>1 DEF IInv, TypeOK
<1>2. Reactors' BY DEF IInv, Reactors
<1>3. Streams' BY DEF IInv, Streams, Over
<1> QED BY <1>1, <1>2, <1>3 DEF IInv

LEMMA UnchangedStep ==
    ASSUME IInv, UNCHANGED <<streamVars, cleanVars, server>>, crashed' \in BOOLEAN
    PROVE  IInv'
BY DEF IInv, TypeOK, Reactors, Streams, Over, streamVars, cleanVars

LEMMA Start == Init => IInv
<1> SUFFICES ASSUME Init PROVE IInv OBVIOUS
<1>1. exitSignal \in Flags BY DEF Init, Flags, Clear
<1>2. unset \in BOOLEAN /\ crashed \in BOOLEAN BY DEF Init
<1>3. TypeOK BY <1>1, <1>2 DEF Init, TypeOK, AnyStatus
<1>4. Reactors /\ Streams BY DEF Init, Reactors, Streams, Over
<1> QED BY <1>3, <1>4 DEF IInv

LEMMA Step == HonestStart /\ IInv /\ [Next]_vars => IInv'
<1> SUFFICES ASSUME HonestStart, IInv, [Next]_vars PROVE IInv' OBVIOUS
<1>1. CASE Running /\ UNCHANGED crashed
  <2>1. CASE \E c \in Connection : NewReactor(c) \/ StreamStep(c) \/ Disconnect(c)
    BY <1>1, <2>1, NewReactorStep, AddConnectStep, DisconnectStep, OnDoneStep DEF StreamStep
  <2>2. CASE CleanStep BY <1>1, <2>2, WaitStep, VisitStep DEF CleanStep
  <2>3. CASE Shutdown \/ DestructorStep BY <1>1, <2>3, ServerStep
  <2> QED BY <1>1, <2>1, <2>2, <2>3 DEF Running
<1>2. CASE Dies BY <1>2, UnchangedStep DEF Dies
<1>3. CASE UNCHANGED vars
  BY <1>3, UnchangedStep DEF vars, streamVars, cleanVars, IInv, TypeOK
<1> QED BY <1>1, <1>2, <1>3 DEF Next

-----------------------------------------------------------------------------
\* What is known of every reachable state.
THEOREM Invariance == HonestStart => (Spec => []IInv)
<1> SUFFICES ASSUME HonestStart PROVE Spec => []IInv OBVIOUS
<1>1. IInv /\ [Next]_vars => IInv' BY Step
<1> QED BY <1>1, Start, PTL DEF Spec

\* The variables keep their types, and the sweep visits connections only.
THEOREM TypeCorrect == HonestStart => (Spec => []TypeOK)
<1>1. IInv => TypeOK BY DEF IInv
<1> QED BY <1>1, Invariance, PTL

\* No callback of gRPC meets a reactor that clean has deleted.
THEOREM DeletedAreDone == HonestStart => (Spec => []NoUseAfterFree)
<1>1. IInv => NoUseAfterFree BY DEF IInv, TypeOK, Reactors, NoUseAfterFree
<1> QED BY <1>1, Invariance, PTL

\* When ~server returns gRPC is done with every stream and the clean thread is over.
THEOREM NothingIsLeft == HonestStart => (Spec => []NothingOutlivesTheServer)
<1>1. IInv => NothingOutlivesTheServer BY DEF IInv, Streams, NothingOutlivesTheServer
<1> QED BY <1>1, Invariance, PTL
===============================================================================
