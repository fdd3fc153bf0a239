--------------------------- MODULE WriteStreamProofs ---------------------------
(***************************************************************************)
(* Proofs about WriteStream, for any packages, callers and sizes: what is   *)
(* written, in which order, and what is over when the destructor returns.   *)
(***************************************************************************)
EXTENDS WriteStream, SequenceTheorems, TLAPS

\* The writer waits for one completion: the write is outstanding or signalled.
Writer ==
    /\ signal.re
    /\ writer = "wait" <=> writes = 1 \/ signal.sg
    /\ writes = 1 => ~signal.sg /\ buffer \in Package
    /\ writer = "pop" => queue # <<>>

\* InFlight and queue are what accepted has beyond wire.
Order ==
    /\ stream = "open" => accepted = wire \o (InFlight \o queue)
    /\ \E rest \in Seq(Package) : accepted = wire \o rest

\* The owner has not called yet, or is calling, or has joined the writer.
Ending ==
    /\ ~joinable => writer \in {"none", "exited"}
    /\ round = 0 => disc[Owner] = "idle"
    /\ round > 0 /\ disc[Owner] = "idle" => writer \in {"none", "exited"}
    /\ round = 2 => \A r \in Requester : asking[r] = NoPackage

IInv == TypeOK /\ Writer /\ Order /\ Ending

-----------------------------------------------------------------------------
LEMMA AppendToConcat ==
    \A s, t \in Seq(Package), p \in Package : Append(s \o t, p) = s \o Append(t, p)
<1> SUFFICES ASSUME NEW s \in Seq(Package), NEW t \in Seq(Package), NEW p \in Package
             PROVE  Append(s \o t, p) = s \o Append(t, p)
  OBVIOUS
<1>1. s \o t \in Seq(Package) /\ <<p>> \in Seq(Package) BY ConcatProperties
<1>2. Append(s \o t, p) = (s \o t) \o <<p>> BY <1>1, AppendIsConcat
<1>3. Append(t, p) = t \o <<p>> BY AppendIsConcat
<1> QED BY <1>1, <1>2, <1>3, ConcatAssociative

\* Two sequences that agree up to n have the same beginning.
LEMMA SameBeginning ==
    ASSUME NEW S, NEW s \in Seq(S), NEW t \in Seq(S), Len(s) <= Len(t),
           \A i \in 1..Len(s) : t[i] = s[i]
    PROVE  IsPrefix(s, t)
<1>1. Len(s) \in Nat /\ Len(t) \in Nat BY LenProperties
<1>2. \A i \in 1..Len(s) : s[i] \in S /\ t[i] \in S BY <1>1, ElementOfSeq
<1>3. /\ SubSeq(s, 1, Len(s)) \in Seq(S) /\ SubSeq(t, 1, Len(s)) \in Seq(S)
      /\ Len(SubSeq(s, 1, Len(s))) = Len(s) /\ Len(SubSeq(t, 1, Len(s))) = Len(s)
      /\ \A i \in 1..Len(s) : SubSeq(s, 1, Len(s))[i] = s[i]
                             /\ SubSeq(t, 1, Len(s))[i] = t[i]
  BY <1>1, <1>2, SubSeqProperties
<1>4. SubSeq(s, 1, Len(s)) = SubSeq(t, 1, Len(s)) BY <1>3, SeqEqual
<1> QED BY <1>4 DEF IsPrefix

LEMMA InFlightTyped ==
    ASSUME TypeOK, Writer
    PROVE  InFlight \in Seq(Package) /\ InFlight \o queue \in Seq(Package)
<1>1. InFlight \in Seq(Package) BY DEF InFlight, TypeOK, Writer
<1> QED BY <1>1, ConcatProperties DEF TypeOK

\* What the steps that touch none of it leave as it is.
LEMMA OrderKept ==
    ASSUME IInv, UNCHANGED <<queue, accepted, wire>>, InFlight' = InFlight \/ stream' # "open",
           stream' = "open" => stream = "open"
    PROVE  Order'
BY DEF IInv, Order

-----------------------------------------------------------------------------
\* request
LEMMA RequestCheckStep ==
    ASSUME IInv, NEW r \in Requester, NEW p \in Package, RequestCheck(r, p),
           UNCHANGED crashed
    PROVE  IInv'
<1> USE DEF RequestCheck, grpcVars
<1>1. TypeOK' BY DEF IInv, TypeOK
<1>2. Writer' BY DEF IInv, Writer
<1>3. Order' BY OrderKept DEF InFlight
<1>4. Ending' BY DEF IInv, TypeOK, Ending
<1> QED BY <1>1, <1>2, <1>3, <1>4 DEF IInv

LEMMA RequestPushStep ==
    ASSUME IInv, NEW r \in Requester, RequestPush(r), UNCHANGED crashed
    PROVE  IInv'
<1> DEFINE p == asking[r]
           ok == PushBack(queue, p, MaxSize).ok
<1> USE DEF RequestPush, grpcVars
<1>1. p \in Package BY DEF IInv, TypeOK
<1>2. /\ queue' = IF ok THEN Append(queue, p) ELSE queue
      /\ accepted' = IF ok THEN Append(accepted, p) ELSE accepted
      /\ ok <=> Len(queue) < MaxSize
  BY MaxSizeAssumption DEF PushBack, IInv, TypeOK
<1>3. queue' \in Seq(Package) /\ Len(queue') <= MaxSize
  BY <1>1, <1>2, AppendProperties, MaxSizeAssumption DEF IInv, TypeOK
<1>4. accepted' \in Seq(Package) BY <1>1, <1>2, AppendProperties DEF IInv, TypeOK
<1>5. TypeOK' BY <1>1, <1>3, <1>4 DEF IInv, TypeOK
<1>6. Writer' BY <1>1, <1>2, AppendProperties DEF IInv, TypeOK, Writer
<1>7. Order'
  <2>1. CASE ~ok BY <1>2, <2>1, OrderKept DEF InFlight
  <2>2. CASE ok
    <3>1. /\ InFlight \in Seq(Package) /\ InFlight \o queue \in Seq(Package)
          /\ InFlight' = InFlight
      BY InFlightTyped DEF IInv, InFlight
    <3>2. accepted \in Seq(Package) /\ wire \in Seq(Package) /\ queue \in Seq(Package)
      BY DEF IInv, TypeOK
    <3> HIDE DEF p, ok
    <3>3. Append(InFlight \o queue, p) = InFlight' \o queue'
      <4>1. Append(InFlight \o queue, p) = InFlight \o Append(queue, p)
        BY <1>1, <3>1, <3>2, AppendToConcat
      <4>2. queue' = Append(queue, p) BY <1>2, <2>2
      <4> QED BY <3>1, <4>1, <4>2
    <3>4. stream' = "open" => accepted' = wire' \o (InFlight' \o queue')
      <4> SUFFICES ASSUME stream = "open" PROVE accepted' = wire \o (InFlight' \o queue')
        OBVIOUS
      <4>1. accepted' = Append(wire \o (InFlight \o queue), p) BY <1>2, <2>2 DEF IInv, Order
      <4>2. @ = wire \o Append(InFlight \o queue, p) BY <1>1, <3>1, <3>2, AppendToConcat
      <4> QED BY <3>3, <4>1, <4>2
    <3>5. \E rest \in Seq(Package) : accepted' = wire' \o rest
      <4>1. PICK rest \in Seq(Package) : accepted = wire \o rest BY DEF IInv, Order
      <4>2. accepted' = wire \o Append(rest, p)
        BY <1>1, <1>2, <2>2, <3>2, <4>1, AppendToConcat
      <4>3. Append(rest, p) \in Seq(Package) BY <1>1, AppendProperties
      <4> QED BY <4>2, <4>3
    <3> QED BY <3>4, <3>5 DEF Order
  <2> QED BY <2>1, <2>2
<1>8. Ending' BY DEF IInv, TypeOK, Ending
<1> QED BY <1>5, <1>6, <1>7, <1>8 DEF IInv

-----------------------------------------------------------------------------
\* write_loop
LEMMA WriterWalkStep ==
    ASSUME IInv, WriterLeaves \/ WriterSleeps \/ WriterWakes \/ WriterGoesOn,
           UNCHANGED crashed
    PROVE  IInv'
<1> USE DEF WriterLeaves, WriterSleeps, WriterWakes, WriterGoesOn, callVars, grpcVars
<1>1. TypeOK' BY DEF IInv, TypeOK
<1>2. Writer' BY DEF IInv, Writer
<1>3. Order' BY OrderKept DEF InFlight
<1>4. Ending' BY DEF IInv, Ending
<1> QED BY <1>1, <1>2, <1>3, <1>4 DEF IInv

LEMMA WriterPopsStep ==
    ASSUME IInv, WriterPops, UNCHANGED crashed
    PROVE  IInv'
<1> USE DEF WriterPops, callVars
<1>1. /\ queue # <<>> /\ queue' = Tail(queue) /\ buffer' = Head(queue)
      /\ writes = 0 /\ writes' = 1
  BY DEF IInv, Writer, TypeOK, PopFront
<1>2. /\ buffer' \in Package /\ queue' \in Seq(Package) /\ Len(queue') <= MaxSize
  BY <1>1, HeadTailProperties, LenProperties, MaxSizeAssumption DEF IInv, TypeOK
<1>3. TypeOK' BY <1>1, <1>2 DEF IInv, TypeOK
<1>4. Writer' BY <1>1, <1>2 DEF IInv, Writer
<1>5. InFlight \o queue = InFlight' \o queue'
  <2>1. InFlight = <<>> /\ InFlight' = <<Head(queue)>> BY <1>1 DEF InFlight
  <2>2. <<>> \o queue = queue BY ConcatEmptySeq DEF IInv, TypeOK
  <2>3. <<Head(queue)>> \o Tail(queue) = queue
    BY <1>1, <1>2, HeadTailProperties, ConcatProperties, SeqEqual, LenProperties
       DEF IInv, TypeOK
  <2> QED BY <1>1, <2>1, <2>2, <2>3
<1>6. Order' BY <1>5 DEF IInv, Order
<1>7. Ending' BY DEF IInv, Ending
<1> QED BY <1>3, <1>4, <1>6, <1>7 DEF IInv

LEMMA WriterResumesStep ==
    ASSUME IInv, WriterResumes, UNCHANGED crashed
    PROVE  IInv'
<1> USE DEF WriterResumes, callVars, grpcVars
<1>1. signal' \in Flags /\ signal'.re /\ ~signal'.sg
  BY DEF IInv, TypeOK, Writer, Consume, Flags
<1>2. writes = 0 BY DEF IInv, TypeOK, Writer
<1>3. TypeOK' BY <1>1 DEF IInv, TypeOK
<1>4. Writer' BY <1>1, <1>2 DEF IInv, Writer
<1>5. Order' BY <1>2, OrderKept DEF InFlight
<1>6. Ending' BY DEF IInv, Ending
<1> QED BY <1>3, <1>4, <1>5, <1>6 DEF IInv

-----------------------------------------------------------------------------
\* gRPC
LEMMA BreakStreamStep ==
    ASSUME IInv, BreakStream, UNCHANGED crashed
    PROVE  IInv'
<1> USE DEF BreakStream, callVars
<1>1. TypeOK' BY DEF IInv, TypeOK
<1>2. Writer' BY DEF IInv, Writer
<1>3. Order' BY OrderKept
<1>4. Ending' BY DEF IInv, Ending
<1> QED BY <1>1, <1>2, <1>3, <1>4 DEF IInv

LEMMA Signalled ==
    ASSUME IInv
    PROVE  SetOne(signal) \in Flags /\ SetOne(signal).sg /\ SetOne(signal).re
BY DEF IInv, TypeOK, Writer, Flags, SetOne

LEMMA OnWriteDoneOkStep ==
    ASSUME IInv, OnWriteDoneOk, UNCHANGED crashed
    PROVE  IInv'
<1> USE DEF OnWriteDoneOk, WriteSucceeds, callVars
<1>1. writes = 1 /\ writes' = 0 /\ buffer \in Package BY DEF IInv, TypeOK, Writer
<1>2. wire' \in Seq(Package) BY <1>1, AppendProperties DEF IInv, TypeOK
<1>3. TypeOK' BY <1>1, <1>2, Signalled DEF IInv, TypeOK
<1>4. Writer' BY <1>1, Signalled DEF IInv, Writer
<1>5. Order'
  <2>1. InFlight = <<buffer>> /\ InFlight' = <<>> /\ <<buffer>> \in Seq(Package)
    BY <1>1 DEF InFlight
  <2>2. wire \o (<<buffer>> \o queue) = Append(wire, buffer) \o queue
    <3>1. Append(wire, buffer) = wire \o <<buffer>>
      BY <1>1, AppendIsConcat DEF IInv, TypeOK
    <3> QED BY <2>1, <3>1, ConcatAssociative DEF IInv, TypeOK
  <2>3. <<>> \o queue = queue BY ConcatEmptySeq DEF IInv, TypeOK
  <2>4. accepted' = wire' \o (InFlight' \o queue')
    BY <2>1, <2>2, <2>3 DEF IInv, Order
  <2> QED BY <2>1, <2>3, <2>4 DEF Order, IInv, TypeOK
<1>6. Ending' BY DEF IInv, Ending
<1> QED BY <1>3, <1>4, <1>5, <1>6 DEF IInv

LEMMA OnWriteDoneFailsStep ==
    ASSUME IInv, NEW c \in Callback, OnWriteDoneFails(c), UNCHANGED crashed
    PROVE  IInv'
<1> USE DEF OnWriteDoneFails, callVars
<1>1. writes = 1 /\ writes' = 0 BY DEF IInv, TypeOK
<1>2. TypeOK' BY <1>1, Signalled DEF IInv, TypeOK
<1>3. Writer' BY <1>1, Signalled DEF IInv, Writer
<1>4. Order' BY OrderKept
<1>5. disc'[Owner] = disc[Owner] BY ThreadAssumption DEF IInv, TypeOK
<1>6. Ending' BY <1>5 DEF IInv, Ending
<1> QED BY <1>2, <1>3, <1>4, <1>6 DEF IInv

-----------------------------------------------------------------------------
\* disconnect
LEMMA OwnerDisconnectsStep ==
    ASSUME IInv, OwnerDisconnects, UNCHANGED crashed
    PROVE  IInv'
<1> USE DEF OwnerDisconnects, callVars, grpcVars
<1>1. TypeOK' BY DEF IInv, TypeOK
<1>2. Writer' BY DEF IInv, Writer
<1>3. Order' BY OrderKept DEF InFlight
<1>4. Ending' BY DEF IInv, TypeOK, Ending
<1> QED BY <1>1, <1>2, <1>3, <1>4 DEF IInv

LEMMA DiscSteps ==
    ASSUME IInv, NEW d \in DOMAIN disc, DiscStep(d), UNCHANGED crashed
    PROVE  IInv'
<1> USE DEF DiscStep, SetExit, TestJoinable, JoinReturns, callVars, grpcVars
<1>1. d \in Callback \cup {Owner} BY DEF IInv, TypeOK
<1>2. exiting' \in BOOLEAN /\ joinable' \in BOOLEAN BY DEF IInv, TypeOK
<1>3. TypeOK' BY <1>1, <1>2 DEF IInv, TypeOK
<1>4. Writer' BY DEF IInv, Writer
<1>5. Order' BY OrderKept DEF InFlight
<1>6. Ending' BY <1>1 DEF IInv, TypeOK, Ending
<1> QED BY <1>3, <1>4, <1>5, <1>6 DEF IInv

LEMMA JoinTwiceStep ==
    ASSUME IInv, NEW d \in DOMAIN disc, JoinTwice(d)
    PROVE  IInv'
<1> USE DEF JoinTwice, callVars, grpcVars
<1>1. TypeOK' BY DEF IInv, TypeOK
<1>2. Writer' BY DEF IInv, Writer
<1>3. Order' BY OrderKept DEF InFlight
<1>4. Ending' BY DEF IInv, Ending
<1> QED BY <1>1, <1>2, <1>3, <1>4 DEF IInv

-----------------------------------------------------------------------------
LEMMA Start == Init => IInv
<1> SUFFICES ASSUME Init PROVE IInv OBVIOUS
<1>1. signal \in Flags /\ signal.re /\ ~signal.sg BY DEF Init, Clear, Flags
<1>2. exiting \in BOOLEAN /\ joinable \in BOOLEAN /\ connected \in BOOLEAN
      /\ crashed \in BOOLEAN
  BY DEF Init
<1>3. <<>> \in Seq(Package) /\ Len(<<>>) = 0 BY EmptySeq
<1>4. TypeOK BY <1>1, <1>2, <1>3, MaxSizeAssumption DEF Init, TypeOK
<1>5. Writer BY <1>1 DEF Init, Writer
<1>6. <<>> \o <<>> = <<>> BY <1>3, ConcatEmptySeq
<1>7. Order
  <2>1. InFlight = <<>> /\ accepted = <<>> /\ wire = <<>> /\ queue = <<>>
    BY DEF Init, InFlight
  <2>2. accepted = wire \o (InFlight \o queue) BY <1>6, <2>1
  <2>3. accepted = wire \o <<>> BY <1>6, <2>1
  <2> QED BY <1>3, <2>2, <2>3 DEF Order
<1>8. Ending BY DEF Init, Ending
<1> QED BY <1>4, <1>5, <1>7, <1>8 DEF IInv

LEMMA Step == IInv /\ [Next]_vars => IInv'
<1> SUFFICES ASSUME IInv, [Next]_vars PROVE IInv' OBVIOUS
<1>1. CASE Running /\ UNCHANGED crashed
  BY <1>1, RequestCheckStep, RequestPushStep, WriterWalkStep, WriterPopsStep,
     WriterResumesStep, BreakStreamStep, OnWriteDoneOkStep, OnWriteDoneFailsStep,
     OwnerDisconnectsStep, DiscSteps DEF Running, WriterStep, WriteDone
<1>2. CASE \E d \in DOMAIN disc : JoinTwice(d) BY <1>2, JoinTwiceStep
<1>3. CASE UNCHANGED vars
  <2> USE <1>3 DEF vars, callVars, grpcVars
  <2>1. TypeOK' BY DEF IInv, TypeOK
  <2>2. Writer' /\ Ending' BY DEF IInv, Writer, Ending
  <2>3. Order' BY OrderKept DEF InFlight
  <2> QED BY <2>1, <2>2, <2>3 DEF IInv
<1> QED BY <1>1, <1>2, <1>3 DEF Next

-----------------------------------------------------------------------------
\* What is known of every reachable state.
THEOREM Invariance == Spec => []IInv
BY Start, Step, PTL DEF Spec

\* The variables keep their types: one write is outstanding at most.
THEOREM TypeCorrect == Spec => []TypeOK
<1>1. IInv => TypeOK BY DEF IInv
<1> QED BY <1>1, Invariance, PTL

\* What was accepted is written, being written or queued, in that order.
THEOREM InOrder == Spec => []WrittenInOrder
<1>1. IInv => WrittenInOrder
  <2> SUFFICES ASSUME IInv PROVE WrittenInOrder OBVIOUS
  <2>1. InFlight \in Seq(Package) BY InFlightTyped DEF IInv
  <2>2. wire \o (InFlight \o queue) = wire \o InFlight \o queue
    <3>1. wire \in Seq(Package) /\ queue \in Seq(Package) BY DEF IInv, TypeOK
    <3>2. \A s, t, u \in Seq(Package) : s \o (t \o u) = s \o t \o u BY ConcatAssociative
    <3> QED BY <2>1, <3>1, <3>2
  <2>3. PICK rest \in Seq(Package) : accepted = wire \o rest BY DEF IInv, Order
  <2>4. Len(wire) <= Len(accepted) /\ \A i \in 1..Len(wire) : accepted[i] = wire[i]
    <3>1. wire \in Seq(Package) BY DEF IInv, TypeOK
    <3>2. Len(wire) \in Nat /\ Len(rest) \in Nat BY <3>1, LenProperties
    <3>3. /\ Len(wire \o rest) = Len(wire) + Len(rest)
          /\ \A i \in 1..Len(wire) : (wire \o rest)[i] = wire[i]
      BY <3>1, ConcatProperties
    <3> QED BY <2>3, <3>2, <3>3
  <2>5. IsPrefix(wire, accepted) BY <2>4, SameBeginning DEF IInv, TypeOK
  <2> QED BY <2>2, <2>5 DEF IInv, Order, WrittenInOrder
<1> QED BY <1>1, Invariance, PTL

\* When the destructor has returned no write is outstanding and nobody can push.
THEOREM NothingIsLeft == Spec => []NothingOutstandingAtTheEnd
<1>1. IInv => NothingOutstandingAtTheEnd
  BY DEF IInv, TypeOK, Writer, Ending, NothingOutstandingAtTheEnd
<1> QED BY <1>1, Invariance, PTL
===============================================================================
