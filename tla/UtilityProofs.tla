---------------------------- MODULE UtilityProofs ----------------------------
(***************************************************************************)
(* Proofs about ez::signal, for any threads and any number of calls, and    *)
(* about the Windows tools: ProcessTree, for any ids and any number of      *)
(* processes; ApiHook, whichever functions cannot be attached or detached   *)
(* and however transactions overlap; PEFile, for any files and export       *)
(* tables, and sums that wrap; OpenedFilePath, for any buffers; and         *)
(* ApiCalls, for any functions that CallLedger has an account of.           *)
(***************************************************************************)
EXTENDS EzSignal, Windows, SequenceTheorems, WellFoundedInduction, TLAPS

-----------------------------------------------------------------------------
(* ez::signal: what notify_one lets through                                  *)

\* The histories are bounded by the calls, which keeps their types.
IInv == TypeOK /\ OneWaitPerNotify /\ sent <= calls

-----------------------------------------------------------------------------
LEMMA FlagsTyped ==
    /\ Clear \in Flags
    /\ \A f \in Flags : SetOne(f) \in Flags /\ SetAll(f) \in Flags /\ Consume(f) \in Flags
BY DEF Flags, Clear, SetOne, SetAll, Consume

\* A wait that passes uses up what a notify_one has set.
LEMMA PassCounts ==
    ASSUME IInv, NEW w, flags.sg, Pass(w), UNCHANGED <<sent, calls>>
    PROVE  /\ flags' \in Flags
           /\ passed' + (IF flags'.sg /\ flags'.re THEN 1 ELSE 0) <= sent'
           /\ passed' \in 0..MaxCalls
<1>1. flags' \in Flags BY FlagsTyped DEF Pass, IInv, TypeOK
<1>2. CASE flags.re
  <2>1. passed' = passed + 1 /\ ~flags'.sg BY <1>2 DEF Pass, Consume, IInv, TypeOK, Flags
  <2> QED BY <1>1, <1>2, <2>1, MaxCallsAssumption DEF IInv, TypeOK, OneWaitPerNotify
<1>3. CASE ~flags.re
  <2>1. passed' = passed /\ flags' = flags BY <1>3 DEF Pass, Consume
  <2> QED BY <1>1, <1>3, <2>1 DEF IInv, TypeOK, OneWaitPerNotify
<1> QED BY <1>2, <1>3

LEMMA WaitStep ==
    ASSUME IInv, NEW w \in Waiter \cup Timed, Wait(w) \/ WaitFor(w) \/ Recheck(w)
    PROVE  IInv'
<1>1. /\ UNCHANGED <<notify, calls, sent, spent>>
      /\ (flags.sg /\ Pass(w)) \/ Sleep(w) \/ UNCHANGED <<flags, wait, passed>>
  BY DEF Wait, WaitFor, Recheck
<1>2. wait' \in [Waiter \cup Timed -> {"idle", "blocked", "woken"}]
  BY <1>1 DEF Pass, Sleep, IInv, TypeOK
<1>3. /\ flags' \in Flags
      /\ passed' + (IF flags'.sg /\ flags'.re THEN 1 ELSE 0) <= sent'
      /\ passed' \in 0..MaxCalls
  <2>1. CASE flags.sg /\ Pass(w) BY <1>1, <2>1, PassCounts
  <2>2. CASE UNCHANGED <<flags, passed>>
    BY <1>1, <2>2 DEF IInv, TypeOK, OneWaitPerNotify
  <2> QED BY <1>1, <2>1, <2>2 DEF Sleep
<1>4. TypeOK' BY <1>1, <1>2, <1>3 DEF IInv, TypeOK
<1> QED BY <1>1, <1>3, <1>4 DEF IInv, OneWaitPerNotify

\* Steps that leave the flags alone.
LEMMA WakeStep ==
    ASSUME IInv,
           \/ \E w \in Waiter \cup Timed : Timeout(w) \/ SpuriousWakeup(w)
           \/ \E n \in Notifier : CvNotifyOne(n) \/ CvNotifyAll(n)
    PROVE  IInv'
<1>1. UNCHANGED <<flags, calls, sent, passed>>
  BY DEF Timeout, SpuriousWakeup, CvNotifyOne, CvNotifyAll
<1>2. wait' \in [Waiter \cup Timed -> {"idle", "blocked", "woken"}]
  BY DEF Timeout, SpuriousWakeup, CvNotifyOne, CvNotifyAll, Blocked, IInv, TypeOK
<1>3. notify' \in [Notifier -> {"idle", "one", "all"}]
  BY DEF Timeout, SpuriousWakeup, CvNotifyOne, CvNotifyAll, IInv, TypeOK
<1>4. spent' \in BOOLEAN
  BY DEF Timeout, SpuriousWakeup, CvNotifyOne, CvNotifyAll, IInv, TypeOK
<1>5. TypeOK' BY <1>1, <1>2, <1>3, <1>4 DEF IInv, TypeOK
<1> QED BY <1>1, <1>5 DEF IInv, OneWaitPerNotify

LEMMA NotifyStep ==
    ASSUME IInv, NEW n \in Notifier, NotifyOne(n) \/ NotifyAll(n) \/ Reset(n)
    PROVE  IInv'
<1>1. Call(n) BY DEF NotifyOne, NotifyAll, Reset
<1>2. calls' = calls + 1 /\ calls' \in 0..MaxCalls /\ UNCHANGED <<wait, passed, spent>>
  BY <1>1, MaxCallsAssumption DEF Call, IInv, TypeOK
<1>3. notify' \in [Notifier -> {"idle", "one", "all"}]
  BY DEF NotifyOne, NotifyAll, Reset, IInv, TypeOK
<1>4. /\ flags' \in Flags
      /\ sent' \in 0..MaxCalls /\ sent' <= calls'
      /\ passed + (IF flags'.sg /\ flags'.re THEN 1 ELSE 0) <= sent'
  <2>1. CASE NotifyOne(n)
    <3>1. flags' \in Flags /\ flags'.sg /\ flags'.re = flags.re
      BY <2>1, FlagsTyped DEF NotifyOne, SetOne, IInv, TypeOK, Flags
    <3>2. sent' = IF flags.sg THEN sent ELSE sent + 1 BY <2>1 DEF NotifyOne
    <3>3. sent' \in 0..MaxCalls /\ sent' <= calls'
      BY <1>2, <3>2, MaxCallsAssumption DEF IInv, TypeOK
    <3>4. passed + (IF flags'.sg /\ flags'.re THEN 1 ELSE 0) <= sent'
      <4>1. CASE flags.sg BY <3>1, <3>2, <4>1 DEF IInv, OneWaitPerNotify
      <4>2. CASE ~flags.sg
        <5>1. passed <= sent /\ sent' = sent + 1 BY <3>2, <4>2 DEF IInv, TypeOK, OneWaitPerNotify
        <5> QED BY <3>1, <5>1 DEF IInv, TypeOK
      <4> QED BY <4>1, <4>2
    <3> QED BY <3>1, <3>3, <3>4
  <2>2. CASE NotifyAll(n) \/ Reset(n)
    <3>1. flags' \in Flags
      BY <2>2, FlagsTyped DEF NotifyAll, Reset, IInv, TypeOK
    <3>2. sent' = sent /\ ~(flags'.sg /\ flags'.re)
      BY <2>2 DEF NotifyAll, Reset, SetAll, Clear
    <3> QED BY <1>2, <3>1, <3>2 DEF IInv, TypeOK, OneWaitPerNotify
  <2> QED BY <2>1, <2>2
<1>5. TypeOK' BY <1>2, <1>3, <1>4 DEF IInv, TypeOK
<1> QED BY <1>2, <1>4, <1>5 DEF IInv, OneWaitPerNotify

LEMMA Start == Init => IInv
<1> SUFFICES ASSUME Init PROVE IInv OBVIOUS
<1>1. flags \in Flags /\ ~flags.sg BY FlagsTyped DEF Init, Clear
<1>2. spent \in BOOLEAN BY DEF Init
<1>3. TypeOK BY <1>1, <1>2, MaxCallsAssumption DEF Init, TypeOK
<1> QED BY <1>1, <1>3 DEF Init, IInv, OneWaitPerNotify

LEMMA Step == IInv /\ [Next]_vars => IInv'
<1> SUFFICES ASSUME IInv, [Next]_vars PROVE IInv' OBVIOUS
<1>1. CASE UNCHANGED vars BY <1>1 DEF vars, IInv, TypeOK, OneWaitPerNotify
<1>2. CASE Next BY <1>2, WaitStep, WakeStep, NotifyStep DEF Next
<1> QED BY <1>1, <1>2

-----------------------------------------------------------------------------
\* The variables keep their types.
THEOREM TypeCorrect == Spec => []TypeOK
<1>1. IInv => TypeOK BY DEF IInv
<1> QED BY <1>1, Start, Step, PTL DEF Spec

\* A notify_one lets at most one wait through while the signal resets itself.
THEOREM OneForOne == Spec => []OneWaitPerNotify
<1>1. IInv => OneWaitPerNotify BY DEF IInv
<1> QED BY <1>1, Start, Step, PTL DEF Spec

-----------------------------------------------------------------------------
(* Sequences, and the least of a set of numbers                              *)

LEMMA Elements ==
    ASSUME NEW S, NEW seq \in Seq(S)
    PROVE  DOMAIN seq = 1..Len(seq) /\ Len(seq) \in Nat /\ \A n \in 1..Len(seq) : seq[n] \in S
OBVIOUS

LEMMA AppendFacts ==
    ASSUME NEW S, NEW seq \in Seq(S), NEW e \in S
    PROVE  /\ Append(seq, e) \in Seq(S) /\ Len(Append(seq, e)) = Len(seq) + 1
           /\ DOMAIN seq = 1..Len(seq) /\ Len(seq) \in Nat
           /\ DOMAIN Append(seq, e) = 1..(Len(seq) + 1)
           /\ \A n \in 1..Len(seq) : Append(seq, e)[n] = seq[n]
           /\ Append(seq, e)[Len(seq) + 1] = e
OBVIOUS

\* PEFile and OpenedFilePath have the Min of the community modules each.
LEMMA LeastIsMin ==
    ASSUME NEW S, NEW x \in S, S \subseteq Int, \A y \in S : x <= y
    PROVE  PE!Min(S) = x /\ OpenedPath!Min(S) = x
<1>1. PICK m \in S : PE!Min(S) = m /\ \A y \in S : m <= y BY DEF PE!Min
<1>2. PICK n \in S : OpenedPath!Min(S) = n /\ \A y \in S : n <= y BY DEF OpenedPath!Min
<1> QED BY <1>1, <1>2

LEMMA MinOfNaturals ==
    ASSUME NEW S \in SUBSET Nat, S # {}
    PROVE  OpenedPath!Min(S) \in S /\ \A y \in S : OpenedPath!Min(S) <= y
<1>1. PICK x \in S : \A y \in S : <<y, x>> \notin OpToRel(<, Nat)
  BY NatLessThanWellFounded, WFMin
<1>2. ASSUME NEW y \in S PROVE x <= y
  <2>1. ~(y < x) BY <1>1 DEF OpToRel
  <2> QED BY <2>1
<1>3. S \subseteq Int OBVIOUS
<1>4. OpenedPath!Min(S) = x BY <1>2, <1>3, LeastIsMin
<1> QED BY <1>2, <1>4

\* A number below the modulus is its own remainder.
LEMMA Small == ASSUME NEW U \in Nat \ {0}, NEW a \in Nat, a < U PROVE a % U = a
<1>1. a = U * (a \div U) + (a % U) /\ a % U \in 0..(U-1) /\ a \div U \in Int BY SMT
<1>2. CASE a \div U = 0 BY <1>1, <1>2
<1>3. CASE a \div U >= 1
  <2> DEFINE q == a \div U
  <2>1. U * q = U * (q - 1) + U BY <1>1
  <2>2. U * (q - 1) >= 0 BY <1>1, <1>3
  <2> QED BY <1>1, <2>1, <2>2
<1>4. CASE a \div U <= -1
  <2> DEFINE q == a \div U
  <2>1. U * q = U * (q + 1) - U BY <1>1
  <2>2. U * (q + 1) <= 0 BY <1>1, <1>4
  <2> QED BY <1>1, <2>1, <2>2
<1> QED BY <1>1, <1>2, <1>3, <1>4

-----------------------------------------------------------------------------
(* ProcessTree: the family and no other                                      *)

\* The family is a matter of parents: the ids of nobody, dead or alive, are given again.
Births ==
    /\ 0 \in Tree!alive /\ parent[0] = 0
    /\ Tree!alive \subseteq used \cup {0} /\ nPid \in used
    /\ family \subseteq Tree!alive \ {0, nPid}
    /\ \A p \in Tree!alive : parent[p] \in used \cup {0}
    /\ \A p \in Tree!alive : parent[p] \in family \cup {nPid} => p \in family

\* A set of ids that has, in the snapshot, with nPid and its members their children.
Kin(G) ==
    /\ \A p \in DOMAIN snapshot : snapshot[p] \in G \cup {nPid} => p \in G
    /\ G \cap Tree!alive \subseteq family
    /\ it # None /\ nTemp \in G => it \in G

\* Nobody but the family is reached from nPid in the snapshot.
Lineage ==
    /\ DOMAIN snapshot \subseteq used \cup {0}
    /\ \E G \in SUBSET DOMAIN snapshot : Kin(G)
    /\ ~stray

\* Whom the walk has still to reach.
Doom ==
    /\ doomed \subseteq DOMAIN snapshot \cap used
    /\ \A p \in doomed : snapshot[p] \in doomed \cup {nPid}
    /\ it \in doomed => nTemp \in doomed
    /\ doomed \cap Tree!alive \subseteq todo \cup {it} \cup spared

\* Nothing is listed before the snapshot or after the walk.
Idle == phase # "walk" => it = None /\ todo = {}

TreeInv == Tree!TypeOK /\ Idle /\ (~reborn => Births /\ Lineage /\ Doom)

LEMMA TreeStart == Tree!Init => TreeInv
<1> SUFFICES ASSUME Tree!Init PROVE TreeInv OBVIOUS
<1>1. Tree!alive = {0, nPid} /\ parent[0] = 0 /\ parent[nPid] = 0 BY DEF Tree!Init, Tree!alive
<1>2. DOMAIN snapshot = {} BY DEF Tree!Init
<1>3. Tree!TypeOK BY <1>1, <1>2, PidAssumption DEF Tree!Init, Tree!TypeOK
<1>4. Births BY <1>1, PidAssumption DEF Tree!Init, Births
<1>5. Kin({}) BY <1>1, <1>2 DEF Kin, Tree!Init
<1>6. Lineage BY <1>2, <1>5 DEF Lineage, Tree!Init
<1>7. Doom BY <1>1, <1>2, PidAssumption DEF Doom, Tree!Init
<1> QED BY <1>3, <1>4, <1>6, <1>7 DEF TreeInv, Idle, Tree!Init

LEMMA SpawnStep ==
    ASSUME TreeInv, NEW p \in Pid \cup {0}, NEW c \in Pid, Tree!Spawn(p, c)
    PROVE  TreeInv'
<1>1. /\ p \in Tree!alive /\ c \notin Tree!alive
      /\ Tree!alive' = Tree!alive \cup {c}
      /\ parent'[c] = p /\ \A q \in Tree!alive : parent'[q] = parent[q]
      /\ used' = used \cup {c} /\ reborn' = (reborn \/ c \in used)
      /\ family' = IF p \in family \cup {nPid} THEN family \cup {c} ELSE family
      /\ spawns' = spawns + 1 /\ spawns < MaxSpawns
      /\ parent' = [q \in Tree!alive' |-> IF q = c THEN p ELSE parent[q]]
  BY DEF Tree!Spawn, Tree!alive
<1>2. UNCHANGED <<snapshot, todo, it, nTemp, phase, doomed, spared, stray>>
  BY DEF Tree!Spawn, Tree!walk
<1>3. Tree!TypeOK' 
  <2>1. parent' \in [Tree!alive' -> Pid \cup {0}] BY <1>1 DEF TreeInv, Tree!TypeOK
  <2>2. spawns' \in 0..MaxSpawns BY <1>1, PidAssumption DEF TreeInv, Tree!TypeOK
  <2> QED BY <1>1, <1>2, <2>1, <2>2 DEF TreeInv, Tree!TypeOK
<1>4. ASSUME ~reborn' PROVE Births' /\ Lineage' /\ Doom'
  <2>1. ~reborn /\ c \notin used /\ Births /\ Lineage /\ Doom BY <1>1, <1>4 DEF TreeInv
  <2>2. c # nPid /\ c # 0 BY <2>1, PidAssumption DEF Births
  <2>3. Births' BY <1>1, <2>1, <2>2 DEF Births
  <2>4. Lineage'
    <3>1. PICK G \in SUBSET DOMAIN snapshot : Kin(G) BY <2>1 DEF Lineage
    <3>2. c \notin G BY <2>1, <2>2 DEF Lineage
    <3>3. Kin(G)' BY <1>1, <1>2, <3>1, <3>2 DEF Kin
    <3> QED BY <1>1, <1>2, <2>1, <3>3 DEF Lineage
  <2>5. Doom' BY <1>1, <1>2, <2>1 DEF Doom
  <2> QED BY <2>3, <2>4, <2>5
<1> QED BY <1>2, <1>3, <1>4 DEF TreeInv, Idle

\* A process goes, by itself or for the walk.
LEMMA Removed ==
    ASSUME TreeInv, NEW p \in Tree!alive \ {0}, Tree!Remove(p)
    PROVE  /\ Tree!alive' = Tree!alive \ {p} /\ family' = family \ {p}
           /\ UNCHANGED <<used, reborn, spawns>>
           /\ parent' \in [Tree!alive' -> Pid \cup {0}]
           /\ ~reborn => Births'
<1>1. /\ Tree!alive' = Tree!alive \ {p} /\ family' = family \ {p}
      /\ \A q \in Tree!alive' : parent'[q] = parent[q]
      /\ UNCHANGED <<used, reborn, spawns>>
      /\ parent' = [q \in Tree!alive' |-> parent[q]]
  BY DEF Tree!Remove, Tree!alive
<1>2. parent' \in [Tree!alive' -> Pid \cup {0}] BY <1>1 DEF TreeInv, Tree!TypeOK
<1>3. ~reborn => Births' BY <1>1 DEF TreeInv, Births
<1> QED BY <1>1, <1>2, <1>3

LEMMA ExitStep ==
    ASSUME TreeInv, NEW p \in Pid, Tree!Exit(p)
    PROVE  TreeInv'
<1>1. p \in Tree!alive \ {0} /\ Tree!Remove(p) BY DEF Tree!Exit
<1>2. UNCHANGED <<snapshot, todo, it, nTemp, phase, doomed, spared, stray>>
  BY DEF Tree!Exit, Tree!walk
<1>3. /\ Tree!alive' = Tree!alive \ {p} /\ family' = family \ {p}
      /\ UNCHANGED <<used, reborn, spawns>>
      /\ parent' \in [Tree!alive' -> Pid \cup {0}]
      /\ ~reborn => Births'
  BY <1>1, Removed
<1>4. Tree!TypeOK' BY <1>2, <1>3 DEF TreeInv, Tree!TypeOK
<1>5. ASSUME ~reborn PROVE Lineage' /\ Doom'
  <2>1. PICK G \in SUBSET DOMAIN snapshot : Kin(G) BY <1>5 DEF TreeInv, Lineage
  <2>2. Kin(G)' BY <1>2, <1>3, <2>1 DEF Kin
  <2>3. Lineage' BY <1>2, <1>3, <1>5, <2>2 DEF TreeInv, Lineage
  <2>4. Doom' BY <1>2, <1>3, <1>5 DEF TreeInv, Doom
  <2> QED BY <2>3, <2>4
<1> QED BY <1>2, <1>3, <1>4, <1>5 DEF TreeInv, Idle

\* In the least set a process has a parent that is nPid or in the set.
LEMMA UnbrokenUp ==
    ASSUME NEW p \in Tree!Unbroken
    PROVE  parent[p] \in Tree!Unbroken \cup {nPid}
<1> SUFFICES ASSUME parent[p] \notin Tree!Unbroken \cup {nPid} PROVE FALSE OBVIOUS
<1> DEFINE kin == Tree!Unbroken \ {p}
<1>1. Tree!Closed(Tree!Unbroken) BY DEF Tree!Closed, Tree!Unbroken
<1>2. Tree!Closed(kin)
  <2> SUFFICES ASSUME NEW q \in family, parent[q] \in kin \cup {nPid} PROVE q \in kin
    BY DEF Tree!Closed
  <2>1. q \in Tree!Unbroken BY <1>1 DEF Tree!Closed
  <2>2. q # p OBVIOUS
  <2> QED BY <2>1, <2>2
<1>3. kin \in SUBSET family BY DEF Tree!Unbroken
<1>4. p \in kin BY <1>2, <1>3 DEF Tree!Unbroken
<1> QED BY <1>4

LEMMA SnapshotStep == TreeInv /\ Tree!Snapshot => TreeInv'
<1> SUFFICES ASSUME TreeInv, Tree!Snapshot PROVE TreeInv' OBVIOUS
<1>1. /\ UNCHANGED <<parent, family, used, reborn, spawns, it, nTemp, spared, stray>>
      /\ phase = "before" /\ phase' = "walk" /\ todo' = DOMAIN snapshot'
      /\ it = None
  BY DEF Tree!Snapshot, Tree!system, TreeInv, Idle
<1>2. UNCHANGED Tree!alive BY <1>1 DEF Tree!alive
<1>3. CASE snapshot' = parent /\ doomed' = Tree!Unbroken
  <2>1. DOMAIN snapshot' = Tree!alive BY <1>3 DEF Tree!alive
  <2>2. doomed' \subseteq family BY <1>3 DEF Tree!Unbroken
  <2>3. Tree!TypeOK'
    <3>1. snapshot' \in [DOMAIN snapshot' -> Pid \cup {0}] BY <1>3, <2>1 DEF TreeInv, Tree!TypeOK
    <3> QED BY <1>1, <1>2, <2>1, <2>2, <3>1 DEF TreeInv, Tree!TypeOK
  <2>4. ASSUME ~reborn PROVE Lineage' /\ Doom'
    <3>1. Births BY <2>4 DEF TreeInv
    <3>2. Kin(family)' BY <1>1, <1>2, <1>3, <2>1, <3>1 DEF Kin, Births
    <3>3. Lineage' BY <1>1, <1>2, <2>1, <2>4, <3>1, <3>2 DEF Lineage, Births, TreeInv
    <3>4. \A p \in doomed' : snapshot'[p] \in doomed' \cup {nPid} BY <1>3, UnbrokenUp
    <3>5. doomed' \subseteq used BY <2>2, <3>1 DEF Births
    <3>6. None \notin doomed' BY <2>2, PidAssumption DEF TreeInv, Tree!TypeOK
    <3>7. Doom' BY <1>1, <1>2, <2>1, <2>2, <3>1, <3>4, <3>5, <3>6 DEF Doom, Births
    <3> QED BY <3>3, <3>7
  <2> QED BY <1>1, <1>2, <2>3, <2>4 DEF TreeInv, Births, Idle
<1>4. CASE snapshot' = <<>> /\ doomed' = {}
  <2>1. DOMAIN snapshot' = {} BY <1>4
  <2>2. Tree!TypeOK' BY <1>1, <1>2, <1>4, <2>1 DEF TreeInv, Tree!TypeOK
  <2>3. Kin({})' BY <1>1, <2>1 DEF Kin
  <2>4. ~reborn => Lineage' BY <1>1, <2>1, <2>3 DEF Lineage, TreeInv
  <2>5. Doom' BY <1>4 DEF Doom
  <2> QED BY <1>1, <1>2, <2>2, <2>4, <2>5 DEF TreeInv, Births, Idle
<1> QED BY <1>3, <1>4 DEF Tree!Snapshot

LEMMA NextListedStep == TreeInv /\ Tree!NextListed => TreeInv'
<1> SUFFICES ASSUME TreeInv, Tree!NextListed PROVE TreeInv' OBVIOUS
<1>1. /\ UNCHANGED <<parent, family, used, reborn, spawns, snapshot, doomed, spared, stray>>
      /\ phase = "walk" /\ it = None
  BY DEF Tree!NextListed, Tree!system
<1>2. UNCHANGED Tree!alive BY <1>1 DEF Tree!alive
<1>3. CASE todo = {} /\ phase' = "over" /\ UNCHANGED <<todo, it, nTemp>>
  <2>1. Tree!TypeOK' BY <1>1, <1>2, <1>3 DEF TreeInv, Tree!TypeOK
  <2> QED BY <1>1, <1>2, <1>3, <2>1 DEF TreeInv, Idle, Births, Lineage, Kin, Doom
<1>4. ASSUME NEW p \in todo,
             it' = p, nTemp' = p, todo' = todo \ {p}, UNCHANGED phase
      PROVE  TreeInv'
  <2>1. Tree!TypeOK' BY <1>1, <1>2, <1>4 DEF TreeInv, Tree!TypeOK
  <2>2. ASSUME ~reborn PROVE Lineage' /\ Doom'
    <3>1. PICK G \in SUBSET DOMAIN snapshot : Kin(G) BY <2>2 DEF TreeInv, Lineage
    <3>2. Kin(G)' BY <1>1, <1>2, <1>4, <3>1 DEF Kin
    <3>3. Lineage' BY <1>1, <2>2, <3>2 DEF Lineage, TreeInv
    <3>4. None \notin doomed BY PidAssumption DEF TreeInv, Tree!TypeOK
    <3>5. Doom' BY <1>1, <1>2, <1>4, <2>2, <3>4 DEF Doom, TreeInv
    <3> QED BY <3>3, <3>5
  <2> QED BY <1>1, <1>2, <1>4, <2>1, <2>2 DEF TreeInv, Idle, Births
<1> QED BY <1>3, <1>4 DEF Tree!NextListed

LEMMA WalkUpStep == TreeInv /\ Tree!WalkUp => TreeInv'
<1> SUFFICES ASSUME TreeInv, Tree!WalkUp PROVE TreeInv' OBVIOUS
<1>1. it # None /\ phase = "walk" /\ UNCHANGED <<snapshot, todo, phase, doomed>>
  BY DEF Tree!WalkUp, TreeInv, Idle
<1>2. it \in DOMAIN snapshot /\ None \notin doomed
  BY <1>1, PidAssumption DEF TreeInv, Tree!TypeOK
<1>3. CASE nTemp \in DOMAIN snapshot /\ snapshot[nTemp] = nPid /\ Tree!Terminate
  <2>1. it' = None /\ nTemp' = None BY <1>3 DEF Tree!Terminate
  <2>2. ~reborn => it \notin Tree!alive \/ it \in family
    <3> SUFFICES ASSUME ~reborn PROVE it \notin Tree!alive \/ it \in family OBVIOUS
    <3>1. PICK G \in SUBSET DOMAIN snapshot : Kin(G) BY DEF TreeInv, Lineage
    <3> QED BY <1>1, <1>3, <3>1 DEF Kin
  <2>3. CASE it \in Tree!alive \ {0} /\ Tree!Remove(it) /\ stray' = (stray \/ it \notin family)
        /\ UNCHANGED spared
    <3>1. /\ Tree!alive' = Tree!alive \ {it} /\ family' = family \ {it}
          /\ UNCHANGED <<used, reborn, spawns>>
          /\ parent' \in [Tree!alive' -> Pid \cup {0}]
          /\ ~reborn => Births'
      BY <2>3, Removed
    <3>2. Tree!TypeOK' BY <1>1, <2>1, <2>3, <3>1 DEF TreeInv, Tree!TypeOK
    <3>3. ASSUME ~reborn PROVE Lineage' /\ Doom'
      <4>1. PICK G \in SUBSET DOMAIN snapshot : Kin(G) BY <3>3 DEF TreeInv, Lineage
      <4>2. Kin(G)' BY <1>1, <2>1, <3>1, <4>1 DEF Kin
      <4>3. Lineage' BY <1>1, <2>2, <2>3, <3>1, <3>3, <4>2 DEF Lineage, TreeInv
      <4>4. Doom' BY <1>1, <1>2, <2>1, <2>3, <3>1, <3>3 DEF Doom, TreeInv
      <4> QED BY <4>3, <4>4
    <3> QED BY <1>1, <3>1, <3>2, <3>3 DEF TreeInv, Idle
  <2>4. CASE spared' = spared \cup ({it} \cap Tree!alive) /\ UNCHANGED <<Tree!system, stray>>
    <3>1. UNCHANGED <<parent, family, used, reborn, spawns, Tree!alive>>
      BY <2>4 DEF Tree!system, Tree!alive
    <3>2. Tree!TypeOK' BY <1>1, <2>1, <2>4, <3>1 DEF TreeInv, Tree!TypeOK
    <3>3. ASSUME ~reborn PROVE Lineage' /\ Doom'
      <4>1. PICK G \in SUBSET DOMAIN snapshot : Kin(G) BY <3>3 DEF TreeInv, Lineage
      <4>2. Kin(G)' BY <1>1, <2>1, <3>1, <4>1 DEF Kin
      <4>3. Lineage' BY <1>1, <2>4, <3>1, <3>3, <4>2 DEF Lineage, TreeInv
      <4>4. Doom' BY <1>1, <1>2, <2>1, <2>4, <3>1, <3>3 DEF Doom, TreeInv
      <4> QED BY <4>3, <4>4
    <3> QED BY <1>1, <3>1, <3>2, <3>3 DEF TreeInv, Idle, Births
  <2> QED BY <1>3, <2>3, <2>4 DEF Tree!Terminate
<1>4. CASE /\ Tree!GiveUp
           /\ nTemp \notin DOMAIN snapshot \/ (nTemp \in DOMAIN snapshot /\ snapshot[nTemp] = 0)
  <2>1. /\ UNCHANGED <<parent, family, used, reborn, spawns, spared, stray, Tree!alive>>
        /\ it' = None /\ nTemp' = None
    BY <1>4 DEF Tree!GiveUp, Tree!system, Tree!alive
  <2>2. Tree!TypeOK' BY <1>1, <2>1 DEF TreeInv, Tree!TypeOK
  <2>3. ASSUME ~reborn PROVE Lineage' /\ Doom'
    <3>1. PICK G \in SUBSET DOMAIN snapshot : Kin(G) BY <2>3 DEF TreeInv, Lineage
    <3>2. Kin(G)' BY <1>1, <2>1, <3>1 DEF Kin
    <3>3. Lineage' BY <1>1, <2>1, <2>3, <3>2 DEF Lineage, TreeInv
    <3>4. it \notin doomed
      <4>1. 0 \notin doomed \cup {nPid} BY PidAssumption DEF TreeInv, Tree!TypeOK
      <4>2. nTemp \notin doomed BY <1>4, <2>3, <4>1 DEF TreeInv, Doom
      <4> QED BY <2>3, <4>2 DEF TreeInv, Doom
    <3>5. Doom' BY <1>1, <1>2, <2>1, <2>3, <3>4 DEF Doom, TreeInv
    <3> QED BY <3>3, <3>5
  <2> QED BY <1>1, <2>1, <2>2, <2>3 DEF TreeInv, Idle, Births
<1>5. CASE nTemp \in DOMAIN snapshot /\ snapshot[nTemp] # nPid /\ Tree!Follow(snapshot[nTemp])
  <2>1. /\ UNCHANGED <<parent, family, used, reborn, spawns, spared, stray, it, Tree!alive>>
        /\ nTemp' = snapshot[nTemp]
    BY <1>5 DEF Tree!Follow, Tree!system, Tree!alive
  <2>2. Tree!TypeOK' BY <1>1, <1>5, <2>1 DEF TreeInv, Tree!TypeOK
  <2>3. ASSUME ~reborn PROVE Lineage' /\ Doom'
    <3>1. PICK G \in SUBSET DOMAIN snapshot : Kin(G) BY <2>3 DEF TreeInv, Lineage
    <3>2. Kin(G)' BY <1>1, <1>5, <2>1, <3>1 DEF Kin
    <3>3. Lineage' BY <1>1, <2>1, <2>3, <3>2 DEF Lineage, TreeInv
    <3>4. Doom' BY <1>1, <1>5, <2>1, <2>3 DEF Doom, TreeInv
    <3> QED BY <3>3, <3>4
  <2> QED BY <1>1, <2>1, <2>2, <2>3 DEF TreeInv, Idle, Births
<1> QED BY <1>3, <1>4, <1>5 DEF Tree!WalkUp

LEMMA TreeStep == TreeInv /\ [Tree!Next]_(Tree!tree) => TreeInv'
<1> SUFFICES ASSUME TreeInv, [Tree!Next]_(Tree!tree) PROVE TreeInv' OBVIOUS
<1>1. CASE UNCHANGED Tree!tree
  <2>1. /\ UNCHANGED <<parent, family, used, reborn, spawns, Tree!alive>>
        /\ UNCHANGED <<snapshot, todo, it, nTemp, phase, doomed, spared, stray>>
    BY <1>1 DEF Tree!tree, Tree!system, Tree!walk, Tree!alive
  <2> QED BY <2>1 DEF TreeInv, Tree!TypeOK, Idle, Births, Lineage, Kin, Doom
<1>2. CASE Tree!Next
  BY <1>2, SpawnStep, ExitStep, SnapshotStep, NextListedStep, WalkUpStep DEF Tree!Next, Tree!Kill
<1> QED BY <1>1, <1>2

LEMMA TreeInvariance == Tree!Spec => []TreeInv
BY TreeStart, TreeStep, PTL DEF Tree!Spec

\* KillAllDescendantProcess and the system it walks over keep their types: whoever starts
\* or ends, nTemp and the process at hand come from the snapshot.
THEOREM TreeTypes == Tree!Spec => []Tree!TypeOK
<1>1. TreeInv => Tree!TypeOK BY DEF TreeInv
<1> QED BY <1>1, TreeInvariance, PTL

\* As long as no id is given a second time, KillAllDescendantProcess terminates nobody but
\* descendants of nPid, and leaves none of those whose parents were alive when the
\* snapshot was taken: for any ids, and any number of processes that start and end
\* between its calls of Process32Next and OpenProcess.
THEOREM FamilyOnly == Tree!Spec => []KillsTheFamily
<1>1. TreeInv => KillsTheFamily
  <2> SUFFICES ASSUME TreeInv, ~reborn
               PROVE  ~stray /\ (phase = "over" => doomed \cap Tree!alive \subseteq spared)
    BY DEF KillsTheFamily, Tree!KillsTheFamily
  <2>1. None \notin doomed BY PidAssumption DEF TreeInv, Tree!TypeOK
  <2> QED BY <2>1 DEF TreeInv, Lineage, Doom, Idle
<1> QED BY <1>1, TreeInvariance, PTL

-----------------------------------------------------------------------------
(* ApiHook: what is known of the code, the slots, the list and the call      *)

\* The methods of a drop target that ask DragQueryFileW.
Dropped == {"IDropTarget_Drop", "IDropTarget_DragEnter"}

\* What the loop of hook() has before it, and all that has not been attached yet.
Waiting(f) == \E n \in at..Len(Hooks!Listed) : f = Hooks!Listed[n].proc
Fresh(f) ==
    \/ hooking = "before"
    \/ hooking = "attaching" /\ Waiting(f)
    \/ hooking = "attaching" /\ f = "IFileOperation_CopyItems"
    \/ /\ hooking \in {"attaching", "operation hooked"} /\ f = "IFileDialog_Show"
       /\ doing["hook"] \notin Hooks!Pushes
    \/ /\ once /\ f = "IDropTarget_DragEnter"
       /\ ~(call.registering = 2 /\ doing["app"] \in Hooks!Pushes)
    \/ /\ once /\ f = "IDropTarget_Drop" /\ call.registering # 2
       /\ ~(call.registering = 1 /\ doing["app"] \in Hooks!Pushes)

\* Before it is attached a function runs itself.
Started ==
    /\ hooking = "before" => call = Hooks!NoCall /\ once /\ died = "no"
    /\ \A f \in Hooks!Proc : Fresh(f) => Hooks!Untouched(f) /\ call.api # f
    /\ call.registering # 0 => once /\ call.mine = "RegisterDragDrop"

\* The list begins with what hook() has put in.
ListBegins ==
    /\ hooking # "before" =>
        /\ Len(Hooks!Listed) <= Len(apis)
        /\ \A n \in DOMAIN Hooks!Listed : apis[n] = Hooks!Listed[n]
    /\ hooking = "attaching" => last = Len(Hooks!Listed) /\ at \in 1..(last + 1)
    /\ hooking \in {"detaching", "unhooked"} => last <= Len(apis)
    /\ hooking = "detaching" =>
          at \in 1..(last + 1) /\ (doing["hook"] = "transaction" => at <= last)

\* A function runs itself or its own X_Mine, and so does the call under way.
OwnCode ==
    /\ \A f \in Hooks!Proc : code[f] \in {"itself", IF f = "MoveFileW" THEN "CopyFileW" ELSE f}
    /\ call # Hooks!NoCall => call.mine = IF call.api = "MoveFileW" THEN "CopyFileW" ELSE call.api

\* An X_Mine that runs, or may, has a slot that leads where it should.
InUse(m) == call.mine = m \/ \E f \in Hooks!Proc : code[f] = m
OwnSlot ==
    /\ \A m \in Hooks!Proc : slot[m].to \in {"nothing", m}
          \cup IF m = "CopyFileW" THEN {"MoveFileW"} ELSE {}
    /\ \A m \in Hooks!Proc : InUse(m) =>
          slot[m].to # "nothing" \/ (m = "CopyFileW" /\ "MoveFileW" \in MayFail)
    /\ ~Hooks!Untouched("MoveFileW") \/ call.api = "MoveFileW" => slot["CopyFileW"].to = "MoveFileW"

\* What the call under way has still to do, and has done.
StepOf(m, step) ==
    /\ step.slot = m \/ (step.slot = "DragQueryFileW" /\ (step.asks \/ m \in Dropped))
    /\ step.asks => m # "CopyFileW"
CallsOn ==
    call # Hooks!NoCall =>
        /\ \A n \in DOMAIN call.todo : StepOf(call.mine, call.todo[n])
        /\ call.reached = {} /\ call.mine \notin Hooks!Refused =>
              call.todo # <<>> /\ call.todo[1].slot = call.mine
        /\ call.reached \subseteq {call.api}
              \cup IF call.api = "CopyFileW" THEN {"MoveFileW"} ELSE {}

\* Of the slots only those that nobody looks at are called while they are NULL.
Deaths ==
    /\ died = "DragQueryFileW" => call.api \in Dropped
    /\ died \in {"no", "apis", "DragQueryFileW", "CoCreateInstance"}
                  \cup IF "MoveFileW" \in MayFail THEN {"CopyFileW"} ELSE {}

\* Each thread has but one thing to do to Detours or to the list at a time; as long as
\* nobody has registered a drop target, hook() and unhook() have both to themselves.
Disturbed == ~once \/ call.registering # 0
Turns ==
    /\ pending # "nobody" => doing[pending] = "transaction"
    /\ doing["app"] # "nothing" => call.registering # 0
    /\ doing["hook"] \in Hooks!Pushes => hooking = "operation hooked"
    /\ hooking \in {"hooked", "unhooked"} => doing["hook"] = "nothing"
    /\ ~Disturbed => /\ doing["hook"] = "transaction" => pending = "hook"
                     /\ doing["hook"] # "lost push"
                     /\ kept \subseteq MayFail

\* What is attached is in the list, or on its way there, and its slot tells so, until the
\* loop has passed it; but for what Detours would not detach or the list has lost.
Arriving(f) ==
    \/ f = "IFileDialog_Show" /\ doing["hook"] \in Hooks!Pushes
    \/ f = Hooks!Registered /\ doing["app"] \in Hooks!Pushes
Arrived(f) ==
    \E n \in DOMAIN apis :
        /\ apis[n].proc = f /\ apis[n].as = code[f]
        /\ hooking = "detaching" => n >= at
        /\ hooking = "unhooked" => n > last
Detachable ==
    \A f \in Hooks!Proc \ (kept \cup {"IFileOperation_CopyItems", "CopyFileW"}) :
        ~Hooks!Untouched(f) =>
            slot[code[f]].past /\ slot[code[f]].to = f /\ (Arriving(f) \/ Arrived(f))

\* The inductive invariant.
HooksInv ==
    /\ Hooks!TypeOK /\ Started /\ ListBegins /\ OwnCode /\ OwnSlot /\ CallsOn /\ Deaths
    /\ Turns /\ Detachable

-----------------------------------------------------------------------------
(* The list, the names and the X_Mine                                        *)

LEMMA ListedEntries ==
    /\ Len(Hooks!Listed) = 15 /\ DOMAIN Hooks!Listed = 1..15
    /\ Hooks!Listed[1] = Hooks!Own("GetOpenFileNameW")
    /\ Hooks!Listed[2] = Hooks!Own("GetOpenFileNameA")
    /\ Hooks!Listed[3] = Hooks!Own("DragQueryFileW")
    /\ Hooks!Listed[4] = Hooks!Own("DragQueryFileA")
    /\ Hooks!Listed[5] = Hooks!Own("GetClipboardData")
    /\ Hooks!Listed[6] = Hooks!Own("CreateProcessW")
    /\ Hooks!Listed[7] = Hooks!Own("CopyFileW")
    /\ Hooks!Listed[8] = Hooks!Api("MoveFileW", "CopyFileW")
    /\ Hooks!Listed[9] = Hooks!Own("CreateFileMappingW")
    /\ Hooks!Listed[10] = Hooks!Own("RegisterDragDrop")
    /\ Hooks!Listed[11] = Hooks!Own("DoDragDrop")
    /\ Hooks!Listed[12] = Hooks!Own("CoCreateInstance")
    /\ Hooks!Listed[13] = Hooks!Own("OleGetClipboard")
    /\ Hooks!Listed[14] = Hooks!Own("SHBrowseForFolderW")
    /\ Hooks!Listed[15] = Hooks!Own("SHBrowseForFolderA")
BY DEF Hooks!Listed

LEMMA ListedNames ==
    /\ \A n \in 1..15 : Hooks!Listed[n].as
          = IF Hooks!Listed[n].proc = "MoveFileW" THEN "CopyFileW" ELSE Hooks!Listed[n].proc
    /\ \A n \in 1..15 : Hooks!Listed[n].proc = "CopyFileW" <=> n = 7
    /\ \A n \in 1..15 : Hooks!Listed[n].proc = "MoveFileW" <=> n = 8
    /\ \A n \in 1..15 : Hooks!Listed[n].proc \notin Hooks!Method
    /\ \A n \in 1..15 : Hooks!Listed[n].proc \in Hooks!Proc
    /\ \A n \in 1..15 : Hooks!Listed[n].as \in Hooks!Proc
    /\ \A n \in 1..15 : Hooks!Listed[n] = [proc |-> Hooks!Listed[n].proc, as |-> Hooks!Listed[n].as]
    /\ Hooks!Method \subseteq Hooks!Proc
    /\ "itself" \notin Hooks!Proc /\ "nothing" \notin Hooks!Proc /\ "MoveFileW" \in Hooks!Proc
    /\ "CopyFileW" \in Hooks!Proc /\ "DragQueryFileW" \in Hooks!Proc
    /\ "CoCreateInstance" \in Hooks!Proc
    /\ "RegisterDragDrop" \in Hooks!Proc /\ "GetClipboardData" \in Hooks!Proc
<1>1. \A n \in 1..15 : n = 1 \/ n = 2 \/ n = 3 \/ n = 4 \/ n = 5 \/ n = 6 \/ n = 7 \/ n = 8
                       \/ n = 9 \/ n = 10 \/ n = 11 \/ n = 12 \/ n = 13 \/ n = 14 \/ n = 15
  OBVIOUS
<1>2. \A n \in 1..15 : Hooks!Listed[n].as
      = IF Hooks!Listed[n].proc = "MoveFileW" THEN "CopyFileW" ELSE Hooks!Listed[n].proc
  BY <1>1, ListedEntries DEF Hooks!Own, Hooks!Api
<1>3. \A n \in 1..15 : Hooks!Listed[n].proc = "CopyFileW" <=> n = 7
  BY <1>1, ListedEntries DEF Hooks!Own, Hooks!Api
<1>4. \A n \in 1..15 : Hooks!Listed[n].proc = "MoveFileW" <=> n = 8
  BY <1>1, ListedEntries DEF Hooks!Own, Hooks!Api
<1>5. \A n \in 1..15 : Hooks!Listed[n].proc \notin Hooks!Method
  BY <1>1, ListedEntries DEF Hooks!Own, Hooks!Api, Hooks!Method
<1>6. \A n \in 1..15 : Hooks!Listed[n].proc \in Hooks!Proc
  BY ListedEntries DEF Hooks!Proc
<1>7. \A n \in 1..15 : Hooks!Listed[n].as \in Hooks!Proc
  <2>1. "CopyFileW" \in Hooks!Proc BY <1>3, <1>6
  <2> QED BY <1>2, <1>6, <2>1
<1>8. \A n \in 1..15 : Hooks!Listed[n] = [proc |-> Hooks!Listed[n].proc, as |-> Hooks!Listed[n].as]
  BY <1>1, ListedEntries DEF Hooks!Own, Hooks!Api
<1>9. \A n \in 1..15 : Hooks!Listed[n].proc \notin {"itself", "nothing"}
  BY <1>1, ListedEntries DEF Hooks!Own, Hooks!Api
<1>10. "itself" \notin Hooks!Proc /\ "nothing" \notin Hooks!Proc
  BY <1>9, ListedEntries DEF Hooks!Proc, Hooks!Method
<1>11. /\ "CopyFileW" \in Hooks!Proc
       /\ "DragQueryFileW" \in Hooks!Proc /\ "CoCreateInstance" \in Hooks!Proc
       /\ "RegisterDragDrop" \in Hooks!Proc
       /\ "GetClipboardData" \in Hooks!Proc /\ "MoveFileW" \in Hooks!Proc
  BY <1>6, ListedEntries DEF Hooks!Own, Hooks!Api
<1>12. Hooks!Method \subseteq Hooks!Proc BY DEF Hooks!Proc
<1> QED BY <1>2, <1>3, <1>4, <1>5, <1>6, <1>7, <1>8, <1>10, <1>11, <1>12

LEMMA ListedOnce == \A m, n \in 1..15 : Hooks!Listed[m].proc = Hooks!Listed[n].proc => m = n
<1>1. \A n \in 1..15 : n = 1 \/ n = 2 \/ n = 3 \/ n = 4 \/ n = 5 \/ n = 6 \/ n = 7 \/ n = 8
                       \/ n = 9 \/ n = 10 \/ n = 11 \/ n = 12 \/ n = 13 \/ n = 14 \/ n = 15
  OBVIOUS
<1> QED BY <1>1, ListedEntries DEF Hooks!Own, Hooks!Api

\* What each X_Mine calls through.
LEMMA MineSteps ==
    ASSUME NEW m \in Hooks!Proc
    PROVE  /\ Hooks!Mine[m] \in Seq(Hooks!Steps)
           /\ \A n \in DOMAIN Hooks!Mine[m] : StepOf(m, Hooks!Mine[m][n])
           /\ m \notin Hooks!Refused => Hooks!Mine[m] # <<>> /\ Hooks!Mine[m][1].slot = m
<1>1. CASE m = "GetOpenFileNameW"
  <2>1. Hooks!Mine[m] = <<Hooks!Asking(m)>>
    BY <1>1 DEF Hooks!Mine, Hooks!Forwarding, Hooks!GetOpenFileNameW_Mine
  <2> QED BY <1>1, <2>1 DEF StepOf, Hooks!Asking, Hooks!Steps
<1>2. CASE m = "GetClipboardData"
  <2>1. Hooks!Mine[m] = <<Hooks!Through(m), Hooks!Through(m), Hooks!Asking("DragQueryFileW")>>
    BY <1>2 DEF Hooks!Mine, Hooks!Forwarding, Hooks!GetClipboardData_Mine
  <2> QED BY <1>2, <2>1, ListedNames DEF StepOf, Hooks!Asking, Hooks!Through, Hooks!Steps
<1>3. CASE m = "DoDragDrop"
  <2>1. Hooks!Mine[m] = <<>> BY <1>3 DEF Hooks!Mine, Hooks!Forwarding, Hooks!DoDragDrop_Mine
  <2> QED BY <1>3, <2>1 DEF StepOf, Hooks!Refused
<1>4. CASE m \in Dropped
  <2>1. Hooks!Mine[m] = <<Hooks!Through("DragQueryFileW")>>
    BY <1>4 DEF Hooks!Mine, Hooks!Forwarding, Hooks!IDropTarget_Mine, Dropped
  <2> QED BY <1>4, <2>1, ListedNames DEF StepOf, Hooks!Through, Hooks!Steps, Hooks!Refused, Dropped
<1>5. CASE m \notin {"GetOpenFileNameW", "GetClipboardData", "DoDragDrop"} \cup Dropped
  <2>1. Hooks!Mine[m] = <<Hooks!Through(m)>>
    BY <1>5 DEF Hooks!Mine, Hooks!Forwarding, Dropped
  <2> QED BY <1>5, <2>1 DEF StepOf, Hooks!Through, Hooks!Steps
<1> QED BY <1>1, <1>2, <1>3, <1>4, <1>5

LEMMA ListedSeq == Hooks!Listed \in Seq([proc : Hooks!Proc, as : Hooks!Proc])
<1>1. \A n \in 1..15 : Hooks!Listed[n] \in [proc : Hooks!Proc, as : Hooks!Proc] BY ListedNames
<1>2. Hooks!Listed = [n \in 1..15 |-> Hooks!Listed[n]] BY ListedEntries DEF Hooks!Listed
<1> QED BY <1>1, <1>2

LEMMA NULLIn == Hooks!NULL \in Hooks!Slots /\ Hooks!NULL.to = "nothing"
  BY DEF Hooks!Slots, Hooks!NULL

LEMMA SlotTypes ==
    ASSUME NEW s \in Hooks!Slots
    PROVE  /\ s # Hooks!NULL <=> s.to # "nothing"
           /\ s.to \in Hooks!Proc \cup {"nothing"} /\ s.past \in BOOLEAN
           /\ s.past => s = Hooks!Past(s.to) /\ s.to \in Hooks!Proc
<1>1. "nothing" \notin Hooks!Proc /\ Hooks!NULL.to = "nothing" /\ Hooks!NULL.past = FALSE
  BY ListedNames DEF Hooks!NULL
<1>2. CASE s = Hooks!NULL BY <1>1, <1>2
<1>3. ASSUME NEW f \in Hooks!Proc, s = Hooks!Entry(f)
      PROVE  s # Hooks!NULL /\ s.to = f /\ ~s.past /\ s.past \in BOOLEAN
  BY <1>1, <1>3 DEF Hooks!Entry
<1>4. ASSUME NEW f \in Hooks!Proc, s = Hooks!Past(f)
      PROVE  s # Hooks!NULL /\ s.to = f /\ s.past /\ s.past \in BOOLEAN /\ s = Hooks!Past(s.to)
  BY <1>1, <1>4 DEF Hooks!Past
<1>5. s = Hooks!NULL \/ (\E f \in Hooks!Proc : s = Hooks!Entry(f))
      \/ (\E f \in Hooks!Proc : s = Hooks!Past(f))
  BY DEF Hooks!Slots
<1>6. CASE \E f \in Hooks!Proc : s = Hooks!Entry(f) BY <1>1, <1>3, <1>6
<1>7. CASE \E f \in Hooks!Proc : s = Hooks!Past(f) BY <1>1, <1>4, <1>7
<1> QED BY <1>2, <1>5, <1>6, <1>7

LEMMA ListTypes ==
    ASSUME HooksInv
    PROVE  /\ apis \in Seq([proc : Hooks!Proc, as : Hooks!Proc])
           /\ DOMAIN apis = 1..Len(apis) /\ Len(apis) \in Nat
           /\ \A n \in 1..Len(apis) : apis[n].proc \in Hooks!Proc /\ apis[n].as \in Hooks!Proc
<1>1. apis \in Seq([proc : Hooks!Proc, as : Hooks!Proc]) BY DEF HooksInv, Hooks!TypeOK
<1>2. DOMAIN apis = 1..Len(apis) /\ Len(apis) \in Nat BY <1>1, Elements
<1>3. \A n \in 1..Len(apis) : apis[n] \in [proc : Hooks!Proc, as : Hooks!Proc] BY <1>1, Elements
<1> QED BY <1>1, <1>2, <1>3

LEMMA CallFields ==
    ASSUME NEW a, NEW m, NEW t, NEW r, NEW g, NEW x,
           NEW c, c = [api |-> a, mine |-> m, todo |-> t, reached |-> r, registering |-> g]
    PROVE  /\ [c EXCEPT !.todo = x]
                = [api |-> a, mine |-> m, todo |-> x, reached |-> r, registering |-> g]
           /\ [c EXCEPT !.reached = x]
                = [api |-> a, mine |-> m, todo |-> t, reached |-> x, registering |-> g]
           /\ [c EXCEPT !.registering = x]
                = [api |-> a, mine |-> m, todo |-> t, reached |-> r, registering |-> x]
OBVIOUS

LEMMA NobodyCalls ==
    ASSUME NEW f \in Hooks!Proc
    PROVE  Hooks!NoCall.api # f /\ Hooks!NoCall.mine # f /\ Hooks!NoCall.registering = 0
BY ListedNames DEF Hooks!NoCall

LEMMA CallTypes ==
    ASSUME HooksInv, call # Hooks!NoCall
    PROVE  /\ call.api \in Hooks!Proc /\ call.mine \in Hooks!Proc /\ call.todo \in Seq(Hooks!Steps)
           /\ call.reached \subseteq Hooks!Proc /\ call.registering \in 0..2
           /\ call = [api |-> call.api, mine |-> call.mine, todo |-> call.todo,
                      reached |-> call.reached, registering |-> call.registering]
BY DEF HooksInv, Hooks!TypeOK

-----------------------------------------------------------------------------
(* Attaching.                                                                *)

\* Whose X_Mine and slot hook() gives to f.
AsOf(f) == IF f = "MoveFileW" THEN "CopyFileW" ELSE f

\* What hooking f may do to the code and the slots, however far it gets.
Hooking(f) ==
    /\ slot' \in [Hooks!Proc -> Hooks!Slots] /\ code' \in [Hooks!Proc -> Hooks!Proc \cup {"itself"}]
    /\ \A m \in Hooks!Proc \ {AsOf(f)} : slot'[m] = slot[m]
    /\ \/ slot'[AsOf(f)].to = f
       \/ slot'[AsOf(f)].to = "nothing" /\ f \in MayFail
       \/ slot'[AsOf(f)] = slot[AsOf(f)]
    /\ \A g \in Hooks!Proc \ {f} : code'[g] = code[g]
    /\ \/ code'[f] = code[f]
       \/ code'[f] = AsOf(f) /\ slot'[AsOf(f)].past /\ slot'[AsOf(f)].to = f

LEMMA AttachHooks ==
    ASSUME HooksInv, NEW t, NEW f \in Hooks!Proc, Hooks!Attach(t, f, AsOf(f))
    PROVE  Hooking(f) /\ failures' \in Nat
<1>1. AsOf(f) \in Hooks!Proc BY ListedNames DEF AsOf
<1>2. Hooks!Past(f) \in Hooks!Slots BY DEF Hooks!Slots
<1>3. Hooks!Past(f).to = f /\ Hooks!Past(f).past BY DEF Hooks!Past
<1>4. /\ code \in [Hooks!Proc -> Hooks!Proc \cup {"itself"}] /\ slot \in [Hooks!Proc -> Hooks!Slots]
      /\ failures \in Nat
  BY DEF HooksInv, Hooks!TypeOK
<1>5. failures' \in Nat BY <1>4 DEF Hooks!Attach, Hooks!Failure
<1>6. CASE /\ code' \in {code, [code EXCEPT ![f] = AsOf(f)]}
           /\ slot' = [slot EXCEPT ![AsOf(f)] = Hooks!Past(f)]
  BY <1>1, <1>2, <1>3, <1>4, <1>5, <1>6 DEF Hooking
<1>7. CASE UNCHANGED <<code, slot>> BY <1>4, <1>5, <1>7 DEF Hooking
<1>8. f \in Unheld \ Hooks!Method => [code EXCEPT ![f] = code[f]] = code BY <1>4
<1> QED BY <1>6, <1>7, <1>8 DEF Hooks!Attach, Hooks!entries

\* To look a function up is to hook it as far as its slot.
LEMMA LookingUpHooks ==
    ASSUME HooksInv, NEW f \in Hooks!Proc, UNCHANGED code,
           \/ slot' = [slot EXCEPT ![AsOf(f)] = Hooks!Entry(f)]
           \/ f \in MayFail /\ slot' \in {slot, [slot EXCEPT ![AsOf(f)] = Hooks!NULL]}
           \/ UNCHANGED slot
    PROVE  Hooking(f)
<1>1. AsOf(f) \in Hooks!Proc BY ListedNames DEF AsOf
<1>2. Hooks!Entry(f) \in Hooks!Slots /\ Hooks!Entry(f).to = f BY DEF Hooks!Slots, Hooks!Entry
<1>3. code \in [Hooks!Proc -> Hooks!Proc \cup {"itself"}] /\ slot \in [Hooks!Proc -> Hooks!Slots]
  BY DEF HooksInv, Hooks!TypeOK
<1>4. CASE slot' = [slot EXCEPT ![AsOf(f)] = Hooks!Entry(f)] BY <1>1, <1>2, <1>3, <1>4 DEF Hooking
<1>5. CASE f \in MayFail /\ slot' = [slot EXCEPT ![AsOf(f)] = Hooks!NULL]
  BY <1>1, <1>3, <1>5, NULLIn DEF Hooking
<1>6. CASE UNCHANGED slot BY <1>3, <1>6 DEF Hooking
<1> QED BY <1>4, <1>5, <1>6

\* A transaction begins, unless the other thread's is under way.
LEMMA BeginTurn ==
    ASSUME HooksInv, NEW t \in Hooks!Thread, Hooks!Idle(t), Hooks!Begin(t)
    PROVE  /\ doing' \in [Hooks!Thread -> {"nothing", "transaction"} \cup Hooks!Pushes]
           /\ pending' \in Hooks!Thread \cup {"nobody"} /\ failures' \in Nat
           /\ doing'[t] = "transaction" /\ \A s \in Hooks!Thread \ {t} : doing'[s] = doing[s]
           /\ pending' # "nobody" => doing'[pending'] = "transaction"
           /\ pending' = t \/ (pending \in Hooks!Thread \ {t} /\ pending' = pending)
<1>1. /\ doing \in [Hooks!Thread -> {"nothing", "transaction"} \cup Hooks!Pushes]
      /\ pending \in Hooks!Thread \cup {"nobody"} /\ failures \in Nat
      /\ pending # "nobody" => doing[pending] = "transaction"
  BY DEF HooksInv, Hooks!TypeOK, Turns
<1>2. doing' = [doing EXCEPT ![t] = "transaction"] /\ doing[t] = "nothing"
  BY DEF Hooks!Begin, Hooks!Idle
<1>3. \/ pending = "nobody" /\ pending' = t /\ UNCHANGED failures
      \/ pending # "nobody" /\ UNCHANGED pending /\ failures' = failures + 1
  BY DEF Hooks!Begin, Hooks!Failure
<1>4. t # "nobody" BY DEF Hooks!Thread
<1> QED BY <1>1, <1>2, <1>3, <1>4

LEMMA CommitTurn ==
    ASSUME HooksInv, NEW t \in Hooks!Thread, Hooks!Commit(t),
           \A s \in Hooks!Thread \ {t} : doing[s] = "transaction" => doing'[s] = "transaction"
    PROVE  /\ pending' \in Hooks!Thread \cup {"nobody"} /\ pending' # t
           /\ pending' # "nobody" => doing'[pending'] = "transaction"
<1>1. /\ pending \in Hooks!Thread \cup {"nobody"}
      /\ pending # "nobody" => doing[pending] = "transaction"
  BY DEF HooksInv, Hooks!TypeOK, Turns
<1>2. t # "nobody" BY DEF Hooks!Thread
<1> QED BY <1>1, <1>2 DEF Hooks!Commit

\* A thread is in push_back, and what of the other's is left may be lost.
LEMMA PushTurn ==
    ASSUME HooksInv, NEW t \in Hooks!Thread, doing[t] = "transaction", Hooks!StartPush(t)
    PROVE  /\ doing' \in [Hooks!Thread -> {"nothing", "transaction"} \cup Hooks!Pushes]
           /\ doing'[t] \in Hooks!Pushes /\ died' \in {died, "apis"}
           /\ \A s \in Hooks!Thread \ {t} :
                 /\ doing[s] \in Hooks!Pushes => doing'[s] \in Hooks!Pushes
                 /\ doing[s] \notin Hooks!Pushes => doing'[s] = doing[s] /\ doing'[t] = "push"
<1>1. doing \in [Hooks!Thread -> {"nothing", "transaction"} \cup Hooks!Pushes]
  BY DEF HooksInv, Hooks!TypeOK
<1>2. CASE doing' = [doing EXCEPT ![t] = "push"] /\ died' \in {died, "apis"}
  BY <1>1, <1>2 DEF Hooks!Pushes
<1>3. CASE /\ doing' \in [Hooks!Thread -> Hooks!Pushes] /\ UNCHANGED died
           /\ \E other \in Hooks!Thread \ {t} : doing[other] \in Hooks!Pushes
  <2>1. doing' \in [Hooks!Thread -> {"nothing", "transaction"} \cup Hooks!Pushes]
        /\ \A s \in Hooks!Thread : doing'[s] \in Hooks!Pushes
    BY <1>3
  <2>2. \A s \in Hooks!Thread \ {t} : doing[s] \in Hooks!Pushes BY <1>3 DEF Hooks!Thread
  <2> QED BY <1>3, <2>1, <2>2
<1> QED BY <1>2, <1>3 DEF Hooks!StartPush

\* The list has one more, or has not and that is remembered.
LEMMA PushEnds ==
    ASSUME HooksInv, NEW t \in Hooks!Thread, NEW f \in Hooks!Proc, AsOf(f) = f, Hooks!EndPush(t, f)
    PROVE  /\ doing' \in [Hooks!Thread -> {"nothing", "transaction"} \cup Hooks!Pushes]
           /\ doing[t] \in Hooks!Pushes /\ doing'[t] = "nothing"
           /\ \A s \in Hooks!Thread \ {t} : doing'[s] = doing[s]
           /\ apis' \in Seq([proc : Hooks!Proc, as : Hooks!Proc]) /\ Len(apis) <= Len(apis')
           /\ \A n \in DOMAIN apis : n \in DOMAIN apis' /\ apis'[n] = apis[n]
           /\ kept' \subseteq Hooks!Proc /\ kept \subseteq kept' /\ kept' \subseteq kept \cup {f}
           /\ \/ f \in kept' /\ doing[t] = "lost push"
              \/ /\ \E n \in DOMAIN apis' : n > Len(apis) /\ apis'[n].proc = f /\ apis'[n].as = f
                 /\ UNCHANGED kept
<1>1. /\ doing \in [Hooks!Thread -> {"nothing", "transaction"} \cup Hooks!Pushes]
      /\ kept \subseteq Hooks!Proc
  BY DEF HooksInv, Hooks!TypeOK
<1>2. doing[t] \in Hooks!Pushes /\ doing' = [doing EXCEPT ![t] = "nothing"] BY DEF Hooks!EndPush
<1>3. apis \in Seq([proc : Hooks!Proc, as : Hooks!Proc]) /\ Len(apis) \in Nat BY ListTypes
<1>4. /\ doing' \in [Hooks!Thread -> {"nothing", "transaction"} \cup Hooks!Pushes]
      /\ doing'[t] = "nothing" /\ \A s \in Hooks!Thread \ {t} : doing'[s] = doing[s]
  BY <1>1, <1>2
<1>5. CASE apis' = Append(apis, Hooks!Own(f)) /\ UNCHANGED kept
  <2>1. /\ Hooks!Own(f) \in [proc : Hooks!Proc, as : Hooks!Proc]
        /\ Hooks!Own(f).proc = f /\ Hooks!Own(f).as = f
    BY DEF Hooks!Own, Hooks!Api
  <2>2. /\ apis' \in Seq([proc : Hooks!Proc, as : Hooks!Proc])
        /\ Len(apis') = Len(apis) + 1 /\ \A n \in 1..Len(apis) : apis'[n] = apis[n]
        /\ apis'[Len(apis) + 1] = Hooks!Own(f)
        /\ DOMAIN apis = 1..Len(apis) /\ DOMAIN apis' = 1..(Len(apis) + 1)
    BY <1>3, <1>5, <2>1, AppendFacts
  <2>3. \E n \in DOMAIN apis' : n > Len(apis) /\ apis'[n].proc = f /\ apis'[n].as = f
    <3>1. Len(apis) + 1 \in DOMAIN apis' /\ Len(apis) + 1 > Len(apis) BY <1>3, <2>2
    <3> QED BY <2>1, <2>2, <3>1
  <2>4. Len(apis) <= Len(apis') /\ \A n \in DOMAIN apis : n \in DOMAIN apis' /\ apis'[n] = apis[n]
    BY <1>3, <2>2
  <2>5. kept' \subseteq Hooks!Proc /\ kept \subseteq kept' /\ kept' \subseteq kept \cup {f}
    BY <1>1, <1>5
  <2> QED BY <1>2, <1>4, <1>5, <2>2, <2>3, <2>4, <2>5
<1>6. CASE doing[t] = "lost push" /\ kept' = kept \cup {f} /\ UNCHANGED apis
  <2>1. Len(apis) <= Len(apis') /\ \A n \in DOMAIN apis : n \in DOMAIN apis' /\ apis'[n] = apis[n]
    <3>1. apis' = apis /\ Len(apis) \in Nat BY <1>3, <1>6
    <3>2. Len(apis) <= Len(apis) BY <3>1
    <3> QED BY <3>1, <3>2, Zenon
  <2>2. /\ kept' \subseteq Hooks!Proc /\ kept \subseteq kept' /\ kept' \subseteq kept \cup {f}
        /\ f \in kept'
    BY <1>1, <1>6
  <2> QED BY <1>2, <1>3, <1>4, <1>6, <2>1, <2>2
<1> QED BY <1>5, <1>6 DEF Hooks!EndPush

\* Nothing that was in use before is disturbed when a fresh function is hooked.
LEMMA HookingKeeps ==
    ASSUME HooksInv, NEW f \in Hooks!Proc, Hooking(f), Fresh(f),
           f = "CopyFileW" => Fresh("MoveFileW"),
           call'.mine = call.mine, call'.api = call.api
    PROVE  /\ \A g \in Hooks!Proc : code'[g] \in {"itself", AsOf(g)}
           /\ OwnSlot'
           /\ \A g \in Hooks!Proc \ {"IFileOperation_CopyItems", "CopyFileW", f} :
                 code'[g] = code[g] /\ (~Hooks!Untouched(g) => slot'[code[g]] = slot[code[g]])
<1>1. Hooks!Untouched(f) /\ call.api # f BY DEF HooksInv, Started
<1>2. f = "CopyFileW" => Hooks!Untouched("MoveFileW") /\ call.api # "MoveFileW"
  BY ListedNames DEF HooksInv, Started
<1>3. AsOf(f) \in Hooks!Proc BY ListedNames DEF AsOf
<1>4. \A g \in Hooks!Proc : code'[g] \in {"itself", AsOf(g)}
  BY DEF Hooking, HooksInv, OwnCode, AsOf
<1>5. \A g \in Hooks!Proc \ {"IFileOperation_CopyItems", "CopyFileW", f} :
         code'[g] = code[g] /\ (~Hooks!Untouched(g) => slot'[code[g]] = slot[code[g]])
  <2> SUFFICES ASSUME NEW g \in Hooks!Proc \ {"IFileOperation_CopyItems", "CopyFileW", f},
        ~Hooks!Untouched(g)
               PROVE  code[g] \in Hooks!Proc \ {AsOf(f)}
    BY DEF Hooking
  <2>1. code[g] \in Hooks!Proc BY DEF HooksInv, Hooks!TypeOK, Hooks!Untouched
  <2>2. code[g] = AsOf(g) BY DEF HooksInv, OwnCode, Hooks!Untouched, AsOf
  <2>3. AsOf(g) # AsOf(f) BY <1>2 DEF AsOf
  <2> QED BY <2>1, <2>2, <2>3
<1>6. \A m \in Hooks!Proc : slot'[m].to \in {"nothing", m}
      \cup IF m = "CopyFileW" THEN {"MoveFileW"} ELSE {}
  <2>1. CASE f = "MoveFileW" BY <2>1 DEF Hooking, AsOf, HooksInv, OwnSlot
  <2>2. CASE f # "MoveFileW" BY <2>2 DEF Hooking, AsOf, HooksInv, OwnSlot
  <2> QED BY <2>1, <2>2
<1>7. \A m \in Hooks!Proc : InUse(m)' =>
          slot'[m].to # "nothing" \/ (m = "CopyFileW" /\ "MoveFileW" \in MayFail)
  <2> SUFFICES ASSUME NEW m \in Hooks!Proc, InUse(m)',
                      slot'[m].to = "nothing"
               PROVE  m = "CopyFileW" /\ "MoveFileW" \in MayFail
    OBVIOUS
  <2>1. m # AsOf(f) => InUse(m)
    BY <1>1, <1>3 DEF InUse, Hooking
  <2>2. CASE m # AsOf(f) BY <2>1, <2>2 DEF Hooking, HooksInv, OwnSlot
  <2>3. CASE m = AsOf(f) /\ f = "MoveFileW"
    <3>1. m = "CopyFileW" BY <2>3 DEF AsOf
    <3>2. f # "nothing" BY ListedNames
    <3>3. CASE slot'[m] = slot[m]
      <4>1. InUse(m) \/ code'[f] = m BY <2>3 DEF InUse, Hooking
      <4>2. CASE InUse(m) BY <3>1, <3>3, <4>2 DEF HooksInv, OwnSlot
      <4>3. CASE code'[f] = m /\ ~InUse(m)
        BY <2>3, <3>2, <4>3 DEF Hooking, InUse
      <4> QED BY <4>1, <4>2, <4>3
    <3>4. CASE f \in MayFail BY <2>3, <3>1, <3>4
    <3> QED BY <2>3, <3>1, <3>2, <3>3, <3>4 DEF Hooking
  <2>4. CASE m = AsOf(f) /\ f # "MoveFileW"
    <3>1. m = f BY <2>4 DEF AsOf
    <3>2. call.mine # m
      <4>1. call # Hooks!NoCall => call.api \in Hooks!Proc /\ call.mine = AsOf(call.api)
        BY CallTypes DEF HooksInv, OwnCode, AsOf
      <4>2. Hooks!NoCall.mine # m BY NobodyCalls
      <4> QED BY <1>1, <1>2, <3>1, <4>1, <4>2 DEF AsOf
    <3>3. \A g \in Hooks!Proc \ {f} : code[g] # m
      BY <1>2, <3>1, ListedNames DEF HooksInv, OwnCode, Hooks!Untouched
    <3>4. code'[f] = m BY <3>2, <3>3, <3>1 DEF InUse, Hooking
    <3>5. code[f] # m BY <1>1, ListedNames DEF Hooks!Untouched
    <3>6. slot'[AsOf(f)].to = f BY <2>4, <3>4, <3>5 DEF Hooking
    <3> QED BY <2>4, <3>1, <3>6, ListedNames
  <2> QED BY <2>2, <2>3, <2>4
<1>8. (code'["MoveFileW"] # "itself" \/ call.api = "MoveFileW") =>
      slot'["CopyFileW"].to = "MoveFileW"
  <2>1. CASE f = "MoveFileW"
    <3>1. AsOf(f) = "CopyFileW" BY <2>1 DEF AsOf
    <3> QED BY <1>1, <2>1, <3>1 DEF Hooking, Hooks!Untouched
  <2>2. CASE f # "MoveFileW"
    <3>1. code'["MoveFileW"] = code["MoveFileW"] BY <2>2, ListedNames DEF Hooking
    <3>2. AsOf(f) = f BY <2>2 DEF AsOf
    <3> QED BY <1>2, <3>1, <3>2, ListedNames DEF Hooking, HooksInv, OwnSlot, Hooks!Untouched
  <2> QED BY <2>1, <2>2
<1> QED BY <1>4, <1>5, <1>6, <1>7, <1>8 DEF OwnSlot, Hooks!Untouched

\* What that keeps of the invariant.
LEMMA HookingStep ==
    ASSUME HooksInv, NEW f \in Hooks!Proc, Hooking(f), Fresh(f), UNCHANGED call,
           f = "CopyFileW" => Fresh("MoveFileW")
    PROVE  /\ OwnCode' /\ OwnSlot' /\ CallsOn'
           /\ \A g \in Hooks!Proc \ {"IFileOperation_CopyItems", "CopyFileW", f} :
                 code'[g] = code[g] /\ (~Hooks!Untouched(g) => slot'[code[g]] = slot[code[g]])
           /\ code'[f] # "itself" =>
                 code'[f] = AsOf(f) /\ slot'[AsOf(f)].past /\ slot'[AsOf(f)].to = f
           /\ \A g \in Hooks!Proc \ {f} : code'[g] = code[g]
           /\ \A g \in Hooks!Proc : Fresh(g) => code[g] = "itself" /\ call.api # g
<1>1. /\ \A g \in Hooks!Proc : code'[g] \in {"itself", AsOf(g)}
      /\ OwnSlot'
      /\ \A g \in Hooks!Proc \ {"IFileOperation_CopyItems", "CopyFileW", f} :
            code'[g] = code[g] /\ (~Hooks!Untouched(g) => slot'[code[g]] = slot[code[g]])
  BY HookingKeeps
<1>2. OwnCode' BY <1>1 DEF HooksInv, OwnCode, AsOf
<1>3. CallsOn' BY DEF HooksInv, CallsOn
<1>4. \A g \in Hooks!Proc : Fresh(g) => code[g] = "itself" /\ call.api # g
  BY DEF HooksInv, Started, Hooks!Untouched
<1>5. code'[f] # "itself" => code'[f] = AsOf(f) /\ slot'[AsOf(f)].past /\ slot'[AsOf(f)].to = f
  BY <1>4 DEF Hooking
<1> QED BY <1>1, <1>2, <1>3, <1>4, <1>5 DEF Hooking

\* What was to be detached still is, and so is what has been attached.
LEMMA DetachableKept ==
    ASSUME HooksInv, NEW f \in Hooks!Proc, UNCHANGED <<apis, kept>>,
           \A g \in Hooks!Proc \ {"IFileOperation_CopyItems", "CopyFileW", f} :
              code'[g] = code[g] /\ (~Hooks!Untouched(g) => slot'[code[g]] = slot[code[g]]),
           hooking' = "detaching" => hooking = "detaching" /\ at' = at,
           hooking' = "unhooked" => hooking = "unhooked" /\ last' = last,
           \A g \in Hooks!Proc : Arriving(g) => Arriving(g)',
           \/ f \in {"IFileOperation_CopyItems", "CopyFileW"}
           \/ code'[f] = "itself"
           \/ slot'[code'[f]].past /\ slot'[code'[f]].to = f /\ (Arriving(f)' \/ Arrived(f)')
    PROVE  Detachable'
<1> SUFFICES ASSUME NEW g \in Hooks!Proc \ (kept \cup {"IFileOperation_CopyItems", "CopyFileW"}),
                    code'[g] # "itself"
             PROVE  slot'[code'[g]].past /\ slot'[code'[g]].to = g /\ (Arriving(g)' \/ Arrived(g)')
  BY DEF Detachable, Hooks!Untouched
<1>1. CASE g = f BY <1>1
<1>2. CASE g # f
  <2>1. code'[g] = code[g] /\ code[g] # "itself" /\ slot'[code[g]] = slot[code[g]]
    BY <1>2 DEF Hooks!Untouched
  <2>2. slot[code[g]].past /\ slot[code[g]].to = g /\ (Arriving(g) \/ Arrived(g))
    BY <2>1 DEF HooksInv, Detachable, Hooks!Untouched
  <2>3. Arrived(g) => Arrived(g)' BY <2>1 DEF Arrived
  <2> QED BY <2>1, <2>2, <2>3
<1> QED BY <1>1, <1>2

-----------------------------------------------------------------------------
(* Turns.                                                                    *)

LEMMA Threads ==
    /\ "hook" \in Hooks!Thread /\ "app" \in Hooks!Thread
    /\ \A t \in Hooks!Thread : t # "nobody" /\ (t = "hook" \/ t = "app")
BY DEF Hooks!Thread

LEMMA DoingTypes ==
    ASSUME HooksInv
    PROVE  /\ doing \in [Hooks!Thread -> {"nothing", "transaction"} \cup Hooks!Pushes]
           /\ \A t \in Hooks!Thread : doing[t] \in {"nothing", "transaction"} \cup Hooks!Pushes
           /\ "nothing" \notin Hooks!Pushes /\ "transaction" \notin Hooks!Pushes
           /\ pending \in Hooks!Thread \cup {"nobody"} /\ kept \subseteq Hooks!Proc
           /\ failures \in Nat
BY DEF HooksInv, Hooks!TypeOK, Hooks!Pushes

\* hook() and unhook() begin a transaction.
LEMMA HookBegins ==
    ASSUME HooksInv, Hooks!Idle("hook"), Hooks!Begin("hook"), UNCHANGED <<once, call, kept>>,
           hooking' \notin {"hooked", "unhooked"}
    PROVE  /\ Turns' /\ failures' \in Nat /\ pending' \in Hooks!Thread \cup {"nobody"}
           /\ doing' \in [Hooks!Thread -> {"nothing", "transaction"} \cup Hooks!Pushes]
           /\ doing'["hook"] = "transaction" /\ doing["hook"] = "nothing"
           /\ doing'["app"] = doing["app"]
<1>1. /\ doing' \in [Hooks!Thread -> {"nothing", "transaction"} \cup Hooks!Pushes]
      /\ pending' \in Hooks!Thread \cup {"nobody"} /\ failures' \in Nat
      /\ doing'["hook"] = "transaction"
      /\ \A s \in Hooks!Thread \ {"hook"} : doing'[s] = doing[s]
      /\ pending' # "nobody" => doing'[pending'] = "transaction"
      /\ pending' = "hook" \/ (pending \in Hooks!Thread \ {"hook"} /\ pending' = pending)
  BY BeginTurn, Threads
<1>2. doing'["app"] = doing["app"] BY <1>1 DEF Hooks!Thread
<1>3. pending = "app" => Disturbed
  BY DEF HooksInv, Turns, Disturbed
<1>4. ~Disturbed' => ~Disturbed /\ pending' = "hook" BY <1>1, <1>3, Threads DEF Disturbed
<1>5. Turns' BY <1>1, <1>2, <1>4, DoingTypes DEF HooksInv, Turns
<1> QED BY <1>1, <1>2, <1>5 DEF Hooks!Idle

\* They have committed what they attached or detached.
LEMMA HookCommits ==
    ASSUME HooksInv, ~Hooks!Idle("hook"), doing["hook"] \notin Hooks!Pushes,
           Hooks!Commit("hook"), doing' = [doing EXCEPT !["hook"] = "nothing"],
           UNCHANGED <<once, call>>,
           kept' \subseteq kept \/ Disturbed \/ kept' \subseteq kept \cup MayFail
    PROVE  /\ Turns' /\ pending' \in Hooks!Thread \cup {"nobody"}
           /\ doing' \in [Hooks!Thread -> {"nothing", "transaction"} \cup Hooks!Pushes]
           /\ doing["hook"] = "transaction" /\ doing'["hook"] = "nothing"
           /\ doing'["app"] = doing["app"]
<1>1. /\ doing' \in [Hooks!Thread -> {"nothing", "transaction"} \cup Hooks!Pushes]
      /\ doing'["hook"] = "nothing" /\ doing'["app"] = doing["app"]
      /\ doing["hook"] = "transaction"
      /\ \A s \in Hooks!Thread \ {"hook"} : doing'[s] = doing[s]
  BY DoingTypes, Threads DEF Hooks!Idle
<1>2. /\ pending' \in Hooks!Thread \cup {"nobody"}
      /\ pending' # "nobody" => doing'[pending'] = "transaction"
  BY <1>1, CommitTurn, Threads
<1>3. ~Disturbed' => ~Disturbed BY DEF Disturbed
<1>4. Turns' BY <1>1, <1>2, <1>3, DoingTypes DEF HooksInv, Turns
<1> QED BY <1>1, <1>2, <1>4

\* A function that is fresh was so before.
LEMMA FreshKept ==
    ASSUME NEW f, UNCHANGED <<at, hooking>>, Fresh(f)', once' => once,
           call'.registering = call.registering \/ call.registering = 0,
           \A t \in Hooks!Thread : doing[t] \in Hooks!Pushes => doing'[t] \in Hooks!Pushes
    PROVE  Fresh(f)
<1>1. Waiting(f)' <=> Waiting(f) BY DEF Waiting
<1>2. /\ doing["hook"] \in Hooks!Pushes => doing'["hook"] \in Hooks!Pushes
      /\ doing["app"] \in Hooks!Pushes => doing'["app"] \in Hooks!Pushes
  BY Threads
<1>3. CASE hooking = "before" \/ (hooking = "attaching" /\ Waiting(f)) BY <1>3 DEF Fresh
<1>4. CASE hooking = "attaching" /\ f = "IFileOperation_CopyItems" BY <1>4 DEF Fresh
<1>5. CASE /\ hooking \in {"attaching", "operation hooked"} /\ f = "IFileDialog_Show"
           /\ doing'["hook"] \notin Hooks!Pushes
  BY <1>2, <1>5 DEF Fresh
<1>6. CASE /\ once' /\ f = "IDropTarget_DragEnter"
           /\ ~(call'.registering = 2 /\ doing'["app"] \in Hooks!Pushes)
  <2>1. ~(call.registering = 2 /\ doing["app"] \in Hooks!Pushes)
    BY <1>2, <1>6
  <2> QED BY <1>6, <2>1 DEF Fresh
<1>7. CASE /\ once' /\ f = "IDropTarget_Drop" /\ call'.registering # 2
           /\ ~(call'.registering = 1 /\ doing'["app"] \in Hooks!Pushes)
  <2>1. call.registering # 2 /\ ~(call.registering = 1 /\ doing["app"] \in Hooks!Pushes)
    BY <1>2, <1>7
  <2> QED BY <1>7, <2>1 DEF Fresh
<1>8. Fresh(f)' <=>
      \/ hooking' = "before"
      \/ hooking' = "attaching" /\ Waiting(f)'
      \/ hooking' = "attaching" /\ f = "IFileOperation_CopyItems"
      \/ /\ hooking' \in {"attaching", "operation hooked"} /\ f = "IFileDialog_Show"
         /\ doing'["hook"] \notin Hooks!Pushes
      \/ /\ once' /\ f = "IDropTarget_DragEnter"
         /\ ~(call'.registering = 2 /\ doing'["app"] \in Hooks!Pushes)
      \/ /\ once' /\ f = "IDropTarget_Drop" /\ call'.registering # 2
         /\ ~(call'.registering = 1 /\ doing'["app"] \in Hooks!Pushes)
  BY DEF Fresh
<1> QED BY <1>1, <1>3, <1>4, <1>5, <1>6, <1>7, <1>8

-----------------------------------------------------------------------------
(* The steps of hook() and unhook().                                         *)

LEMMA HooksStart == Hooks!Init => HooksInv
<1> SUFFICES ASSUME Hooks!Init PROVE HooksInv OBVIOUS
<1>1. hooking = "before" /\ call = Hooks!NoCall /\ once /\ died = "no" /\ call.registering = 0
  BY DEF Hooks!Init, Hooks!NoCall
<1>2. \A f \in Hooks!Proc : code[f] = "itself" /\ slot[f] = Hooks!NULL BY DEF Hooks!Init
<1>3. Hooks!TypeOK BY NULLIn DEF Hooks!Init, Hooks!TypeOK
<1>4. Started BY <1>1, <1>2, NobodyCalls DEF Started, Hooks!Untouched
<1>5. ListBegins BY <1>1 DEF ListBegins
<1>6. OwnCode BY <1>1, <1>2 DEF OwnCode
<1>7. OwnSlot
  <2>1. \A m \in Hooks!Proc : ~InUse(m) /\ slot[m].to = "nothing"
    BY <1>1, <1>2, NobodyCalls, ListedNames DEF InUse, Hooks!NULL
  <2> QED BY <1>1, <1>2, <2>1, NobodyCalls, ListedNames DEF OwnSlot, Hooks!Untouched
<1>8. CallsOn BY <1>1 DEF CallsOn
<1>9. Deaths BY <1>1 DEF Deaths
<1>10. Turns
  <2>1. doing["hook"] = "nothing" /\ doing["app"] = "nothing" BY Threads DEF Hooks!Init
  <2>2. pending = "nobody" /\ kept = {} BY DEF Hooks!Init
  <2> QED BY <1>1, <2>1, <2>2 DEF Turns, Hooks!Pushes
<1>11. Detachable BY <1>2 DEF Detachable, Hooks!Untouched
<1> QED BY <1>3, <1>4, <1>5, <1>6, <1>7, <1>8, <1>9, <1>10, <1>11 DEF HooksInv

LEMMA HookStep == HooksInv /\ Hooks!Hook => HooksInv'
<1> SUFFICES ASSUME HooksInv, Hooks!Hook PROVE HooksInv' OBVIOUS
<1>1. /\ UNCHANGED <<code, slot, once, call, died, doing, pending, failures, kept>>
      /\ hooking = "before" /\ hooking' = "attaching"
      /\ apis' = Hooks!Listed /\ at' = 1 /\ last' = 15
  BY ListedEntries DEF Hooks!Hook, Hooks!BeginLoop, Hooks!entries, Hooks!detours
<1>2. \A f \in Hooks!Proc : Hooks!Untouched(f) /\ call.api # f
  BY <1>1 DEF HooksInv, Started, Fresh, Waiting
<1>3. Hooks!TypeOK'
  <2>1. Hooks!Listed \in Seq([proc : Hooks!Proc, as : Hooks!Proc]) BY ListedSeq
  <2> QED BY <1>1, <2>1 DEF HooksInv, Hooks!TypeOK
<1>4. Started' BY <1>1, <1>2 DEF HooksInv, Started, Hooks!Untouched
<1>5. ListBegins' BY <1>1, ListedEntries DEF ListBegins
<1>6. OwnCode' /\ OwnSlot' /\ CallsOn' /\ Deaths'
  BY <1>1 DEF HooksInv, OwnCode, OwnSlot, InUse, Hooks!Untouched, CallsOn, Deaths
<1>7. Turns' BY <1>1 DEF HooksInv, Turns, Disturbed
<1>8. Detachable' BY <1>1, <1>2 DEF Detachable, Hooks!Untouched
<1> QED BY <1>3, <1>4, <1>5, <1>6, <1>7, <1>8 DEF HooksInv

\* What the loop of hook() has come to.
LEMMA Attaching ==
    ASSUME HooksInv, hooking = "attaching", at <= last
    PROVE  /\ at \in 1..15 /\ last = 15 /\ apis[at] = Hooks!Listed[at] /\ at \in DOMAIN apis
           /\ apis[at].proc \in Hooks!Proc \ Hooks!Method /\ apis[at].as = AsOf(apis[at].proc)
           /\ Fresh(apis[at].proc) /\ (apis[at].proc = "CopyFileW" => Fresh("MoveFileW"))
           /\ doing["hook"] \notin Hooks!Pushes
<1>1. /\ last = Len(Hooks!Listed) /\ at \in 1..(last + 1) /\ Len(Hooks!Listed) <= Len(apis)
      /\ \A n \in DOMAIN Hooks!Listed : apis[n] = Hooks!Listed[n]
  BY DEF HooksInv, ListBegins
<1>2. at \in 1..15 /\ last = 15 /\ apis[at] = Hooks!Listed[at] /\ 15 <= Len(apis)
  BY <1>1, ListedEntries
<1>3. at \in DOMAIN apis BY <1>2, ListTypes
<1>4. apis[at].proc \in Hooks!Proc \ Hooks!Method /\ apis[at].as = AsOf(apis[at].proc)
  BY <1>2, ListedNames DEF AsOf
<1>5. Fresh(apis[at].proc) BY <1>2, ListedEntries DEF Fresh, Waiting
<1>6. apis[at].proc = "CopyFileW" => Fresh("MoveFileW")
  <2> SUFFICES ASSUME apis[at].proc = "CopyFileW" PROVE Fresh("MoveFileW") OBVIOUS
  <2>1. at = 7 BY <1>2, ListedNames
  <2>2. Hooks!Listed[8].proc = "MoveFileW" BY ListedNames
  <2> QED BY <2>1, <2>2, ListedEntries DEF Fresh, Waiting
<1>7. doing["hook"] \notin Hooks!Pushes BY DEF HooksInv, Turns
<1> QED BY <1>2, <1>3, <1>4, <1>5, <1>6, <1>7

LEMMA HookNextStep == HooksInv /\ Hooks!HookNext => HooksInv'
<1> SUFFICES ASSUME HooksInv, Hooks!HookNext PROVE HooksInv' OBVIOUS
<1> DEFINE f == apis[at].proc
<1>1. /\ UNCHANGED <<code, apis, last, hooking, once, call, died, kept>>
      /\ hooking = "attaching" /\ at <= last /\ Hooks!Idle("hook")
  BY DEF Hooks!HookNext
<1>2. /\ at \in 1..15 /\ last = 15 /\ f \in Hooks!Proc /\ apis[at].as = AsOf(f) /\ Fresh(f)
      /\ f = "CopyFileW" => Fresh("MoveFileW")
  BY <1>1, Attaching
<1>3. \/ /\ slot' = [slot EXCEPT ![AsOf(f)] = Hooks!Entry(f)] /\ Hooks!Begin("hook") /\ at' = at
      \/ /\ f \in MayFail /\ slot' \in {slot, [slot EXCEPT ![AsOf(f)] = Hooks!NULL]}
         /\ at' = at + 1 /\ UNCHANGED <<doing, pending>> /\ failures' = failures + 1
  BY <1>2 DEF Hooks!HookNext, Hooks!Failure
<1>4. Hooking(f) BY <1>1, <1>2, <1>3, LookingUpHooks
<1>5. /\ OwnCode' /\ OwnSlot' /\ CallsOn'
      /\ \A g \in Hooks!Proc \ {"IFileOperation_CopyItems", "CopyFileW", f} :
            code'[g] = code[g] /\ (~Hooks!Untouched(g) => slot'[code[g]] = slot[code[g]])
      /\ \A g \in Hooks!Proc : Fresh(g) => code[g] = "itself" /\ call.api # g
  BY <1>1, <1>2, <1>4, HookingStep
<1>6. /\ Turns' /\ failures' \in Nat /\ pending' \in Hooks!Thread \cup {"nobody"}
      /\ doing' \in [Hooks!Thread -> {"nothing", "transaction"} \cup Hooks!Pushes]
      /\ doing["hook"] = "nothing" /\ doing'["hook"] \notin Hooks!Pushes
      /\ doing'["app"] = doing["app"]
  <2>1. CASE Hooks!Begin("hook") BY <1>1, <2>1, HookBegins, DoingTypes
  <2>2. CASE UNCHANGED <<doing, pending>> /\ failures' = failures + 1
    <3>1. Turns' BY <1>1, <2>2 DEF HooksInv, Turns, Disturbed
    <3>2. doing["hook"] = "nothing" BY <1>1 DEF Hooks!Idle
    <3> QED BY <2>2, <3>1, <3>2, DoingTypes
  <2> QED BY <1>3, <2>1, <2>2
<1>7. at' \in 1..16 /\ (at' = at \/ at' = at + 1) BY <1>2, <1>3
<1>8. Hooks!TypeOK'
  BY <1>1, <1>4, <1>6, <1>7 DEF Hooking, HooksInv, Hooks!TypeOK
<1>9. Started'
  <2>1. ASSUME NEW g \in Hooks!Proc, Fresh(g)' PROVE Fresh(g)
    <3>1. Waiting(g)' => Waiting(g) BY <1>2, <1>7, ListedEntries DEF Waiting
    <3> QED BY <1>1, <1>6, <2>1, <3>1, DoingTypes DEF Fresh
  <2> QED BY <1>1, <1>5, <2>1 DEF HooksInv, Started, Hooks!Untouched
<1>10. ListBegins'
  <2>1. /\ last = Len(Hooks!Listed) /\ Len(Hooks!Listed) <= Len(apis)
        /\ \A n \in DOMAIN Hooks!Listed : apis[n] = Hooks!Listed[n]
    BY <1>1 DEF HooksInv, ListBegins
  <2>2. at' \in 1..(last + 1) BY <1>2, <1>7
  <2> QED BY <1>1, <2>1, <2>2 DEF ListBegins
<1>11. Deaths' BY <1>1 DEF HooksInv, Deaths
<1>12. Detachable'
  <2>1. code'[f] = "itself" BY <1>1, <1>2, <1>5
  <2>2. \A g \in Hooks!Proc : Arriving(g) => Arriving(g)'
    BY <1>1, <1>6, DoingTypes DEF Arriving, Hooks!Registered
  <2> HIDE DEF f
  <2> QED BY <1>1, <1>2, <1>5, <2>1, <2>2, DetachableKept
<1> QED BY <1>5, <1>6, <1>8, <1>9, <1>10, <1>11, <1>12 DEF HooksInv

LEMMA DetourTargetProcStep == HooksInv /\ Hooks!DetourTargetProc => HooksInv'
<1> SUFFICES ASSUME HooksInv, Hooks!DetourTargetProc PROVE HooksInv' OBVIOUS
<1>0. PICK f : f = apis[at].proc OBVIOUS
<1>1. /\ UNCHANGED <<apis, last, hooking, once, call, died, kept>> /\ at' = at + 1
      /\ hooking = "attaching" /\ at <= last /\ ~Hooks!Idle("hook")
      /\ Hooks!Attach("hook", f, apis[at].as) /\ Hooks!Commit("hook")
      /\ doing' = [doing EXCEPT !["hook"] = "nothing"]
  BY <1>0 DEF Hooks!DetourTargetProc
<1>2. /\ at \in 1..15 /\ last = 15 /\ f \in Hooks!Proc \ Hooks!Method /\ apis[at].as = AsOf(f)
      /\ Fresh(f) /\ (f = "CopyFileW" => Fresh("MoveFileW"))
      /\ at \in DOMAIN apis /\ apis[at] = Hooks!Listed[at]
      /\ doing["hook"] \notin Hooks!Pushes
  BY <1>0, <1>1, Attaching
<1>3. Hooking(f) /\ failures' \in Nat BY <1>1, <1>2, AttachHooks
<1>4. /\ OwnCode' /\ OwnSlot' /\ CallsOn'
      /\ \A g \in Hooks!Proc \ {"IFileOperation_CopyItems", "CopyFileW", f} :
            code'[g] = code[g] /\ (~Hooks!Untouched(g) => slot'[code[g]] = slot[code[g]])
      /\ code'[f] # "itself" =>
            code'[f] = AsOf(f) /\ slot'[AsOf(f)].past /\ slot'[AsOf(f)].to = f
      /\ \A g \in Hooks!Proc \ {f} : code'[g] = code[g]
      /\ \A g \in Hooks!Proc : Fresh(g) => code[g] = "itself" /\ call.api # g
  BY <1>1, <1>2, <1>3, HookingStep
<1>5. /\ Turns' /\ pending' \in Hooks!Thread \cup {"nobody"}
      /\ doing' \in [Hooks!Thread -> {"nothing", "transaction"} \cup Hooks!Pushes]
      /\ doing'["hook"] = "nothing" /\ doing'["app"] = doing["app"]
  BY <1>1, <1>2, HookCommits
<1>6. Hooks!TypeOK' BY <1>1, <1>3, <1>5 DEF Hooking, HooksInv, Hooks!TypeOK
<1>7. Started'
  <2>1. ASSUME NEW g \in Hooks!Proc, Fresh(g)' PROVE code'[g] = "itself" /\ call.api # g
    <3>1. Waiting(g)' => Waiting(g) BY <1>1, <1>2, ListedEntries DEF Waiting
    <3>2. Fresh(g) BY <1>1, <1>2, <1>5, <2>1, <3>1 DEF Fresh
    <3>3. g # f
      <4> SUFFICES ASSUME g = f PROVE FALSE OBVIOUS
      <4>1. g \notin {"IFileOperation_CopyItems", "IFileDialog_Show", "IDropTarget_DragEnter",
                       "IDropTarget_Drop"}
        BY <1>2 DEF Hooks!Method
      <4>2. Waiting(g)' BY <1>1, <2>1, <4>1 DEF Fresh
      <4>3. PICK n \in (at + 1)..15 : g = Hooks!Listed[n].proc
        BY <1>1, <4>2, ListedEntries DEF Waiting
      <4>4. n \in 1..15 /\ n # at BY <1>2, <4>3
      <4> QED BY <1>0, <1>2, <4>3, <4>4, ListedOnce
    <3> QED BY <1>4, <3>2, <3>3
  <2> QED BY <1>1, <2>1 DEF HooksInv, Started, Hooks!Untouched
<1>8. ListBegins'
  <2>1. /\ last = Len(Hooks!Listed) /\ Len(Hooks!Listed) <= Len(apis)
        /\ \A n \in DOMAIN Hooks!Listed : apis[n] = Hooks!Listed[n]
    BY <1>1 DEF HooksInv, ListBegins
  <2>2. at' \in 1..(last + 1) BY <1>1, <1>2
  <2> QED BY <1>1, <2>1, <2>2 DEF ListBegins
<1>9. Deaths' BY <1>1 DEF HooksInv, Deaths
<1>10. Detachable'
  <2>1. code'[f] # "itself" => Arrived(f)' BY <1>0, <1>1, <1>2, <1>4 DEF Arrived
  <2>2. \A g \in Hooks!Proc : Arriving(g) => Arriving(g)'
    BY <1>1, <1>2, <1>5 DEF Arriving, Hooks!Registered
  <2> QED BY <1>1, <1>2, <1>4, <2>1, <2>2, DetachableKept
<1> QED BY <1>4, <1>5, <1>6, <1>7, <1>8, <1>9, <1>10 DEF HooksInv

LEMMA MethodNames ==
    \A f \in Hooks!Method : /\ f \in Hooks!Proc /\ AsOf(f) = f /\ f # "CopyFileW" /\ f # "MoveFileW"
                      /\ f # "RegisterDragDrop"
                      /\ \A n \in DOMAIN Hooks!Listed : f # Hooks!Listed[n].proc
BY ListedNames, ListedEntries DEF Hooks!Method, AsOf

LEMMA MethodsWaitNot ==
    ASSUME HooksInv, hooking = "attaching", NEW m \in Hooks!Method
    PROVE  ~Waiting(m)
<1>1. \A n \in at..Len(Hooks!Listed) : n \in DOMAIN Hooks!Listed
  <2>1. last = Len(Hooks!Listed) /\ at \in 1..(last + 1) BY DEF HooksInv, ListBegins
  <2>2. at \in 1..16 /\ Len(Hooks!Listed) = 15 /\ DOMAIN Hooks!Listed = 1..15
    BY <2>1, ListedEntries
  <2> QED BY <2>2
<1>2. \A n \in DOMAIN Hooks!Listed : m # Hooks!Listed[n].proc BY MethodNames
<1> QED BY <1>1, <1>2 DEF Waiting

LEMMA hookIFileOperationStep == HooksInv /\ Hooks!hookIFileOperation => HooksInv'
<1> SUFFICES ASSUME HooksInv, Hooks!hookIFileOperation PROVE HooksInv' OBVIOUS
<1> DEFINE f == "IFileOperation_CopyItems"
<1>1. /\ UNCHANGED <<apis, at, last, once, call, died, kept>>
      /\ hooking = "attaching" /\ hooking' \in {"attaching", "operation hooked"} /\ at > last
      /\ doing["hook"] \notin Hooks!Pushes
  BY DEF Hooks!hookIFileOperation, Hooks!loop, HooksInv, Turns
<1>2. f \in Hooks!Method /\ f \in Hooks!Proc /\ AsOf(f) = f /\ f # "CopyFileW"
  BY MethodNames DEF Hooks!Method
<1>3. \/ /\ Hooks!Idle("hook") /\ UNCHANGED <<code, hooking>> /\ Hooks!Begin("hook")
         /\ slot' = [slot EXCEPT ![f] = Hooks!Entry(f)]
      \/ /\ ~Hooks!Idle("hook") /\ hooking' = "operation hooked"
         /\ Hooks!Attach("hook", f, f) /\ Hooks!Commit("hook")
         /\ doing' = [doing EXCEPT !["hook"] = "nothing"]
      \/ /\ Hooks!Idle("hook") /\ hooking' = "operation hooked"
         /\ UNCHANGED <<code, slot, doing, pending, failures>>
  BY DEF Hooks!hookIFileOperation, Hooks!entries, Hooks!detours
<1> HIDE DEF f
<1>4. Hooking(f) /\ (~Hooks!Idle("hook") => failures' \in Nat)
  <2>1. CASE UNCHANGED code /\ slot' = [slot EXCEPT ![f] = Hooks!Entry(f)] /\ Hooks!Idle("hook")
    BY <1>2, <2>1, LookingUpHooks
  <2>2. CASE Hooks!Attach("hook", f, f) BY <1>2, <2>2, AttachHooks
  <2>3. CASE UNCHANGED <<code, slot>> /\ Hooks!Idle("hook") BY <1>2, <2>3, LookingUpHooks
  <2> QED BY <1>3, <2>1, <2>2, <2>3
<1>5. Fresh(f) BY <1>1 DEF Fresh, f
<1>6. /\ OwnCode' /\ OwnSlot' /\ CallsOn'
      /\ \A g \in Hooks!Proc \ {"IFileOperation_CopyItems", "CopyFileW", f} :
            code'[g] = code[g] /\ (~Hooks!Untouched(g) => slot'[code[g]] = slot[code[g]])
      /\ \A g \in Hooks!Proc \ {f} : code'[g] = code[g]
      /\ \A g \in Hooks!Proc : Fresh(g) => code[g] = "itself" /\ call.api # g
  BY <1>1, <1>2, <1>4, <1>5, HookingStep
<1>7. /\ Turns' /\ failures' \in Nat /\ pending' \in Hooks!Thread \cup {"nobody"}
      /\ doing' \in [Hooks!Thread -> {"nothing", "transaction"} \cup Hooks!Pushes]
      /\ doing'["hook"] \notin Hooks!Pushes /\ doing'["app"] = doing["app"]
  <2>1. CASE Hooks!Idle("hook") /\ Hooks!Begin("hook") BY <1>1, <2>1, HookBegins, DoingTypes
  <2>2. CASE /\ ~Hooks!Idle("hook") /\ Hooks!Commit("hook")
             /\ doing' = [doing EXCEPT !["hook"] = "nothing"]
    BY <1>1, <1>4, <2>2, HookCommits, DoingTypes
  <2>3. CASE /\ hooking' = "operation hooked" /\ UNCHANGED <<doing, pending, failures>>
    <3>1. Turns' BY <1>1, <2>3 DEF HooksInv, Turns, Disturbed
    <3> QED BY <1>1, <2>3, <3>1, DoingTypes
  <2> QED BY <1>3, <2>1, <2>2, <2>3
<1>8. Hooks!TypeOK' BY <1>1, <1>4, <1>7 DEF Hooking, HooksInv, Hooks!TypeOK
<1>9. Started'
  <2>1. ASSUME NEW g \in Hooks!Proc, Fresh(g)' PROVE code'[g] = "itself" /\ call.api # g
    <3>1. Waiting(g)' => Waiting(g) BY <1>1 DEF Waiting
    <3>2. Fresh(g) BY <1>1, <1>7, <2>1, <3>1 DEF Fresh
    <3>3. CASE UNCHANGED code BY <1>6, <3>2, <3>3
    <3>4. CASE hooking' = "operation hooked"
      <4>1. g # f BY <1>1, <2>1, <3>4 DEF Fresh, f
      <4> QED BY <1>6, <3>2, <4>1
    <3> QED BY <1>3, <3>3, <3>4
  <2> QED BY <1>1, <2>1 DEF HooksInv, Started, Hooks!Untouched
<1>10. ListBegins' BY <1>1 DEF HooksInv, ListBegins
<1>11. Deaths' BY <1>1 DEF HooksInv, Deaths
<1>12. Detachable'
  <2>1. \A g \in Hooks!Proc : Arriving(g) => Arriving(g)'
    BY <1>1, <1>7 DEF Arriving, Hooks!Registered
  <2> QED BY <1>1, <1>2, <1>6, <2>1, DetachableKept DEF f
<1> QED BY <1>6, <1>7, <1>8, <1>9, <1>10, <1>11, <1>12 DEF HooksInv

LEMMA FindIFileDialogStep == HooksInv /\ Hooks!FindIFileDialog => HooksInv'
<1> SUFFICES ASSUME HooksInv, Hooks!FindIFileDialog PROVE HooksInv' OBVIOUS
<1> DEFINE f == "IFileDialog_Show"
<1>1. /\ UNCHANGED <<code, apis, at, last, once, call, kept>>
      /\ hooking = "operation hooked" /\ hooking' \in {"operation hooked", "hooked"}
      /\ Hooks!Idle("hook") /\ died = "no" /\ doing["hook"] \notin Hooks!Pushes
  BY DoingTypes DEF Hooks!FindIFileDialog, Hooks!loop, Hooks!Alive, Hooks!Idle
<1>2. f \in Hooks!Method /\ f \in Hooks!Proc /\ AsOf(f) = f /\ f # "CopyFileW"
  BY MethodNames DEF Hooks!Method
<1>3. \/ /\ slot' = [slot EXCEPT ![f] = Hooks!Entry(f)] /\ Hooks!Begin("hook")
         /\ UNCHANGED <<hooking, died>>
      \/ /\ died' \in {died, "CoCreateInstance"} /\ UNCHANGED <<slot, doing, pending, failures>>
  BY DEF Hooks!FindIFileDialog, Hooks!detours
<1> HIDE DEF f
<1>4. Hooking(f) BY <1>1, <1>2, <1>3, LookingUpHooks
<1>5. Fresh(f) BY <1>1 DEF Fresh, f
<1>6. /\ OwnCode' /\ OwnSlot' /\ CallsOn'
      /\ \A g \in Hooks!Proc \ {"IFileOperation_CopyItems", "CopyFileW", f} :
            code'[g] = code[g] /\ (~Hooks!Untouched(g) => slot'[code[g]] = slot[code[g]])
      /\ \A g \in Hooks!Proc : Fresh(g) => code[g] = "itself" /\ call.api # g
  BY <1>1, <1>2, <1>4, <1>5, HookingStep
<1>7. /\ Turns' /\ failures' \in Nat /\ pending' \in Hooks!Thread \cup {"nobody"}
      /\ doing' \in [Hooks!Thread -> {"nothing", "transaction"} \cup Hooks!Pushes]
      /\ doing'["hook"] \notin Hooks!Pushes /\ doing'["app"] = doing["app"]
  <2>1. CASE Hooks!Begin("hook") /\ UNCHANGED hooking BY <1>1, <2>1, HookBegins, DoingTypes
  <2>2. CASE UNCHANGED <<doing, pending, failures>>
    <3>1. Turns' BY <1>1, <2>2 DEF HooksInv, Turns, Disturbed, Hooks!Idle
    <3> QED BY <1>1, <2>2, <3>1, DoingTypes
  <2> QED BY <1>3, <2>1, <2>2
<1>8. died' \in {"no", "CoCreateInstance"} BY <1>1, <1>3
<1>9. Hooks!TypeOK'
  <2>1. died' \in Hooks!Proc \cup {"no", "apis"} BY <1>8, ListedNames
  <2> QED BY <1>1, <1>4, <1>7, <2>1 DEF Hooking, HooksInv, Hooks!TypeOK
<1>10. Started'
  <2>1. ASSUME NEW g \in Hooks!Proc, Fresh(g)' PROVE Fresh(g)
    BY <1>1, <1>7, <2>1 DEF Fresh
  <2> QED BY <1>1, <1>6, <2>1 DEF HooksInv, Started, Hooks!Untouched
<1>11. ListBegins' BY <1>1 DEF HooksInv, ListBegins
<1>12. Deaths' BY <1>8 DEF Deaths
<1>13. Detachable'
  <2>1. code'[f] = "itself" BY <1>1, <1>2, <1>5, <1>6
  <2>2. \A g \in Hooks!Proc : Arriving(g) => Arriving(g)'
    BY <1>1, <1>7 DEF Arriving, Hooks!Registered
  <2> QED BY <1>1, <1>2, <1>6, <2>1, <2>2, DetachableKept
<1> QED BY <1>6, <1>7, <1>9, <1>10, <1>11, <1>12, <1>13 DEF HooksInv

\* A method that is pushed back arrives at the end of the list, or is lost.
LEMMA ListGrows ==
    ASSUME HooksInv, NEW t \in Hooks!Thread, NEW f \in Hooks!Method, Hooks!EndPush(t, f),
           UNCHANGED <<code, slot, at, last>>,
           hooking # "before", hooking' \in {hooking, "hooked"},
           doing'["hook"] \in {doing["hook"], "nothing"},
           \A g \in Hooks!Proc : g # f => (Arriving(g) => Arriving(g)')
    PROVE  ListBegins' /\ Detachable'
<1>1. f \in Hooks!Proc /\ AsOf(f) = f /\ f # "MoveFileW" BY MethodNames
<1>2. /\ Len(apis) <= Len(apis') /\ apis' \in Seq([proc : Hooks!Proc, as : Hooks!Proc])
      /\ \A n \in DOMAIN apis : n \in DOMAIN apis' /\ apis'[n] = apis[n]
      /\ kept \subseteq kept' /\ kept' \subseteq kept \cup {f}
      /\ \/ f \in kept'
         \/ \E n \in DOMAIN apis' : n > Len(apis) /\ apis'[n].proc = f /\ apis'[n].as = f
  BY <1>1, PushEnds
<1>3. /\ Len(apis) \in Nat /\ Len(apis') \in Nat /\ DOMAIN apis = 1..Len(apis)
      /\ DOMAIN apis' = 1..Len(apis') /\ last \in Nat /\ at \in Nat
  BY <1>2, ListTypes, Elements DEF HooksInv, Hooks!TypeOK
<1>4. /\ hooking = "attaching" => last = Len(Hooks!Listed) /\ at \in 1..(last + 1)
      /\ hooking \in {"detaching", "unhooked"} => last <= Len(apis)
      /\ hooking = "detaching" =>
            at \in 1..(last + 1) /\ (doing["hook"] = "transaction" => at <= last)
      /\ Len(Hooks!Listed) <= Len(apis)
      /\ \A n \in DOMAIN Hooks!Listed : apis[n] = Hooks!Listed[n]
  BY DEF HooksInv, ListBegins
<1>5. ListBegins'
  <2>1. Len(Hooks!Listed) <= Len(apis') BY <1>2, <1>3, <1>4, ListedEntries
  <2>2. \A n \in DOMAIN Hooks!Listed : apis'[n] = Hooks!Listed[n]
    BY <1>2, <1>3, <1>4, ListedEntries
  <2>3. hooking' \in {"detaching", "unhooked"} => last' <= Len(apis') BY <1>2, <1>3, <1>4
  <2> QED BY <1>4, <2>1, <2>2, <2>3 DEF ListBegins
<1>6. Detachable'
  <2> SUFFICES ASSUME NEW g \in Hooks!Proc \ (kept' \cup {"IFileOperation_CopyItems", "CopyFileW"}),
                      code[g] # "itself"
               PROVE  slot[code[g]].past /\ slot[code[g]].to = g /\ (Arriving(g)' \/ Arrived(g)')
    BY DEF Detachable, Hooks!Untouched
  <2>1. g \notin kept BY <1>2
  <2>2. slot[code[g]].past /\ slot[code[g]].to = g /\ (Arriving(g) \/ Arrived(g))
    BY <2>1 DEF HooksInv, Detachable, Hooks!Untouched
  <2>3. Arrived(g) => Arrived(g)' BY <1>2 DEF Arrived
  <2>4. CASE g # f BY <2>2, <2>3, <2>4
  <2>5. CASE g = f
    <3>1. PICK n \in DOMAIN apis' : n > Len(apis) /\ apis'[n].proc = f /\ apis'[n].as = f
      BY <1>2, <2>5
    <3>2. code[f] = f BY <1>1, <2>5 DEF HooksInv, OwnCode
    <3>3. hooking' = "detaching" => n >= at' BY <1>3, <1>4, <3>1
    <3>4. hooking' = "unhooked" => n > last' BY <1>3, <1>4, <3>1
    <3>5. Arrived(f)' BY <3>1, <3>2, <3>3, <3>4 DEF Arrived
    <3> QED BY <2>2, <2>5, <3>5
  <2> QED BY <2>4, <2>5
<1> QED BY <1>5, <1>6

LEMMA hookIFileDialogStep == HooksInv /\ Hooks!hookIFileDialog => HooksInv'
<1> SUFFICES ASSUME HooksInv, Hooks!hookIFileDialog PROVE HooksInv' OBVIOUS
<1>0. PICK f : f = "IFileDialog_Show" OBVIOUS
<1>1. /\ UNCHANGED <<at, last, once, call>> /\ hooking = "operation hooked" /\ died = "no"
  BY DEF Hooks!hookIFileDialog, Hooks!Alive
<1>2. f \in Hooks!Method /\ f \in Hooks!Proc /\ AsOf(f) = f /\ f \notin {"CopyFileW", "MoveFileW"}
  BY <1>0, MethodNames DEF Hooks!Method
<1>3. CASE /\ doing["hook"] = "transaction" /\ UNCHANGED <<apis, hooking, kept>>
           /\ Hooks!Attach("hook", f, f) /\ Hooks!Commit("hook") /\ Hooks!StartPush("hook")
  <2>1. Hooking(f) /\ failures' \in Nat BY <1>2, <1>3, AttachHooks
  <2>2. Fresh(f) BY <1>0, <1>1, <1>3, DoingTypes DEF Fresh
  <2>3. /\ OwnCode' /\ OwnSlot' /\ CallsOn'
        /\ \A g \in Hooks!Proc \ {"IFileOperation_CopyItems", "CopyFileW", f} :
              code'[g] = code[g] /\ (~Hooks!Untouched(g) => slot'[code[g]] = slot[code[g]])
        /\ code'[f] # "itself" =>
              code'[f] = AsOf(f) /\ slot'[AsOf(f)].past /\ slot'[AsOf(f)].to = f
        /\ \A g \in Hooks!Proc \ {f} : code'[g] = code[g]
        /\ \A g \in Hooks!Proc : Fresh(g) => code[g] = "itself" /\ call.api # g
    BY <1>1, <1>2, <2>1, <2>2, HookingStep
  <2>4. /\ doing' \in [Hooks!Thread -> {"nothing", "transaction"} \cup Hooks!Pushes]
        /\ doing'["hook"] \in Hooks!Pushes /\ died' \in {"no", "apis"}
        /\ doing["app"] \in Hooks!Pushes => doing'["app"] \in Hooks!Pushes
        /\ doing["app"] \notin Hooks!Pushes => doing'["app"] = doing["app"] /\ doing'["hook"] = "push"
    <3>1. "app" \in Hooks!Thread \ {"hook"} BY DEF Hooks!Thread
    <3> QED BY <1>1, <1>3, <3>1, PushTurn, Threads
  <2>5. /\ pending' \in Hooks!Thread \cup {"nobody"} /\ pending' # "hook"
        /\ pending' # "nobody" => doing'[pending'] = "transaction"
    BY <1>3, <2>4, CommitTurn, DoingTypes, Threads
  <2>6. Turns'
    <3>1. doing'["app"] # "nothing" => call.registering # 0
      BY <2>4, DoingTypes DEF HooksInv, Turns
    <3>2. ~Disturbed => doing["app"] \notin Hooks!Pushes /\ kept \subseteq MayFail
      BY DoingTypes DEF HooksInv, Turns, Disturbed
    <3>3. ~Disturbed' => ~Disturbed BY <1>1 DEF Disturbed
    <3>4. "push" # "lost push" /\ "push" # "transaction" OBVIOUS
    <3> QED BY <1>1, <1>3, <2>4, <2>5, <3>1, <3>2, <3>3, <3>4 DEF Turns
  <2>7. Hooks!TypeOK' BY <1>1, <1>3, <2>1, <2>4, <2>5 DEF Hooking, HooksInv, Hooks!TypeOK
  <2>8. Started'
    <3>1. ASSUME NEW g \in Hooks!Proc, Fresh(g)' PROVE code'[g] = "itself" /\ call.api # g
      <4>1. Fresh(g)
        BY <1>1, <1>3, <2>4, <3>1, FreshKept, Threads, DoingTypes
      <4>2. g # f BY <1>0, <1>1, <1>3, <2>4, <3>1 DEF Fresh
      <4> QED BY <2>3, <4>1, <4>2
    <3> QED BY <1>1, <1>3, <3>1 DEF HooksInv, Started, Hooks!Untouched
  <2>9. ListBegins' BY <1>1, <1>3 DEF HooksInv, ListBegins
  <2>10. Deaths' BY <2>4 DEF Deaths
  <2>11. Detachable'
    <3>1. Arriving(f)' BY <1>0, <2>4 DEF Arriving
    <3>2. \A g \in Hooks!Proc : Arriving(g) => Arriving(g)'
      BY <1>1, <1>3, <2>4 DEF Arriving, Hooks!Registered
    <3>3. code'[f] = "itself" \/ (slot'[code'[f]].past /\ slot'[code'[f]].to = f /\ Arriving(f)')
      BY <2>3, <3>1
    <3> QED BY <1>1, <1>2, <1>3, <2>3, <3>2, <3>3, DetachableKept
  <2> QED BY <2>3, <2>6, <2>7, <2>8, <2>9, <2>10, <2>11 DEF HooksInv
<1>4. CASE /\ Hooks!EndPush("hook", f) /\ hooking' = "hooked"
           /\ UNCHANGED <<code, slot, pending, failures, died>>
  <2>1. /\ doing' \in [Hooks!Thread -> {"nothing", "transaction"} \cup Hooks!Pushes]
        /\ doing["hook"] \in Hooks!Pushes /\ doing'["hook"] = "nothing"
        /\ doing'["app"] = doing["app"]
        /\ apis' \in Seq([proc : Hooks!Proc, as : Hooks!Proc])
        /\ kept' \subseteq Hooks!Proc
        /\ doing["hook"] = "lost push" \/ UNCHANGED kept
    <3>1. "app" \in Hooks!Thread \ {"hook"} BY DEF Hooks!Thread
    <3> QED BY <1>2, <1>4, <3>1, PushEnds, Threads
  <2>2. ListBegins' /\ Detachable'
    <3>1. \A g \in Hooks!Proc : g # f => (Arriving(g) => Arriving(g)')
      BY <1>0, <1>1, <2>1 DEF Arriving, Hooks!Registered
    <3> QED BY <1>1, <1>2, <1>4, <2>1, <3>1, ListGrows, Threads
  <2>3. Turns'
    <3>1. pending # "nobody" => doing'[pending] = "transaction"
      BY <2>1, Threads, DoingTypes DEF HooksInv, Turns
    <3>2. doing'["app"] # "nothing" => call.registering # 0 BY <2>1 DEF HooksInv, Turns
    <3>3. ~Disturbed' => kept' \subseteq MayFail
      BY <1>1, <2>1 DEF HooksInv, Turns, Disturbed
    <3> QED BY <1>1, <1>4, <2>1, <3>1, <3>2, <3>3, DoingTypes DEF Turns
  <2>4. Hooks!TypeOK' BY <1>1, <1>4, <2>1 DEF HooksInv, Hooks!TypeOK
  <2>5. Started'
    <3>1. ASSUME NEW g \in Hooks!Proc, Fresh(g)' PROVE Fresh(g)
      BY <1>1, <1>4, <2>1, <3>1 DEF Fresh
    <3> QED BY <1>1, <1>4, <3>1 DEF HooksInv, Started, Hooks!Untouched
  <2>6. OwnCode' /\ OwnSlot' /\ CallsOn' /\ Deaths'
    BY <1>1, <1>4 DEF HooksInv, OwnCode, OwnSlot, InUse, CallsOn, Hooks!Untouched, Deaths
  <2> QED BY <2>2, <2>3, <2>4, <2>5, <2>6 DEF HooksInv
<1> QED BY <1>0, <1>3, <1>4 DEF Hooks!hookIFileDialog, Hooks!entries

LEMMA UnhookStep == HooksInv /\ Hooks!Unhook => HooksInv'
<1> SUFFICES ASSUME HooksInv, Hooks!Unhook PROVE HooksInv' OBVIOUS
<1>1. /\ UNCHANGED <<code, slot, apis, once, call, doing, pending, failures, kept>>
      /\ hooking = "hooked" /\ hooking' = "detaching" /\ at' = 1 /\ last' = Len(apis)
      /\ Len(apis) \in Nat /\ died = "no" /\ died' \in {"no", "apis"}
  BY DEF Hooks!Unhook, Hooks!BeginLoop, Hooks!Alive, Hooks!entries, Hooks!detours, HooksInv,
         Hooks!TypeOK
<1>2. Hooks!TypeOK' BY <1>1 DEF HooksInv, Hooks!TypeOK
<1>3. Started' BY <1>1 DEF HooksInv, Started, Fresh, Waiting, Hooks!Untouched
<1>4. doing["hook"] = "nothing" BY <1>1 DEF HooksInv, Turns
<1>5. ListBegins' BY <1>1, <1>4 DEF HooksInv, ListBegins
<1>6. OwnCode' /\ OwnSlot' /\ CallsOn' /\ Deaths'
  BY <1>1 DEF HooksInv, OwnCode, OwnSlot, InUse, CallsOn, Hooks!Untouched, Deaths
<1>7. Turns' BY <1>1, <1>4 DEF HooksInv, Turns, Disturbed, Hooks!Pushes
<1>8. Detachable'
  <2>1. \A n \in DOMAIN apis : n >= 1 BY ListTypes
  <2>2. \A g \in Hooks!Proc : (Arriving(g) => Arriving(g)') /\ (Arrived(g) => Arrived(g)')
    BY <1>1, <2>1 DEF Arriving, Arrived, Hooks!Registered
  <2> QED BY <1>1, <2>2 DEF HooksInv, Detachable, Hooks!Untouched
<1> QED BY <1>2, <1>3, <1>5, <1>6, <1>7, <1>8 DEF HooksInv

LEMMA UnhookNextStep == HooksInv /\ Hooks!UnhookNext => HooksInv'
<1> SUFFICES ASSUME HooksInv, Hooks!UnhookNext PROVE HooksInv' OBVIOUS
<1>1. /\ UNCHANGED <<code, slot, apis, last, once, call, died, kept>>
      /\ hooking = "detaching" /\ Hooks!Idle("hook") /\ doing["hook"] = "nothing"
      /\ last <= Len(apis) /\ at \in 1..(last + 1) /\ last \in Nat /\ Len(apis) \in Nat
      /\ DOMAIN apis = 1..Len(apis)
  BY ListTypes DEF Hooks!UnhookNext, HooksInv, ListBegins, Hooks!TypeOK, Hooks!entries, Hooks!Idle
<1>2. \/ at <= last /\ Hooks!Begin("hook") /\ UNCHANGED <<at, hooking>>
      \/ /\ at <= last /\ slot[apis[at].as] = Hooks!NULL /\ at' = at + 1
         /\ UNCHANGED <<hooking, doing, pending, failures>>
      \/ /\ at > last /\ hooking' = "unhooked" /\ UNCHANGED <<at, doing, pending, failures>>
  BY DEF Hooks!UnhookNext, Hooks!detours
<1>3. /\ Turns' /\ failures' \in Nat /\ pending' \in Hooks!Thread \cup {"nobody"}
      /\ doing' \in [Hooks!Thread -> {"nothing", "transaction"} \cup Hooks!Pushes]
      /\ doing'["hook"] \notin Hooks!Pushes /\ doing'["app"] = doing["app"]
      /\ at' \in 1..(last + 1)
      /\ hooking' = "detaching" => (doing'["hook"] = "transaction" => at' <= last)
  <2>1. CASE at <= last /\ Hooks!Begin("hook") /\ UNCHANGED <<at, hooking>>
    BY <1>1, <2>1, HookBegins, DoingTypes
  <2>2. CASE UNCHANGED <<doing, pending, failures>>
    <3>1. Turns' BY <1>1, <1>2, <2>2 DEF HooksInv, Turns, Disturbed
    <3>2. at' \in 1..(last + 1) BY <1>1, <1>2
    <3> QED BY <1>1, <2>2, <3>1, <3>2, DoingTypes
  <2> QED BY <1>2, <2>1, <2>2
<1>4. hooking' \in {"detaching", "unhooked"} /\ at' \in Nat BY <1>1, <1>2, <1>3
<1>5. Hooks!TypeOK' BY <1>1, <1>3, <1>4 DEF HooksInv, Hooks!TypeOK
<1>6. Started'
  <2>1. ASSUME NEW f \in Hooks!Proc, Fresh(f)' PROVE Fresh(f)
    BY <1>1, <1>3, <1>4, <2>1 DEF Fresh
  <2> QED BY <1>1, <1>4, <2>1 DEF HooksInv, Started, Hooks!Untouched
<1>7. ListBegins' BY <1>1, <1>3, <1>4 DEF HooksInv, ListBegins
<1>8. OwnCode' /\ OwnSlot' /\ CallsOn' /\ Deaths'
  BY <1>1 DEF HooksInv, OwnCode, OwnSlot, InUse, CallsOn, Hooks!Untouched, Deaths
<1>9. Detachable'
  <2> SUFFICES ASSUME NEW g \in Hooks!Proc \ (kept \cup {"IFileOperation_CopyItems", "CopyFileW"}),
                      code[g] # "itself"
               PROVE  slot[code[g]].past /\ slot[code[g]].to = g /\ (Arriving(g)' \/ Arrived(g)')
    BY <1>1 DEF Detachable, Hooks!Untouched
  <2>1. slot[code[g]].past /\ slot[code[g]].to = g /\ (Arriving(g) \/ Arrived(g))
    BY DEF HooksInv, Detachable, Hooks!Untouched
  <2>2. Arriving(g) => Arriving(g)' BY <1>1, <1>3, DoingTypes DEF Arriving, Hooks!Registered
  <2>3. Arrived(g) => Arrived(g)'
    <3> SUFFICES ASSUME NEW n \in DOMAIN apis, apis[n].proc = g, apis[n].as = code[g], n >= at
                 PROVE  Arrived(g)'
      BY <1>1 DEF Arrived
    <3>1. hooking' = "unhooked" => n > last BY <1>1, <1>2
    <3>2. hooking' = "detaching" => n >= at'
      <4>1. slot[apis[at].as] = Hooks!NULL => n # at
        BY <2>1 DEF Hooks!NULL
      <4> QED BY <1>1, <1>2, <4>1
    <3> QED BY <1>1, <3>1, <3>2 DEF Arrived
  <2> QED BY <2>1, <2>2, <2>3
<1> QED BY <1>3, <1>5, <1>6, <1>7, <1>8, <1>9 DEF HooksInv

\* What a slot is detached from is as it was, or is known to be kept; and the slot still
\* leads to it.
LEMMA Undetoured ==
    ASSUME HooksInv, NEW n \in DOMAIN apis, Hooks!Detach("hook", apis[n].as)
    PROVE  /\ slot' \in [Hooks!Proc -> Hooks!Slots]
           /\ code' \in [Hooks!Proc -> Hooks!Proc \cup {"itself"}]
           /\ kept \subseteq kept' /\ kept' \subseteq Hooks!Proc /\ failures' \in Nat
           /\ \A m \in Hooks!Proc : slot'[m].to = slot[m].to
           /\ \A m \in Hooks!Proc : m # apis[n].as => slot'[m] = slot[m]
           /\ \A g \in Hooks!Proc : code'[g] \in {code[g], "itself"}
           /\ slot[apis[n].as].past =>
                 code'[slot[apis[n].as].to] = "itself" \/ slot[apis[n].as].to \in kept'
           /\ pending = "hook" => kept' \subseteq kept \cup MayFail
<1>0. PICK as, f : as = apis[n].as /\ f = slot[as].to OBVIOUS
<1>1. as \in Hooks!Proc BY <1>0, ListTypes
<1>2. slot[as] \in Hooks!Slots BY <1>1 DEF HooksInv, Hooks!TypeOK
<1>3. slot[as].past => f \in Hooks!Proc BY <1>0, <1>2, SlotTypes
<1>4. /\ slot \in [Hooks!Proc -> Hooks!Slots] /\ code \in [Hooks!Proc -> Hooks!Proc \cup {"itself"}]
      /\ kept \subseteq Hooks!Proc /\ failures \in Nat
  BY DEF HooksInv, Hooks!TypeOK
<1>5. CASE /\ slot[as].past
           /\ code' = [code EXCEPT ![f] = "itself"] /\ slot' = [slot EXCEPT ![as] = Hooks!Entry(f)]
           /\ UNCHANGED <<kept, failures>>
  <2>1. Hooks!Entry(f) \in Hooks!Slots /\ Hooks!Entry(f).to = f
    BY <1>3, <1>5 DEF Hooks!Slots, Hooks!Entry
  <2> QED BY <1>0, <1>1, <1>3, <1>4, <1>5, <2>1
<1>6. CASE /\ UNCHANGED <<code, slot>> /\ failures' \in {failures, failures + 1}
           /\ kept' = IF slot[as].past /\ ~Hooks!Untouched(f) THEN kept \cup {f} ELSE kept
           /\ pending = "hook" => f \in MayFail \/ ~slot[as].past \/ Hooks!Untouched(f)
  <2>1. kept \subseteq kept' /\ kept' \subseteq Hooks!Proc /\ failures' \in Nat
    <3>1. failures' \in Nat BY <1>4, <1>6
    <3>2. CASE slot[as].past /\ ~Hooks!Untouched(f) BY <1>3, <1>4, <1>6, <3>1, <3>2
    <3>3. CASE ~(slot[as].past /\ ~Hooks!Untouched(f)) BY <1>4, <1>6, <3>1, <3>3
    <3> QED BY <3>2, <3>3
  <2>2. slot[as].past => code[f] = "itself" \/ f \in kept' BY <1>6 DEF Hooks!Untouched
  <2>3. pending = "hook" => kept' \subseteq kept \cup MayFail BY <1>6
  <2> QED BY <1>0, <1>4, <1>6, <2>1, <2>2, <2>3
<1> QED BY <1>0, <1>5, <1>6 DEF Hooks!Detach, Hooks!entries, Hooks!Failure

LEMMA UnDetourTargetProcStep == HooksInv /\ Hooks!UnDetourTargetProc => HooksInv'
<1> SUFFICES ASSUME HooksInv, Hooks!UnDetourTargetProc PROVE HooksInv' OBVIOUS
<1>1. /\ UNCHANGED <<apis, last, hooking, once, call, died>> /\ hooking = "detaching"
      /\ ~Hooks!Idle("hook") /\ Hooks!Detach("hook", apis[at].as) /\ Hooks!Commit("hook")
      /\ doing' = [doing EXCEPT !["hook"] = "nothing"] /\ at' = at + 1
      /\ doing["hook"] \notin Hooks!Pushes
  BY DEF Hooks!UnDetourTargetProc, HooksInv, Turns
<1>2. doing["hook"] = "transaction" BY <1>1, DoingTypes, Threads DEF Hooks!Idle
<1>3. /\ last <= Len(apis) /\ at \in 1..last /\ last \in Nat /\ Len(apis) \in Nat
      /\ DOMAIN apis = 1..Len(apis) /\ at \in DOMAIN apis
  <2>1. last <= Len(apis) /\ at \in 1..(last + 1) /\ at <= last
    BY <1>1, <1>2 DEF HooksInv, ListBegins
  <2>2. last \in Nat /\ Len(apis) \in Nat /\ DOMAIN apis = 1..Len(apis)
    BY ListTypes DEF HooksInv, Hooks!TypeOK
  <2> QED BY <2>1, <2>2
<1>4. /\ slot' \in [Hooks!Proc -> Hooks!Slots]
      /\ code' \in [Hooks!Proc -> Hooks!Proc \cup {"itself"}]
      /\ kept \subseteq kept' /\ kept' \subseteq Hooks!Proc /\ failures' \in Nat
      /\ \A m \in Hooks!Proc : slot'[m].to = slot[m].to
      /\ \A m \in Hooks!Proc : m # apis[at].as => slot'[m] = slot[m]
      /\ \A g \in Hooks!Proc : code'[g] \in {code[g], "itself"}
      /\ slot[apis[at].as].past =>
            code'[slot[apis[at].as].to] = "itself" \/ slot[apis[at].as].to \in kept'
      /\ pending = "hook" => kept' \subseteq kept \cup MayFail
  BY <1>1, <1>3, Undetoured
<1>5. /\ Turns' /\ pending' \in Hooks!Thread \cup {"nobody"}
      /\ doing' \in [Hooks!Thread -> {"nothing", "transaction"} \cup Hooks!Pushes]
      /\ doing'["hook"] = "nothing" /\ doing'["app"] = doing["app"]
  <2>1. Disturbed \/ pending = "hook" BY <1>2 DEF HooksInv, Turns
  <2>2. Disturbed \/ kept' \subseteq kept \cup MayFail BY <1>4, <2>1
  <2> QED BY <1>1, <2>2, HookCommits
<1>6. Hooks!TypeOK' BY <1>1, <1>3, <1>4, <1>5 DEF HooksInv, Hooks!TypeOK
<1>7. Started'
  <2>1. ASSUME NEW f \in Hooks!Proc, Fresh(f)' PROVE Fresh(f)
    BY <1>1, <1>5, <2>1 DEF Fresh
  <2>2. ASSUME NEW f \in Hooks!Proc, Fresh(f)' PROVE code'[f] = "itself" /\ call.api # f
    BY <1>4, <2>1, <2>2 DEF HooksInv, Started, Hooks!Untouched
  <2> QED BY <1>1, <2>2 DEF HooksInv, Started, Hooks!Untouched
<1>8. ListBegins' BY <1>1, <1>3, <1>5 DEF HooksInv, ListBegins
<1>9. OwnCode' BY <1>1, <1>4 DEF HooksInv, OwnCode
<1>10. OwnSlot'
  <2>1. ASSUME NEW m \in Hooks!Proc, InUse(m)' PROVE InUse(m)
    <3>1. call.mine = m \/ \E g \in Hooks!Proc : code'[g] = m BY <1>1, <2>1 DEF InUse
    <3>2. \A g \in Hooks!Proc : code'[g] = m => code[g] = m BY <1>4, ListedNames
    <3> QED BY <3>1, <3>2 DEF InUse
  <2>2. \A m \in Hooks!Proc : InUse(m)' =>
            slot'[m].to # "nothing" \/ (m = "CopyFileW" /\ "MoveFileW" \in MayFail)
    BY <1>4, <2>1 DEF HooksInv, OwnSlot
  <2>3. code'["MoveFileW"] # "itself" => code["MoveFileW"] # "itself"
    BY <1>4, ListedNames
  <2>4. (code'["MoveFileW"] # "itself" \/ call.api = "MoveFileW") =>
        slot'["CopyFileW"].to = "MoveFileW"
    BY <1>4, <2>3, ListedNames DEF HooksInv, OwnSlot, Hooks!Untouched
  <2>5. \A m \in Hooks!Proc : slot'[m].to \in {"nothing", m}
        \cup IF m = "CopyFileW" THEN {"MoveFileW"} ELSE {}
    BY <1>4 DEF HooksInv, OwnSlot
  <2> QED BY <1>1, <2>2, <2>4, <2>5 DEF OwnSlot, Hooks!Untouched
<1>11. CallsOn' /\ Deaths' BY <1>1 DEF HooksInv, CallsOn, Deaths
<1>12. Detachable'
  <2> SUFFICES ASSUME NEW g \in Hooks!Proc \ (kept' \cup {"IFileOperation_CopyItems", "CopyFileW"}),
                      code'[g] # "itself"
               PROVE  /\ slot'[code'[g]].past /\ slot'[code'[g]].to = g
                      /\ Arriving(g)' \/ Arrived(g)'
    BY DEF Detachable, Hooks!Untouched
  <2>1. code'[g] = code[g] /\ code[g] # "itself" /\ code[g] \in Hooks!Proc /\ g \notin kept
    BY <1>4 DEF HooksInv, Hooks!TypeOK
  <2>2. slot[code[g]].past /\ slot[code[g]].to = g /\ (Arriving(g) \/ Arrived(g))
    BY <2>1 DEF HooksInv, Detachable, Hooks!Untouched
  <2>3. code[g] # apis[at].as BY <1>4, <2>1, <2>2
  <2>4. slot'[code[g]] = slot[code[g]] BY <1>4, <2>1, <2>3
  <2>5. Arriving(g) => Arriving(g)' BY <1>1, <1>5 DEF Arriving, Hooks!Registered
  <2>6. Arrived(g) => Arrived(g)'
    <3> SUFFICES ASSUME NEW n \in DOMAIN apis, apis[n].proc = g, apis[n].as = code[g], n >= at
                 PROVE  Arrived(g)'
      BY <1>1 DEF Arrived
    <3>1. n # at BY <2>3
    <3>2. n >= at + 1 BY <1>3, <3>1
    <3> QED BY <1>1, <2>1, <3>2 DEF Arrived
  <2> QED BY <2>1, <2>2, <2>4, <2>5, <2>6
<1> QED BY <1>5, <1>6, <1>7, <1>8, <1>9, <1>10, <1>11, <1>12 DEF HooksInv

-----------------------------------------------------------------------------
(* The steps of the application.                                             *)

LEMMA CallStep == ASSUME HooksInv, NEW f \in Hooks!Proc, Hooks!Call(f) PROVE HooksInv'
<1> DEFINE called == [api |-> f, mine |-> code[f], todo |-> Hooks!Mine[code[f]], reached |-> {},
                      registering |-> IF code[f] = "RegisterDragDrop" /\ once THEN 1 ELSE 0]
<1>1. /\ UNCHANGED <<code, slot, apis, at, last, hooking, once, died, doing, pending, failures,
                  kept>>
      /\ died = "no" /\ call = Hooks!NoCall /\ code[f] # "itself" /\ call' = called
  BY DEF Hooks!Call, Hooks!Alive, Hooks!Untouched, Hooks!entries, Hooks!loop, Hooks!detours
<1>2. code[f] \in Hooks!Proc /\ code[f] = AsOf(f)
  BY <1>1 DEF HooksInv, Hooks!TypeOK, OwnCode, AsOf
<1>3. /\ called.api = f /\ called.mine = code[f] /\ called.todo = Hooks!Mine[code[f]]
      /\ called.reached = {}
      /\ called.registering = IF code[f] = "RegisterDragDrop" /\ once THEN 1 ELSE 0
  OBVIOUS
<1>4. /\ Hooks!Mine[code[f]] \in Seq(Hooks!Steps)
      /\ \A n \in DOMAIN Hooks!Mine[code[f]] : StepOf(code[f], Hooks!Mine[code[f]][n])
      /\ code[f] \notin Hooks!Refused =>
            Hooks!Mine[code[f]] # <<>> /\ Hooks!Mine[code[f]][1].slot = code[f]
  BY <1>2, MineSteps
<1>5. Hooks!TypeOK'
  <2>1. called \in [api : Hooks!Proc, mine : Hooks!Proc, todo : Seq(Hooks!Steps),
        reached : SUBSET Hooks!Proc,
                    registering : 0..2]
    BY <1>2, <1>4
  <2> HIDE DEF called
  <2> QED BY <1>1, <2>1 DEF HooksInv, Hooks!TypeOK
<1> HIDE DEF called
<1>6. Started'
  <2>1. hooking # "before" BY <1>1 DEF HooksInv, Started, Fresh, Waiting, Hooks!Untouched
  <2>2. Hooks!NoCall.registering = 0 BY NobodyCalls
  <2>3. ASSUME NEW g \in Hooks!Proc, Fresh(g)' PROVE code'[g] = "itself" /\ call'.api # g
    <3>1. Fresh(g) BY <1>1, <2>2, <2>3, FreshKept
    <3> QED BY <1>1, <1>3, <3>1 DEF HooksInv, Started, Hooks!Untouched
  <2> QED BY <1>1, <1>3, <2>1, <2>3 DEF Started, Hooks!Untouched
<1>7. ListBegins' BY <1>1 DEF HooksInv, ListBegins
<1>8. OwnCode' BY <1>1, <1>2, <1>3 DEF HooksInv, OwnCode, AsOf
<1>9. OwnSlot'
  <2>1. ASSUME NEW m \in Hooks!Proc, InUse(m)' PROVE InUse(m)
    BY <1>1, <1>3, <2>1 DEF InUse
  <2> QED BY <1>1, <1>3, <2>1 DEF HooksInv, OwnSlot, Hooks!Untouched
<1>10. CallsOn' BY <1>1, <1>3, <1>4 DEF CallsOn
<1>11. Deaths' BY <1>1 DEF Deaths
<1>12. Turns'
  <2>1. Hooks!NoCall.registering = 0 BY NobodyCalls
  <2>2. doing["app"] = "nothing" BY <1>1, <2>1 DEF HooksInv, Turns
  <2>3. ~Disturbed' => ~Disturbed BY <1>1, <2>1 DEF Disturbed
  <2> QED BY <1>1, <2>2, <2>3 DEF HooksInv, Turns
<1>13. Detachable'
  <2>1. Hooks!NoCall.registering = 0 BY NobodyCalls
  <2>2. doing["app"] = "nothing" BY <1>1, <2>1 DEF HooksInv, Turns
  <2>3. \A g \in Hooks!Proc : Arriving(g) => Arriving(g)'
    BY <1>1, <2>2 DEF Arriving, Hooks!Pushes
  <2>4. \A g \in Hooks!Proc : Arrived(g) => Arrived(g)' BY <1>1 DEF Arrived
  <2> QED BY <1>1, <2>3, <2>4 DEF HooksInv, Detachable, Hooks!Untouched
<1> QED BY <1>5, <1>6, <1>7, <1>8, <1>9, <1>10, <1>11, <1>12, <1>13 DEF HooksInv

\* While the application registers its drop target.
LEMMA Registering ==
    ASSUME HooksInv, call.registering # 0
    PROVE  /\ call # Hooks!NoCall /\ once /\ hooking # "before" /\ Disturbed
           /\ call.registering \in {1, 2}
           /\ Hooks!Registered \in Dropped /\ Hooks!Registered \in Hooks!Method
           /\ Hooks!Registered \in Hooks!Proc /\ AsOf(Hooks!Registered) = Hooks!Registered
           /\ Hooks!Registered \notin {"IFileOperation_CopyItems", "CopyFileW", "IFileDialog_Show"}
           /\ doing["app"] \notin Hooks!Pushes => Fresh(Hooks!Registered)
<1>1. call # Hooks!NoCall BY NobodyCalls, ListedNames
<1>2. call.registering \in {1, 2} BY <1>1, CallTypes
<1>3. once /\ hooking # "before" BY <1>1 DEF HooksInv, Started
<1>4. Hooks!Registered \in Dropped /\ Hooks!Registered \in Hooks!Method
      /\ Hooks!Registered \notin {"IFileOperation_CopyItems", "CopyFileW", "IFileDialog_Show"}
  BY DEF Hooks!Registered, Dropped, Hooks!Method
<1>5. Hooks!Registered \in Hooks!Proc /\ AsOf(Hooks!Registered) = Hooks!Registered
  BY <1>4, MethodNames
<1>6. doing["app"] \notin Hooks!Pushes => Fresh(Hooks!Registered)
  BY <1>2, <1>3 DEF Fresh, Hooks!Registered
<1> QED BY <1>1, <1>2, <1>3, <1>4, <1>5, <1>6 DEF Disturbed

LEMMA FindDropTargetStep == HooksInv /\ Hooks!FindDropTarget => HooksInv'
<1> SUFFICES ASSUME HooksInv, Hooks!FindDropTarget PROVE HooksInv' OBVIOUS
<1>0. PICK f : f = Hooks!Registered OBVIOUS
<1>1. /\ UNCHANGED <<code, apis, at, last, hooking, once, call, died, kept>>
      /\ call.registering # 0 /\ Hooks!Idle("app") /\ doing["app"] = "nothing"
      /\ slot' = [slot EXCEPT ![f] = Hooks!Entry(f)] /\ Hooks!Begin("app")
  BY <1>0 DEF Hooks!FindDropTarget, Hooks!loop, Hooks!Idle
<1>2. f \in Hooks!Proc /\ AsOf(f) = f /\ f # "CopyFileW" /\ Fresh(f) /\ Disturbed
  BY <1>0, <1>1, Registering, DoingTypes
<1>3. Hooking(f) BY <1>1, <1>2, LookingUpHooks
<1>4. /\ OwnCode' /\ OwnSlot' /\ CallsOn'
      /\ \A g \in Hooks!Proc \ {"IFileOperation_CopyItems", "CopyFileW", f} :
            code'[g] = code[g] /\ (~Hooks!Untouched(g) => slot'[code[g]] = slot[code[g]])
      /\ \A g \in Hooks!Proc : Fresh(g) => code[g] = "itself" /\ call.api # g
  BY <1>1, <1>2, <1>3, HookingStep
<1>5. /\ doing' \in [Hooks!Thread -> {"nothing", "transaction"} \cup Hooks!Pushes]
      /\ pending' \in Hooks!Thread \cup {"nobody"} /\ failures' \in Nat
      /\ doing'["app"] = "transaction" /\ doing'["hook"] = doing["hook"]
      /\ pending' # "nobody" => doing'[pending'] = "transaction"
  <2>1. "hook" \in Hooks!Thread \ {"app"} BY DEF Hooks!Thread
  <2> QED BY <1>1, <2>1, BeginTurn, Threads
<1>6. Turns' BY <1>1, <1>2, <1>5 DEF HooksInv, Turns, Disturbed
<1>7. Hooks!TypeOK' BY <1>1, <1>3, <1>5 DEF Hooking, HooksInv, Hooks!TypeOK
<1>8. Started'
  <2>1. ASSUME NEW g \in Hooks!Proc, Fresh(g)' PROVE Fresh(g)
    <3>1. \A t \in Hooks!Thread : doing[t] \in Hooks!Pushes => doing'[t] \in Hooks!Pushes
      BY <1>1, <1>5, DoingTypes, Threads
    <3> QED BY <1>1, <2>1, <3>1, FreshKept
  <2> QED BY <1>1, <1>4, <2>1 DEF HooksInv, Started, Hooks!Untouched
<1>9. ListBegins' BY <1>1, <1>5 DEF HooksInv, ListBegins
<1>10. Deaths' BY <1>1 DEF HooksInv, Deaths
<1>11. Detachable'
  <2>1. code'[f] = "itself" BY <1>1, <1>2, <1>4
  <2>2. \A g \in Hooks!Proc : Arriving(g) => Arriving(g)'
    BY <1>1, <1>5, DoingTypes DEF Arriving
  <2> QED BY <1>1, <1>2, <1>4, <2>1, <2>2, DetachableKept
<1> QED BY <1>4, <1>6, <1>7, <1>8, <1>9, <1>10, <1>11 DEF HooksInv

LEMMA HookDropTargetStep == HooksInv /\ Hooks!HookDropTarget => HooksInv'
<1> SUFFICES ASSUME HooksInv, Hooks!HookDropTarget PROVE HooksInv' OBVIOUS
<1>0. PICK f : f = Hooks!Registered OBVIOUS
<1>1. /\ UNCHANGED <<apis, at, last, hooking, once, call, kept>> /\ died = "no"
      /\ doing["app"] = "transaction" /\ Hooks!Attach("app", f, f) /\ Hooks!Commit("app")
      /\ Hooks!StartPush("app")
  BY <1>0 DEF Hooks!HookDropTarget, Hooks!loop, Hooks!Alive
<1>2. call.registering # 0 BY <1>1 DEF HooksInv, Turns
<1>3. /\ f \in Hooks!Proc /\ AsOf(f) = f /\ f \in Dropped /\ Fresh(f) /\ Disturbed /\ once
      /\ f \notin {"IFileOperation_CopyItems", "CopyFileW", "IFileDialog_Show"}
      /\ f \in Hooks!Method /\ call.registering \in {1, 2} /\ hooking # "before"
  BY <1>0, <1>1, <1>2, Registering, DoingTypes
<1>4. Hooking(f) /\ failures' \in Nat BY <1>1, <1>3, AttachHooks
<1>5. /\ OwnCode' /\ OwnSlot' /\ CallsOn'
      /\ \A g \in Hooks!Proc \ {"IFileOperation_CopyItems", "CopyFileW", f} :
            code'[g] = code[g] /\ (~Hooks!Untouched(g) => slot'[code[g]] = slot[code[g]])
      /\ code'[f] # "itself" =>
            code'[f] = AsOf(f) /\ slot'[AsOf(f)].past /\ slot'[AsOf(f)].to = f
      /\ \A g \in Hooks!Proc \ {f} : code'[g] = code[g]
      /\ \A g \in Hooks!Proc : Fresh(g) => code[g] = "itself" /\ call.api # g
  BY <1>1, <1>3, <1>4, HookingStep
<1>6. /\ doing' \in [Hooks!Thread -> {"nothing", "transaction"} \cup Hooks!Pushes]
      /\ doing'["app"] \in Hooks!Pushes /\ died' \in {"no", "apis"}
      /\ doing["hook"] \in Hooks!Pushes => doing'["hook"] \in Hooks!Pushes
      /\ doing["hook"] \notin Hooks!Pushes => doing'["hook"] = doing["hook"]
  <2>1. "hook" \in Hooks!Thread \ {"app"} BY DEF Hooks!Thread
  <2> QED BY <1>1, <2>1, PushTurn, Threads
<1>7. /\ pending' \in Hooks!Thread \cup {"nobody"} /\ pending' # "app"
      /\ pending' # "nobody" => doing'[pending'] = "transaction"
  BY <1>1, <1>6, CommitTurn, DoingTypes, Threads
<1>8. Turns'
  <2>1. doing'["hook"] \in Hooks!Pushes => doing["hook"] \in Hooks!Pushes BY <1>6
  <2>2. hooking \in {"hooked", "unhooked"} => doing'["hook"] = "nothing"
    BY <1>6, DoingTypes DEF HooksInv, Turns
  <2>3. Disturbed' BY <1>1, <1>3 DEF Disturbed
  <2>4. doing["hook"] \in Hooks!Pushes => hooking = "operation hooked" BY DEF HooksInv, Turns
  <2> QED BY <1>1, <1>2, <1>7, <2>1, <2>2, <2>3, <2>4 DEF Turns
<1>9. Hooks!TypeOK' BY <1>1, <1>4, <1>6, <1>7 DEF Hooking, HooksInv, Hooks!TypeOK
<1>10. Started'
  <2>1. ASSUME NEW g \in Hooks!Proc, Fresh(g)' PROVE code'[g] = "itself" /\ call.api # g
    <3>1. \A t \in Hooks!Thread : doing[t] \in Hooks!Pushes => doing'[t] \in Hooks!Pushes
      BY <1>6, Threads
    <3>2. Fresh(g) BY <1>1, <2>1, <3>1, FreshKept
    <3>3. g # f
      <4>1. hooking = "attaching" => ~Waiting(f) BY <1>3, MethodsWaitNot
      <4>2. Waiting(f)' <=> Waiting(f) BY <1>1 DEF Waiting
      <4>3. CASE call.registering = 1
        <5>1. f = "IDropTarget_Drop" BY <1>0, <4>3 DEF Hooks!Registered
        <5>2. ~Fresh(f)' BY <1>1, <1>3, <1>6, <4>1, <4>2, <4>3, <5>1 DEF Fresh
        <5> QED BY <2>1, <5>2
      <4>4. CASE call.registering = 2
        <5>1. f = "IDropTarget_DragEnter" BY <1>0, <4>4 DEF Hooks!Registered
        <5>2. ~Fresh(f)' BY <1>1, <1>3, <1>6, <4>1, <4>2, <4>4, <5>1 DEF Fresh
        <5> QED BY <2>1, <5>2
      <4> QED BY <1>3, <4>3, <4>4
    <3> QED BY <1>5, <3>2, <3>3
  <2> QED BY <1>1, <1>3, <2>1 DEF HooksInv, Started, Hooks!Untouched
<1>11. ListBegins'
  <2>1. doing'["hook"] = "transaction" => doing["hook"] = "transaction" BY <1>6, DoingTypes
  <2> QED BY <1>1, <2>1 DEF HooksInv, ListBegins
<1>12. Deaths' BY <1>6 DEF Deaths
<1>13. Detachable'
  <2>1. Arriving(f)' BY <1>0, <1>1, <1>6 DEF Arriving, Hooks!Registered
  <2>2. \A g \in Hooks!Proc : Arriving(g) => Arriving(g)'
    BY <1>1, <1>6, DoingTypes DEF Arriving
  <2>3. code'[f] = "itself" \/ (slot'[code'[f]].past /\ slot'[code'[f]].to = f /\ Arriving(f)')
    BY <1>3, <1>5, <2>1
  <2> QED BY <1>1, <1>3, <1>5, <2>2, <2>3, DetachableKept
<1> QED BY <1>5, <1>8, <1>9, <1>10, <1>11, <1>12, <1>13 DEF HooksInv

LEMMA RegisterDragDropStep == HooksInv /\ Hooks!RegisterDragDrop_Mine => HooksInv'
<1> SUFFICES ASSUME HooksInv, Hooks!RegisterDragDrop_Mine PROVE HooksInv' OBVIOUS
<1>0. PICK f, g : f = Hooks!Registered /\ g = IF call.registering = 1 THEN 2 ELSE 0 OBVIOUS
<1>1. /\ UNCHANGED <<code, slot, at, last, hooking, pending, failures>> /\ died = "no"
      /\ Hooks!EndPush("app", f) /\ died' \in {"no", "apis"}
      /\ call.registering = 1 => UNCHANGED once
      /\ call.registering # 1 => ~once' /\ once' \in BOOLEAN
      /\ call' = [call EXCEPT !.registering = g]
  BY <1>0 DEF Hooks!RegisterDragDrop_Mine, Hooks!Alive, Hooks!entries
<1>2. doing["app"] \in Hooks!Pushes BY <1>1 DEF Hooks!EndPush
<1>3. call.registering # 0 BY <1>2, DoingTypes DEF HooksInv, Turns
<1>4. /\ f \in Hooks!Proc /\ AsOf(f) = f /\ f \in Dropped /\ f \in Hooks!Method /\ once
      /\ call # Hooks!NoCall /\ call.registering \in {1, 2} /\ hooking # "before"
      /\ f \notin {"IFileOperation_CopyItems", "CopyFileW", "IFileDialog_Show"}
  BY <1>0, <1>3, Registering
<1>5. /\ call.api \in Hooks!Proc /\ call.mine \in Hooks!Proc /\ call.todo \in Seq(Hooks!Steps)
      /\ call.reached \subseteq Hooks!Proc
      /\ call = [api |-> call.api, mine |-> call.mine, todo |-> call.todo,
                 reached |-> call.reached, registering |-> call.registering]
  BY <1>4, CallTypes
<1>6. call' = [api |-> call.api, mine |-> call.mine, todo |-> call.todo,
               reached |-> call.reached, registering |-> g]
  BY <1>1, <1>5, CallFields
<1>7. /\ call'.api = call.api /\ call'.mine = call.mine /\ call'.todo = call.todo
      /\ call'.reached = call.reached /\ call'.registering = g
  BY <1>6
<1>8. \/ call.registering = 1 /\ g = 2 /\ f = "IDropTarget_Drop" /\ once'
      \/ call.registering = 2 /\ g = 0 /\ f = "IDropTarget_DragEnter" /\ ~once'
  <2>1. CASE call.registering = 1 BY <1>0, <1>1, <1>4, <2>1 DEF Hooks!Registered
  <2>2. CASE call.registering = 2 BY <1>0, <1>1, <1>4, <2>2 DEF Hooks!Registered
  <2> QED BY <1>4, <2>1, <2>2
<1>9. /\ doing' \in [Hooks!Thread -> {"nothing", "transaction"} \cup Hooks!Pushes]
      /\ doing'["app"] = "nothing" /\ doing'["hook"] = doing["hook"]
      /\ apis' \in Seq([proc : Hooks!Proc, as : Hooks!Proc])
      /\ kept' \subseteq Hooks!Proc
  <2>1. "hook" \in Hooks!Thread \ {"app"} BY DEF Hooks!Thread
  <2> QED BY <1>1, <1>4, <2>1, PushEnds, Threads
<1>10. ListBegins' /\ Detachable'
  <2>1. \A h \in Hooks!Proc : h # f => (Arriving(h) => Arriving(h)')
    BY <1>0, <1>1, <1>9 DEF Arriving
  <2> QED BY <1>1, <1>4, <1>9, <2>1, ListGrows, Threads
<1>11. Turns'
  <2>1. pending # "nobody" => doing'[pending] = "transaction"
    BY <1>2, <1>9, Threads, DoingTypes DEF HooksInv, Turns
  <2>2. Disturbed' BY <1>7, <1>8 DEF Disturbed
  <2> QED BY <1>1, <1>9, <2>1, <2>2 DEF HooksInv, Turns
<1>12. Hooks!TypeOK'
  <2>1. call' \in [api : Hooks!Proc, mine : Hooks!Proc, todo : Seq(Hooks!Steps),
                   reached : SUBSET Hooks!Proc, registering : 0..2]
    BY <1>5, <1>6, <1>8
  <2>2. once' \in BOOLEAN BY <1>1, <1>4 DEF HooksInv, Hooks!TypeOK
  <2> QED BY <1>1, <1>9, <2>1, <2>2 DEF HooksInv, Hooks!TypeOK
<1>13. Started'
  <2>1. ASSUME NEW h \in Hooks!Proc, Fresh(h)' PROVE Fresh(h)
    <3>1. Waiting(h)' <=> Waiting(h) BY <1>1 DEF Waiting
    <3>2. CASE h \notin Dropped BY <1>1, <1>9, <2>1, <3>1, <3>2 DEF Fresh, Dropped
    <3>3. CASE h = "IDropTarget_DragEnter" /\ call.registering = 1
      <4>1. ~(call.registering = 2) BY <3>3
      <4> QED BY <1>4, <3>3, <4>1 DEF Fresh
    <3>4. CASE h = "IDropTarget_Drop" /\ call'.registering = 2
      BY <1>1, <2>1, <3>1, <3>4 DEF Fresh
    <3>5. CASE h \in Dropped /\ ~once' BY <1>1, <2>1, <3>1, <3>5 DEF Fresh, Dropped
    <3> QED BY <1>7, <1>8, <3>2, <3>3, <3>4, <3>5 DEF Dropped
  <2>2. call.mine = "RegisterDragDrop" BY <1>3 DEF HooksInv, Started
  <2> QED BY <1>1, <1>4, <1>7, <1>8, <2>1, <2>2 DEF HooksInv, Started, Hooks!Untouched
<1>14. OwnCode' BY <1>1, <1>4, <1>7 DEF HooksInv, OwnCode
<1>15. OwnSlot' BY <1>1, <1>7 DEF HooksInv, OwnSlot, InUse, Hooks!Untouched
<1>16. CallsOn' BY <1>4, <1>7 DEF HooksInv, CallsOn
<1>17. Deaths' BY <1>1 DEF Deaths
<1> QED BY <1>10, <1>11, <1>12, <1>13, <1>14, <1>15, <1>16, <1>17 DEF HooksInv

LEMMA TailSteps ==
    ASSUME NEW m, NEW steps \in Seq(Hooks!Steps), steps # <<>>,
           \A n \in DOMAIN steps : StepOf(m, steps[n])
    PROVE  /\ Tail(steps) \in Seq(Hooks!Steps) /\ Head(steps) = steps[1] /\ steps[1] \in Hooks!Steps
           /\ StepOf(m, steps[1])
           /\ \A n \in DOMAIN Tail(steps) : StepOf(m, Tail(steps)[n])
<1>1. Tail(steps) \in Seq(Hooks!Steps) /\ Head(steps) = steps[1] /\ steps[1] \in Hooks!Steps
      /\ 1 \in DOMAIN steps
  OBVIOUS
<1>2. \A n \in DOMAIN Tail(steps) : n + 1 \in DOMAIN steps /\ Tail(steps)[n] = steps[n + 1]
  OBVIOUS
<1> QED BY <1>1, <1>2

LEMMA OnlyDeath ==
    ASSUME HooksInv, UNCHANGED <<code, slot, apis, at, last, hooking, once, call>>,
           UNCHANGED <<doing, pending, failures, kept>>,
           hooking = "before" => UNCHANGED died, died' \in Hooks!Proc \cup {"no", "apis"}, Deaths'
    PROVE  HooksInv'
<1>1. Hooks!TypeOK' BY DEF HooksInv, Hooks!TypeOK
<1>2. Started'
  <2>1. \A f \in Hooks!Proc : Fresh(f)' => Fresh(f) BY FreshKept
  <2> QED BY <2>1 DEF HooksInv, Started, Hooks!Untouched
<1>3. ListBegins' BY DEF HooksInv, ListBegins
<1>4. OwnCode' BY DEF HooksInv, OwnCode
<1>5. OwnSlot'
  <2>1. \A m \in Hooks!Proc : InUse(m)' <=> InUse(m) BY DEF InUse
  <2> QED BY <2>1 DEF HooksInv, OwnSlot, Hooks!Untouched
<1>6. CallsOn' BY DEF HooksInv, CallsOn
<1>7. Turns' BY DEF HooksInv, Turns, Disturbed
<1>8. Detachable'
  <2>1. \A g \in Hooks!Proc : (Arriving(g) => Arriving(g)') /\ (Arrived(g) => Arrived(g)')
    BY DEF Arriving, Arrived, Hooks!Registered
  <2> QED BY <2>1 DEF HooksInv, Detachable, Hooks!Untouched
<1> QED BY <1>1, <1>2, <1>3, <1>4, <1>5, <1>6, <1>7, <1>8 DEF HooksInv

LEMMA CallOnStep == HooksInv /\ Hooks!CallOn => HooksInv'
<1> SUFFICES ASSUME HooksInv, Hooks!CallOn PROVE HooksInv' OBVIOUS
<1> DEFINE step == call.todo[1]
           to == slot[step.slot]
           rest == [call EXCEPT !.todo = Tail(call.todo)]
           AfterCall(r) == [api |-> call.api, mine |-> call.mine, todo |-> Tail(call.todo),
                            reached |-> r, registering |-> call.registering]
<1>1. /\ UNCHANGED <<code, slot, apis, at, last, hooking, once, doing, pending, failures, kept>>
      /\ died = "no" /\ call # Hooks!NoCall /\ call.registering = 0 /\ call.todo # <<>>
  BY DEF Hooks!CallOn, Hooks!Alive, Hooks!entries, Hooks!loop, Hooks!detours
<1>2. /\ call.api \in Hooks!Proc /\ call.mine \in Hooks!Proc /\ call.todo \in Seq(Hooks!Steps)
      /\ call.reached \subseteq Hooks!Proc /\ call.registering \in 0..2
      /\ call = [api |-> call.api, mine |-> call.mine, todo |-> call.todo,
                 reached |-> call.reached, registering |-> call.registering]
  BY <1>1, CallTypes
<1>3. /\ \A n \in DOMAIN call.todo : StepOf(call.mine, call.todo[n])
      /\ call.reached = {} /\ call.mine \notin Hooks!Refused => step.slot = call.mine
      /\ call.reached \subseteq {call.api} \cup IF call.api = "CopyFileW" THEN {"MoveFileW"} ELSE {}
  BY <1>1 DEF HooksInv, CallsOn
<1>4. /\ Tail(call.todo) \in Seq(Hooks!Steps) /\ Head(call.todo) = step /\ step \in Hooks!Steps
      /\ StepOf(call.mine, step)
      /\ \A n \in DOMAIN Tail(call.todo) : StepOf(call.mine, Tail(call.todo)[n])
  BY <1>1, <1>2, <1>3, TailSteps
<1>5. step.slot \in Hooks!Proc /\ step.asks \in BOOLEAN BY <1>4 DEF Hooks!Steps
<1>6. to \in Hooks!Slots BY <1>5 DEF HooksInv, Hooks!TypeOK
<1>7. to # Hooks!NULL <=> to.to # "nothing" BY <1>6, SlotTypes
<1>8. call.mine = AsOf(call.api) BY <1>1 DEF HooksInv, OwnCode, AsOf
<1>9. to = Hooks!NULL /\ step.slot = call.mine => call.mine = "CopyFileW" /\ "MoveFileW" \in MayFail
  <2>1. InUse(call.mine) BY DEF InUse
  <2> QED BY <1>2, <1>7, <2>1 DEF HooksInv, OwnSlot
<1>10. rest = AfterCall(call.reached)
  <2> DEFINE left == Tail(call.todo)
             next == [api |-> call.api, mine |-> call.mine, todo |-> left,
                      reached |-> call.reached, registering |-> call.registering]
  <2>1. rest = [call EXCEPT !.todo = left] OBVIOUS
  <2>2. AfterCall(call.reached) = next OBVIOUS
  <2> HIDE DEF left, rest, AfterCall
  <2>3. [call EXCEPT !.todo = left] = next BY <1>2, CallFields
  <2> QED BY <2>1, <2>2, <2>3
\* What is said of every state after the call has moved on, or not.
<1>11. ASSUME NEW r \in SUBSET Hooks!Proc, call' = AfterCall(r), UNCHANGED died,
              r = {} => call.mine \in Hooks!Refused,
              r \subseteq {call.api} \cup IF call.api = "CopyFileW" THEN {"MoveFileW"} ELSE {}
       PROVE  HooksInv'
  <2>1. /\ call'.api = call.api /\ call'.mine = call.mine /\ call'.todo = Tail(call.todo)
        /\ call'.reached = r /\ call'.registering = call.registering
    BY <1>11
  <2>2. call' \in [api : Hooks!Proc, mine : Hooks!Proc, todo : Seq(Hooks!Steps),
        reached : SUBSET Hooks!Proc,
                   registering : 0..2]
    BY <1>2, <1>4, <1>11
  <2> HIDE DEF AfterCall
  <2>3. Hooks!TypeOK' BY <1>1, <1>11, <2>2 DEF HooksInv, Hooks!TypeOK
  <2>4. Started'
    <3>1. hooking # "before" BY <1>1 DEF HooksInv, Started
    <3> QED BY <1>1, <2>1, <3>1 DEF HooksInv, Started, Fresh, Waiting, Hooks!Untouched
  <2>5. ListBegins' BY <1>1 DEF HooksInv, ListBegins
  <2>6. OwnCode' BY <1>1, <2>1 DEF HooksInv, OwnCode
  <2>7. OwnSlot' BY <1>1, <2>1 DEF HooksInv, OwnSlot, InUse, Hooks!Untouched
  <2>8. CallsOn' BY <1>4, <1>11, <2>1 DEF CallsOn
  <2>9. Deaths' BY <1>1, <1>11 DEF Deaths
  <2>10. Turns' BY <1>1, <2>1 DEF HooksInv, Turns, Disturbed
  <2>11. Detachable'
    <3>1. \A g \in Hooks!Proc : (Arriving(g) => Arriving(g)') /\ (Arrived(g) => Arrived(g)')
      BY <1>1, <2>1 DEF Arriving, Arrived, Hooks!Registered
    <3> QED BY <1>1, <3>1 DEF HooksInv, Detachable, Hooks!Untouched
  <2> QED BY <2>3, <2>4, <2>5, <2>6, <2>7, <2>8, <2>9, <2>10, <2>11 DEF HooksInv
<1>12. CASE /\ to # Hooks!NULL /\ UNCHANGED died
            /\ call' = IF step.slot = call.mine
                         THEN [rest EXCEPT !.reached = @ \cup {to.to}] ELSE rest
  <2>1. CASE step.slot = call.mine
    <3>1. call' = AfterCall(call.reached \cup {to.to})
      <4>1. call' = [rest EXCEPT !.reached = rest.reached \cup {to.to}] BY <1>12, <2>1
      <4>2. rest.reached = call.reached BY <1>10
      <4> HIDE DEF rest
      <4> QED BY <1>10, <4>1, <4>2, CallFields
    <3>2. to.to \in Hooks!Proc BY <1>6, <1>7, <1>12, SlotTypes
    <3>3. to.to \in {call.api} \cup IF call.api = "CopyFileW" THEN {"MoveFileW"} ELSE {}
      <4>1. CASE call.api = "MoveFileW"
        BY <1>8, <2>1, <4>1 DEF AsOf, HooksInv, OwnSlot
      <4>2. CASE call.api # "MoveFileW"
        <5>1. call.mine = call.api BY <1>8, <4>2 DEF AsOf
        <5> QED BY <1>2, <1>7, <1>12, <2>1, <5>1 DEF HooksInv, OwnSlot
      <4> QED BY <4>1, <4>2
    <3> HIDE DEF AfterCall, rest, to, step
    <3> QED BY <1>2, <1>3, <1>11, <1>12, <3>1, <3>2, <3>3
  <2>2. CASE step.slot # call.mine
    <3> HIDE DEF AfterCall, rest, to
    <3> QED BY <1>2, <1>3, <1>10, <1>11, <1>12, <2>2
  <2> QED BY <2>1, <2>2
<1>13. CASE to = Hooks!NULL /\ step.asks /\ call' = rest /\ UNCHANGED died
  <2>1. step.slot # call.mine
    BY <1>4, <1>9, <1>13 DEF StepOf
  <2> HIDE DEF AfterCall, rest, to
  <2> QED BY <1>2, <1>3, <1>10, <1>11, <1>13, <2>1
<1>14. CASE to = Hooks!NULL /\ ~step.asks /\ died' = step.slot /\ UNCHANGED call
  <2>1. CASE step.slot = call.mine
    <3>1. died' = "CopyFileW" /\ "MoveFileW" \in MayFail BY <1>9, <1>14, <2>1
    <3>2. Deaths' BY <3>1 DEF Deaths
    <3>3. hooking # "before" BY <1>1 DEF HooksInv, Started
    <3> QED BY <1>1, <1>5, <1>14, <3>2, <3>3, OnlyDeath
  <2>2. CASE step.slot = "DragQueryFileW" /\ call.mine \in Dropped
    <3>1. call.api \in Dropped BY <1>8, <2>2 DEF AsOf, Dropped
    <3>2. Deaths' BY <1>14, <2>2, <3>1 DEF Deaths
    <3>3. hooking # "before" BY <1>1 DEF HooksInv, Started
    <3> QED BY <1>1, <1>5, <1>14, <3>2, <3>3, OnlyDeath
  <2> QED BY <1>4, <1>14, <2>1, <2>2 DEF StepOf
<1> QED BY <1>4, <1>12, <1>13, <1>14 DEF Hooks!CallOn

LEMMA CallReturnsStep == HooksInv /\ Hooks!CallReturns => HooksInv'
<1> SUFFICES ASSUME HooksInv, Hooks!CallReturns PROVE HooksInv' OBVIOUS
<1>1. /\ UNCHANGED <<code, slot, apis, at, last, hooking, once, died, doing, pending, failures,
                  kept>>
      /\ died = "no" /\ call # Hooks!NoCall /\ call.registering = 0 /\ call' = Hooks!NoCall
  BY DEF Hooks!CallReturns, Hooks!Returning, Hooks!Alive, Hooks!entries, Hooks!loop, Hooks!detours
<1>2. /\ Hooks!NoCall.registering = 0
      /\ \A f \in Hooks!Proc : Hooks!NoCall.api # f /\ Hooks!NoCall.mine # f
  BY NobodyCalls, ListedNames
<1>3. Hooks!TypeOK' BY <1>1 DEF HooksInv, Hooks!TypeOK
<1>4. Started'
  <2>1. hooking # "before" BY <1>1 DEF HooksInv, Started
  <2>2. \A f \in Hooks!Proc : Fresh(f)' => Fresh(f) BY <1>1, <1>2, FreshKept
  <2> QED BY <1>1, <1>2, <2>1, <2>2 DEF HooksInv, Started, Hooks!Untouched
<1>5. ListBegins' BY <1>1 DEF HooksInv, ListBegins
<1>6. OwnCode' BY <1>1 DEF HooksInv, OwnCode
<1>7. OwnSlot'
  <2>1. \A m \in Hooks!Proc : InUse(m)' => InUse(m) BY <1>1, <1>2 DEF InUse
  <2> QED BY <1>1, <1>2, <2>1, ListedNames DEF HooksInv, OwnSlot, Hooks!Untouched
<1>8. CallsOn' BY <1>1 DEF CallsOn
<1>9. Deaths' BY <1>1 DEF Deaths
<1>10. Turns' BY <1>1, <1>2 DEF HooksInv, Turns, Disturbed
<1>11. Detachable'
  <2>1. doing["app"] = "nothing" BY <1>1 DEF HooksInv, Turns
  <2>2. \A g \in Hooks!Proc : (Arriving(g) => Arriving(g)') /\ (Arrived(g) => Arrived(g)')
    BY <1>1, <2>1 DEF Arriving, Arrived, Hooks!Pushes
  <2> QED BY <1>1, <2>2 DEF HooksInv, Detachable, Hooks!Untouched
<1> QED BY <1>3, <1>4, <1>5, <1>6, <1>7, <1>8, <1>9, <1>10, <1>11 DEF HooksInv

LEMMA HooksStep == HooksInv /\ [Hooks!Next]_(Hooks!hookVars) => HooksInv'
<1> SUFFICES ASSUME HooksInv, [Hooks!Next]_(Hooks!hookVars) PROVE HooksInv' OBVIOUS
<1>1. CASE UNCHANGED Hooks!hookVars
  <2>1. UNCHANGED <<code, slot, apis, at, last, hooking, once, call, died, doing, pending, failures,
                    kept>>
    BY <1>1 DEF Hooks!hookVars, Hooks!entries, Hooks!loop, Hooks!detours
  <2>2. Deaths' BY <2>1 DEF HooksInv, Deaths
  <2> QED BY <2>1, <2>2, OnlyDeath DEF HooksInv, Hooks!TypeOK
<1>2. CASE \E f \in Called : Hooks!Call(f) BY <1>2, CalledAssumption, CallStep
<1>3. CASE Hooks!Next /\ ~\E f \in Called : Hooks!Call(f)
  BY <1>3, HookStep, HookNextStep, DetourTargetProcStep, hookIFileOperationStep,
     FindIFileDialogStep, hookIFileDialogStep, UnhookStep, UnhookNextStep, UnDetourTargetProcStep,
     FindDropTargetStep, HookDropTargetStep, RegisterDragDropStep, CallOnStep, CallReturnsStep
     DEF Hooks!Next
<1> QED BY <1>1, <1>2, <1>3

LEMMA HooksInvariance == Hooks!Spec => []HooksInv
BY HooksStart, HooksStep, PTL DEF Hooks!Spec

\* The slots, the code, the list of apis and the call under way keep their types while
\* hook(), unhook() and the hooked functions run.
THEOREM HookTypes == Hooks!Spec => []Hooks!TypeOK
<1>1. HooksInv => Hooks!TypeOK BY DEF HooksInv
<1> QED BY <1>1, HooksInvariance, PTL

\* Whichever functions cannot be hooked, a call of the application reaches the function
\* it calls, but for CopyFileW's that lead to MoveFileW, or is refused by its X_Mine; a
\* NULL slot is called only where nobody has looked.
THEOREM CallsArrive == Hooks!Spec => []CallsReachTheirOwn
<1>1. HooksInv => CallsReachTheirOwn
  <2> SUFFICES ASSUME HooksInv PROVE CallsReachTheirOwn OBVIOUS
  <2>1. call.reached \subseteq {call.api} \cup IF call.api = "CopyFileW" THEN {"MoveFileW"} ELSE {}
    <3>1. Hooks!NoCall.reached = {} BY DEF Hooks!NoCall
    <3> QED BY <3>1 DEF HooksInv, CallsOn
  <2>2. Hooks!Returning => call.reached # {} \/ call.api \in Hooks!Refused
    <3> SUFFICES ASSUME Hooks!Returning, call.reached = {} PROVE call.api \in Hooks!Refused OBVIOUS
    <3>1. call # Hooks!NoCall /\ call.todo = <<>> BY DEF Hooks!Returning
    <3>2. call.mine \in Hooks!Refused BY <3>1 DEF HooksInv, CallsOn
    <3>3. call.mine = AsOf(call.api) BY <3>1 DEF HooksInv, OwnCode, AsOf
    <3> QED BY <3>2, <3>3 DEF AsOf, Hooks!Refused
  <2> QED BY <2>1, <2>2 DEF CallsReachTheirOwn, Hooks!CallsReachTheirOwn, HooksInv, Deaths, Dropped
<1> QED BY <1>1, HooksInvariance, PTL

\* Whichever hooks have failed, whatever Detours has refused to detach, and however the
\* application's registering of a drop target falls between the steps of hook() and
\* unhook(), a function is left hooked after unhook() only if Detours refused it, the list
\* lost it or never had it; and with no drop target registered nothing but what Detours
\* may refuse.
THEOREM UnhookedIsAsBefore == Hooks!Spec => []UnhookRestores
<1>1. HooksInv => UnhookRestores
  <2> SUFFICES ASSUME HooksInv PROVE UnhookRestores OBVIOUS
  <2>1. ASSUME hooking = "unhooked", NEW f \in Hooks!Proc, ~Hooks!Untouched(f),
               f \notin kept \cup {"IFileOperation_CopyItems", "CopyFileW"}
        PROVE  \/ \E n \in DOMAIN apis : n > last /\ apis[n].proc = f
               \/ doing["app"] \in Hooks!Pushes /\ f = Hooks!Registered
    <3>1. Arriving(f) \/ Arrived(f) BY <2>1 DEF HooksInv, Detachable
    <3>2. doing["hook"] \notin Hooks!Pushes BY <2>1 DEF HooksInv, Turns
    <3> QED BY <2>1, <3>1, <3>2 DEF Arriving, Arrived
  <2>2. once /\ call.registering = 0 => kept \subseteq MayFail
    BY DEF HooksInv, Turns, Disturbed
  <2> QED BY <2>1, <2>2 DEF UnhookRestores, Hooks!UnhookRestores
<1> QED BY <1>1, HooksInvariance, PTL

-----------------------------------------------------------------------------
(* PEFile: the names are sorted, and the headers lie in the file             *)

\* What a comparison of as many characters as a has tells of b.
LEMMA PrefixCharacters ==
    ASSUME NEW a \in Seq(Nat), NEW b \in Seq(Nat), PE!IsPrefix(a, b)
    PROVE  Len(a) <= Len(b) /\ \A m \in 1..Len(a) : a[m] = b[m]
<1>1. Len(a) \in Nat /\ Len(b) \in Nat /\ Len(a) <= Len(b) BY DEF PE!IsPrefix
<1>2. \A m \in 1..Len(a) : a[m] \in Nat /\ b[m] \in Nat BY <1>1
<1>3. \A m \in 1..Len(a) : SubSeq(a, 1, Len(a))[m] = a[m] /\ SubSeq(b, 1, Len(a))[m] = b[m]
  BY <1>1, <1>2, SubSeqProperties
<1> QED BY <1>1, <1>3 DEF PE!IsPrefix

\* A name that begins with another does not sort before it.
LEMMA LongerSortsAfter ==
    ASSUME NEW a \in Seq(Nat), NEW b \in Seq(Nat), PE!IsPrefix(b, a)
    PROVE  ~PE!Before(a, b)
<1> SUFFICES ASSUME NEW n \in 1..Len(b), n > Len(a) \/ a[n] < b[n]
             PROVE  FALSE
  BY DEF PE!Before
<1>1. Len(a) \in Nat /\ Len(b) \in Nat /\ Len(b) <= Len(a) /\ a[n] = b[n]
  BY PrefixCharacters
<1>2. b[n] \in Nat BY <1>1
<1> QED BY <1>1, <1>2

\* The first name that agrees is the one asked for: those it begins come after it.
LEMMA SearchIsRight ==
    ASSUME NEW t \in ExportTables, NEW i \in DOMAIN t.names, t.ordinals[i] < Len(t.functions)
    PROVE  PE!FindDllExportProcAddr32(t, t.names[i]) = t.functions[t.ordinals[i] + 1]
<1> DEFINE hits == {j \in DOMAIN t.names :
                      PE!Agrees(t.names[j], t.names[i]) /\ t.ordinals[j] < Len(t.functions)}
<1>1. t.names \in Seq(Seq(Nat)) /\ PE!Sorted(t.names) BY TablesAssumption
<1>2. DOMAIN t.names \subseteq Nat /\ \A j \in DOMAIN t.names : t.names[j] \in Seq(Nat) BY <1>1
<1>3. i \in hits BY DEF PE!Agrees, PE!IsPrefix
<1>4. ASSUME NEW j \in hits PROVE i <= j
  <2>1. j \in DOMAIN t.names /\ PE!IsPrefix(t.names[i], t.names[j]) BY DEF PE!Agrees
  <2>2. ~PE!Before(t.names[j], t.names[i]) BY <1>2, <2>1, LongerSortsAfter
  <2>3. ~(j < i) BY <1>1, <2>1, <2>2 DEF PE!Sorted
  <2> QED BY <1>2, <2>1, <2>3
<1>5. hits \subseteq Int BY <1>2
<1> HIDE DEF hits
<1>6. PE!Min(hits) = i BY <1>3, <1>4, <1>5, LeastIsMin
<1> QED BY <1>3, <1>6 DEF PE!FindDllExportProcAddr32, hits

\* Numbers that are small enough do not wrap.
LEMMA NoWrap ==
    ASSUME NEW n \in Nat, n < Ulong
    PROVE  PE!Wrapped(n) = n
BY Small, FilesAssumption DEF PE!Wrapped

\* The numbers of a file.
LEMMA FileNumbers ==
    ASSUME file \in Files
    PROVE  /\ Ulong \in Nat \ {0} /\ Ulong \div 2 \in Nat /\ 2 * (Ulong \div 2) <= Ulong
           /\ file.size \in Nat /\ file.size < Ulong /\ file.lfanew \in Nat /\ file.lfanew < Ulong
           /\ file.optional \in Nat /\ Len(file.sections) \in Nat
           /\ DOMAIN file.sections = 1..Len(file.sections)
           /\ 264 + Len(file.sections) * 40 < Ulong \div 2
<1>1. /\ Ulong \in Nat \ {0} /\ file.size \in 0..(Ulong - 1) /\ file.lfanew \in 0..(Ulong - 1)
      /\ file.optional \in Nat /\ file.sections \in Seq([va : Nat, vsize : Nat, raw : Nat])
      /\ 264 + Len(file.sections) * 40 < Ulong \div 2
  BY FilesAssumption DEF PE!NtHeaders64, PE!SectionHeader
<1>2. Ulong \div 2 \in Nat /\ 2 * (Ulong \div 2) <= Ulong BY <1>1
<1>3. DOMAIN file.sections = 1..Len(file.sections) /\ Len(file.sections) \in Nat BY <1>1, Elements
<1> QED BY <1>1, <1>2, <1>3

\* A file that is excused from lying in itself.
Excused == PE!Negative /\ (build = "Win32" \/ file.size > Ulong \div 2)

\* With any other file no sum wraps where the headers fit, and every function finds them
\* where e_lfanew says.
LEMMA HeadersInFile ==
    ASSUME file \in Files, ~Excused, build \in {"Win32", "x64"}, PE!HeadersFit
    PROVE  /\ PE!Place = file.lfanew /\ PE!PlaceSigned = file.lfanew /\ ~PE!Negative
           /\ file.lfanew + 248 < file.size
<1>1. /\ Ulong \in Nat \ {0} /\ Ulong \div 2 \in Nat /\ 2 * (Ulong \div 2) <= Ulong
      /\ file.size \in Nat /\ file.lfanew \in Nat /\ Len(file.sections) \in Nat
      /\ 264 + Len(file.sections) * 40 < Ulong \div 2
  BY FileNumbers
<1>2. file.size > IF build = "Win32" THEN PE!Wrapped(file.lfanew + 248) ELSE file.lfanew + 248
  BY DEF PE!HeadersFit, PE!NtHeaders32
<1>3. ~PE!Negative
  <2> SUFFICES ASSUME PE!Negative PROVE FALSE OBVIOUS
  <2>1. build = "x64" /\ ~(file.size > Ulong \div 2) BY DEF Excused
  <2>2. file.size > file.lfanew + 248 BY <1>2, <2>1
  <2> QED BY <1>1, <2>1, <2>2 DEF PE!Negative
<1>4. file.lfanew < Ulong \div 2 BY <1>1, <1>3 DEF PE!Negative
<1>5. 264 < Ulong \div 2
  <2>1. Len(file.sections) * 40 >= 0 BY <1>1
  <2> QED BY <1>1, <2>1
<1>6. file.lfanew + 248 \in Nat /\ file.lfanew + 248 < Ulong BY <1>1, <1>4, <1>5
<1>7. PE!Wrapped(file.lfanew + 248) = file.lfanew + 248 BY <1>6, NoWrap
<1>8. file.lfanew + 248 < file.size BY <1>1, <1>2, <1>7
<1>9. PE!Place = file.lfanew BY <1>1, <1>6 DEF PE!Place, PE!NtHeaders32
<1>10. PE!PlaceSigned = file.lfanew BY <1>1, <1>4, <1>9 DEF PE!PlaceSigned
<1> QED BY <1>3, <1>8, <1>9, <1>10

\* The section table ends after the file by no more than the last test does not count.
LEMMA SectionsInFile ==
    ASSUME file \in Files, ~Excused, build \in {"Win32", "x64"}, PE!HeadersFit, PE!SectionsFit
    PROVE  /\ PE!Uncounted \in Int
           /\ file.lfanew + 24 + file.optional + Len(file.sections) * 40 <= file.size + PE!Uncounted
<1>1. /\ Ulong \in Nat \ {0} /\ Ulong \div 2 \in Nat /\ 2 * (Ulong \div 2) <= Ulong
      /\ file.size \in Nat /\ file.lfanew \in Nat /\ Len(file.sections) \in Nat
      /\ 264 + Len(file.sections) * 40 < Ulong \div 2 /\ file.optional \in Nat
  BY FileNumbers
<1>2. file.lfanew < Ulong \div 2 BY <1>1, HeadersInFile DEF PE!Negative
<1>3. PICK tail : tail = Len(file.sections) * 40 OBVIOUS
<1>4. tail \in Nat /\ 264 + tail < Ulong \div 2 BY <1>1, <1>3
<1>5. PE!Counted \in Nat /\ PE!Counted + tail < Ulong
  <2>1. PE!Counted \in {248, 264, file.lfanew} BY DEF PE!Counted, PE!NtHeaders32, PE!NtHeaders64
  <2> QED BY <1>1, <1>2, <1>4, <2>1
<1>6. PE!Wrapped(PE!Counted + tail) = PE!Counted + tail
  <2>1. PE!Counted + tail \in Nat BY <1>4, <1>5
  <2> QED BY <1>5, <2>1, NoWrap
<1>7. file.size >= PE!Counted + tail BY <1>3, <1>6 DEF PE!SectionsFit, PE!SectionHeader
<1>8. PE!Uncounted = file.lfanew + 24 + file.optional - PE!Counted BY DEF PE!Uncounted
<1>9. PE!Uncounted \in Int BY <1>1, <1>5, <1>8
<1>10. file.lfanew + 24 + file.optional + tail <= file.size + PE!Uncounted
  <2>1. PICK c, place, more, size :
           c = PE!Counted /\ place = file.lfanew /\ more = file.optional /\ size = file.size
    OBVIOUS
  <2>2. c \in Nat /\ place \in Nat /\ more \in Nat /\ size \in Nat BY <1>1, <1>5, <2>1
  <2>3. size >= c + tail BY <1>7, <2>1
  <2>4. PE!Uncounted = place + 24 + (more - c) BY <1>8, <2>1
  <2>5. place + 24 + more + tail <= size + (place + 24 + (more - c)) BY <1>4, <2>2, <2>3
  <2> QED BY <2>1, <2>4, <2>5
<1> QED BY <1>3, <1>9, <1>10

\* What lies where it may.
Lies(r) ==
    0 <= r.from /\ r.to <= file.size + (IF r.of = "sections" THEN PE!Uncounted ELSE 0)

LEMMA FieldLies ==
    ASSUME NEW a \in Nat, NEW b \in Nat, file.size \in Nat, b <= file.size
    PROVE  Lies(PE!Bytes(a, b))
BY DEF Lies, PE!Bytes

LEMMA HeadersLie ==
    ASSUME file \in Files, ~Excused, build \in {"Win32", "x64"}, PE!HeadersFit,
           NEW place, place = PE!Place \/ place = PE!PlaceSigned
    PROVE  /\ Lies(PE!Signature(place)) /\ Lies(PE!NumberOfSections(place))
           /\ Lies(PE!SizeOfOptionalHeader(place)) /\ Lies(PE!Characteristics(place))
           /\ Lies(PE!Magic(place)) /\ Lies(PE!Subsystem(place)) /\ Lies(PE!ImportDirectory(place))
<1>1. place = file.lfanew /\ file.lfanew + 248 < file.size BY HeadersInFile
<1>2. file.size \in Nat /\ place \in Nat BY <1>1, FileNumbers
<1>3. \A a, b \in 0..248 : Lies(PE!Bytes(place + a, place + b))
  <2> TAKE a, b \in 0..248
  <2>1. place + a \in Nat /\ place + b \in Nat /\ place + b <= file.size BY <1>1, <1>2
  <2> QED BY <1>2, <2>1, FieldLies
<1>4. Lies(PE!Bytes(place, place + 4))
  <2>1. place + 4 \in Nat /\ place + 4 <= file.size BY <1>1, <1>2
  <2> QED BY <1>2, <2>1, FieldLies
<1>5. {6, 8, 20, 22, 24, 26, 92, 94, 128, 132} \subseteq 0..248 OBVIOUS
<1>6. Lies(PE!NumberOfSections(place)) BY <1>3, <1>5 DEF PE!NumberOfSections
<1>7. Lies(PE!SizeOfOptionalHeader(place)) BY <1>3, <1>5 DEF PE!SizeOfOptionalHeader
<1>8. Lies(PE!Characteristics(place)) /\ Lies(PE!Magic(place))
  BY <1>3, <1>5 DEF PE!Characteristics, PE!Magic
<1>9. Lies(PE!Subsystem(place)) BY <1>3, <1>5 DEF PE!Subsystem
<1>10. Lies(PE!ImportDirectory(place)) BY <1>3, <1>5 DEF PE!ImportDirectory
<1> QED BY <1>4, <1>6, <1>7, <1>8, <1>9, <1>10 DEF PE!Signature

LEMMA SectionsLie ==
    ASSUME file \in Files, ~Excused, build \in {"Win32", "x64"}, PE!HeadersFit, PE!SectionsFit,
           NEW rva, NEW r \in PE!LooksUp(rva)
    PROVE  Lies(r)
<1>1. /\ PE!PlaceSigned = file.lfanew /\ file.lfanew \in Nat /\ file.optional \in Nat
      /\ file.size \in Nat /\ Len(file.sections) \in Nat
      /\ DOMAIN file.sections = 1..Len(file.sections)
  BY HeadersInFile, FileNumbers
<1>2. /\ PE!Uncounted \in Int
      /\ file.lfanew + 24 + file.optional + Len(file.sections) * 40 <= file.size + PE!Uncounted
  BY SectionsInFile
<1>3. PICK n \in 1..Len(file.sections), to \in {16, 24} :
         r = PE!SectionBytes(file.lfanew, n, 8, to)
  BY <1>1 DEF PE!LooksUp
<1>4. PICK skipped, total : skipped = (n - 1) * 40 /\ total = Len(file.sections) * 40 OBVIOUS
<1>5. skipped \in Nat /\ total \in Nat /\ skipped + 40 <= total BY <1>1, <1>3, <1>4
<1>6. PICK first : first = file.lfanew + 24 + file.optional + skipped OBVIOUS
<1>7. r.from = first + 8 /\ r.to = first + to /\ r.of = "sections"
  BY <1>3, <1>4, <1>6 DEF PE!SectionBytes, PE!SectionHeader
<1>8. first \in Nat /\ first + 40 <= file.lfanew + 24 + file.optional + total
  BY <1>1, <1>5, <1>6
<1>9. PICK end : end = file.size + PE!Uncounted OBVIOUS
<1>10. end \in Int /\ file.lfanew + 24 + file.optional + total <= end BY <1>1, <1>2, <1>4, <1>9
<1>11. to \in Nat /\ to <= 40 BY <1>3
<1>12. 0 <= r.from BY <1>7, <1>8
<1>13. first + to <= end BY <1>1, <1>5, <1>8, <1>10, <1>11
<1>14. r.to <= file.size + PE!Uncounted BY <1>7, <1>9, <1>13
<1> QED BY <1>7, <1>12, <1>14 DEF Lies

\* What has been accepted has its headers, and all that has been read lies where it may.
FileInv ==
    /\ file \in Files /\ table \in ExportTables /\ build \in {"Win32", "x64"}
    /\ found \in {PE!NotYet, PE!FindDllExportProcAddr32(table, wanted)}
    /\ stage = "accepted" => PE!HeadersFit /\ PE!SectionsFit
    /\ Excused \/ \A r \in reads : Lies(r)

LEMMA IsPEStep == FileInv /\ PE!IsPE => FileInv'
<1> SUFFICES ASSUME FileInv, PE!IsPE PROVE FileInv' OBVIOUS
<1>1. /\ UNCHANGED <<build, file, table, wanted, found>>
      /\ stage' = "accepted" => PE!HeadersFit /\ PE!SectionsFit
  BY DEF PE!IsPE
<1>2. ASSUME ~Excused, NEW r \in reads' PROVE Lies(r)
  <2>1. CASE PE!HeadersFit /\ r \in {PE!Signature(PE!Place), PE!Magic(PE!Place), PE!NumberOfSections(PE!Place)}
    BY <1>2, <2>1, HeadersLie DEF FileInv
  <2>2. CASE PE!LongEnough /\ r \in {PE!Bytes(0, 2), PE!Bytes(60, 64)}
    <3>1. file.size \in Nat /\ file.size > 312
      BY <2>2, FileNumbers DEF FileInv, PE!LongEnough, PE!DosHeader, PE!NtHeaders32
    <3>2. Lies(PE!Bytes(0, 2)) /\ Lies(PE!Bytes(60, 64)) BY <3>1, FieldLies
    <3> QED BY <2>2, <3>2
  <2> QED BY <1>2, <2>1, <2>2 DEF PE!IsPE, PE!When
<1>3. Excused' \/ \A r \in reads' : Lies(r)'
  BY <1>1, <1>2 DEF Excused, Lies, PE!Negative, PE!Uncounted, PE!Counted
<1>4. stage' = "accepted" => (PE!HeadersFit /\ PE!SectionsFit)'
  BY <1>1 DEF PE!HeadersFit, PE!LongEnough, PE!SectionsFit, PE!Counted
<1> QED BY <1>1, <1>3, <1>4 DEF FileInv

LEMMA ClassifyStep == FileInv /\ PE!ClassifyPE => FileInv'
<1> SUFFICES ASSUME FileInv, PE!ClassifyPE PROVE FileInv' OBVIOUS
<1>1. /\ UNCHANGED <<build, file, table, wanted, found>>
      /\ stage = "accepted" /\ stage' # "accepted"
      /\ reads' \subseteq reads \cup {PE!Characteristics(PE!PlaceSigned)}
                   \cup {PE!Subsystem(PE!PlaceSigned)} \cup PE!ReadsOfIsDriver32
  BY DEF PE!ClassifyPE, PE!When
<1>2. PE!HeadersFit /\ PE!SectionsFit BY <1>1 DEF FileInv
<1>3. ASSUME ~Excused, NEW r \in reads' PROVE Lies(r)
  <2>1. CASE r \in reads BY <1>3, <2>1 DEF FileInv
  <2>2. CASE r \in {PE!Characteristics(PE!PlaceSigned), PE!Subsystem(PE!PlaceSigned),
                    PE!ImportDirectory(PE!PlaceSigned), PE!NumberOfSections(PE!PlaceSigned),
                    PE!SizeOfOptionalHeader(PE!PlaceSigned)}
    BY <1>2, <1>3, <2>2, HeadersLie DEF FileInv
  <2>3. CASE \E rva : r \in PE!LooksUp(rva) BY <1>2, <1>3, <2>3, SectionsLie DEF FileInv
  <2>4. r \in PE!ReadsOfIsDriver32 =>
          \/ r \in {PE!ImportDirectory(PE!PlaceSigned), PE!NumberOfSections(PE!PlaceSigned),
                    PE!SizeOfOptionalHeader(PE!PlaceSigned)}
          \/ \E rva : r \in PE!LooksUp(rva)
    BY DEF PE!ReadsOfIsDriver32, PE!When
  <2> QED BY <1>1, <1>3, <2>1, <2>2, <2>3, <2>4
<1>4. Excused' \/ \A r \in reads' : Lies(r)'
  BY <1>1, <1>3 DEF Excused, Lies, PE!Negative, PE!Uncounted, PE!Counted
<1> QED BY <1>1, <1>4 DEF FileInv

LEMMA FileInvariance == PE!Spec => []FileInv
<1>1. PE!Init => FileInv BY DEF PE!Init, FileInv
<1>2. FileInv /\ [PE!Next]_(PE!peVars) => FileInv'
  <2> SUFFICES ASSUME FileInv, [PE!Next]_(PE!peVars) PROVE FileInv' OBVIOUS
  <2>1. CASE PE!FindExport \/ UNCHANGED PE!peVars
    <3>1. /\ UNCHANGED <<build, file, stage, reads, table, wanted>>
          /\ found' \in {found, PE!FindDllExportProcAddr32(table, wanted)}
      BY <2>1 DEF PE!FindExport, PE!peVars
    <3> QED
      BY <3>1 DEF FileInv, Excused, Lies, PE!Negative, PE!Uncounted, PE!Counted, PE!HeadersFit,
                  PE!LongEnough, PE!SectionsFit
  <2> QED BY <2>1, IsPEStep, ClassifyStep DEF PE!Next
<1> QED BY <1>1, <1>2, PTL DEF PE!Spec

\* In a sorted table of any length FindDllExportProcAddr32 finds the function of the name
\* it is asked for, although it compares only as many characters as the name has.
THEOREM ExportsAreFound == PE!Spec => []ExportFound
<1>1. FileInv => ExportFound BY SearchIsRight DEF FileInv, ExportFound, PE!ExportFound
<1> QED BY <1>1, FileInvariance, PTL

\* Whatever the size of the file and its e_lfanew, and however the sums of unsigned long
\* wrap, what IsPE and the classification read of the headers lies in the file, and what
\* they read of the section table ends after it by no more than the last test of IsPE does
\* not count, but for an e_lfanew that is negative, in a 32-bit build or in a file of more
\* than half of what an unsigned long holds.
THEOREM HeadersAreThere == PE!Spec => []AcceptedIsReadable
<1>1. FileInv => AcceptedIsReadable
  BY DEF FileInv, Excused, Lies, AcceptedIsReadable, PE!AcceptedIsReadable
<1> QED BY <1>1, FileInvariance, PTL

-----------------------------------------------------------------------------
(* OpenedFilePath: the words up to where the function is                     *)

\* The list may end at an index that counts from 0; the indices of a word's letters.
ListEndsAt(n) == buffer[n + 1] = 0 /\ (n + 1 = OpenedPath!bufLen \/ buffer[n + 2] = 0)
Letters(k) == path[k].at..(path[k].at + path[k].len - 1)

\* The buffer ends with a NUL.
BufferFits == buffer \in Seq({0, 1}) /\ OpenedPath!bufLen \in Nat /\ OpenedPath!bufLen > 0
      /\ buffer[OpenedPath!bufLen] = 0

\* Where the function is, and that no list has ended before.
Within ==
    /\ index \in 0..(OpenedPath!bufLen - 1) /\ buffer[index + 1] = 0
    /\ \A n \in 0..(index - 1) : ~ListEndsAt(n)
    /\ looked \subseteq 0..(OpenedPath!bufLen - 1)
    /\ ended \in BOOLEAN /\ (ended => ListEndsAt(index))

\* The words lie one after the other, up to the index.
InOrder ==
    /\ path \in Seq([at : Nat, len : Nat]) /\ path # <<>>
    /\ path[Len(path)].at + path[Len(path)].len = index
    /\ \A k \in DOMAIN path :
          /\ path[k].at + path[k].len <= index
          /\ k > 1 => path[k].len > 0 /\ path[k].at = path[k - 1].at + path[k - 1].len + 1

\* They have the letters up to the index, and nothing else.
Complete ==
    /\ \A k \in DOMAIN path : \A m \in Letters(k) : buffer[m + 1] # 0
    /\ \A m \in 0..index : buffer[m + 1] # 0 => \E k \in DOMAIN path : m \in Letters(k)

PathInv == BufferFits /\ Within /\ InOrder /\ Complete

\* A word that begins before the end of the list ends in the buffer, at a NUL.
LEMMA WordEnds ==
    ASSUME BufferFits, NEW n \in 0..(OpenedPath!bufLen - 1)
    PROVE  /\ OpenedPath!Wcslen(n) \in Nat
           /\ n + OpenedPath!Wcslen(n) \in n..(OpenedPath!bufLen - 1)
           /\ buffer[n + OpenedPath!Wcslen(n) + 1] = 0
           /\ \A m \in n..(n + OpenedPath!Wcslen(n) - 1) : buffer[m + 1] # 0
<1> DEFINE e == OpenedPath!Min(OpenedPath!NulFrom(n))
<1>1. OpenedPath!bufLen \in Nat /\ OpenedPath!bufLen > 0 /\ buffer[OpenedPath!bufLen] = 0
  BY DEF BufferFits
<1>2. OpenedPath!NulFrom(n) \in SUBSET Nat BY <1>1 DEF OpenedPath!NulFrom
<1>3. OpenedPath!bufLen - 1 \in OpenedPath!NulFrom(n) BY <1>1 DEF OpenedPath!NulFrom
<1>4. e \in OpenedPath!NulFrom(n) /\ \A m \in OpenedPath!NulFrom(n) : e <= m
  BY <1>2, <1>3, MinOfNaturals
<1>5. e \in n..(OpenedPath!bufLen - 1) /\ buffer[e + 1] = 0
  BY <1>1, <1>3, <1>4 DEF OpenedPath!NulFrom
<1>6. \A m \in n..(e - 1) : buffer[m + 1] # 0
  <2> SUFFICES ASSUME NEW m \in n..(e - 1), buffer[m + 1] = 0 PROVE FALSE OBVIOUS
  <2>1. m \in OpenedPath!NulFrom(n) BY <1>1, <1>5 DEF OpenedPath!NulFrom
  <2> QED BY <1>1, <1>4, <1>5, <2>1
<1>7. OpenedPath!Wcslen(n) = e - n BY DEF OpenedPath!Wcslen
<1> HIDE DEF e
<1>8. n + OpenedPath!Wcslen(n) = e BY <1>1, <1>5, <1>7
<1> QED BY <1>1, <1>5, <1>6, <1>7, <1>8

LEMMA PathStart == OpenedPath!Init => PathInv
<1> SUFFICES ASSUME OpenedPath!Init PROVE PathInv OBVIOUS
<1>1. BufferFits BY BuffersAssumption DEF OpenedPath!Init, BufferFits, OpenedPath!bufLen
<1> DEFINE w == OpenedPath!Wcslen(0)
           first == [at |-> 0, len |-> w]
<1>2. index = w /\ path = <<first>> /\ looked = 0..w /\ ended = FALSE BY DEF OpenedPath!Init
<1>3. /\ w \in Nat /\ w \in 0..(OpenedPath!bufLen - 1) /\ buffer[w + 1] = 0
      /\ \A m \in 0..(w - 1) : buffer[m + 1] # 0
  <2>1. OpenedPath!bufLen \in Nat /\ 0 \in 0..(OpenedPath!bufLen - 1) BY <1>1 DEF BufferFits
  <2>2. w \in Nat /\ 0 + w = w BY <1>1, <2>1, WordEnds
  <2> QED BY <1>1, <2>1, <2>2, WordEnds
<1> HIDE DEF w
<1>4. OpenedPath!bufLen \in Nat BY <1>1 DEF BufferFits
<1>5. Within
  <2>1. \A n \in 0..(w - 1) : ~ListEndsAt(n) BY <1>3 DEF ListEndsAt
  <2>2. 0..w \subseteq 0..(OpenedPath!bufLen - 1) BY <1>3, <1>4
  <2> QED BY <1>2, <1>3, <2>1, <2>2 DEF Within
<1>6. /\ DOMAIN path = {1} /\ Len(path) = 1 /\ path[1].at = 0 /\ path[1].len = w
      /\ path \in Seq([at : Nat, len : Nat])
  BY <1>2, <1>3
<1>7. InOrder BY <1>2, <1>3, <1>6 DEF InOrder
<1>8. Complete
  <2>1. Letters(1) = 0..(w - 1) BY <1>3, <1>6 DEF Letters
  <2>2. \A m \in 0..w : m \in 0..(w - 1) \/ m = w BY <1>3
  <2> QED BY <1>2, <1>3, <1>6, <2>1, <2>2 DEF Complete
<1> QED BY <1>1, <1>5, <1>7, <1>8 DEF PathInv

LEMMA StopStep == PathInv /\ OpenedPath!Stop => PathInv'
<1> SUFFICES ASSUME PathInv, OpenedPath!Stop PROVE PathInv' OBVIOUS
<1>1. UNCHANGED <<buffer, index, path>> /\ ended' = TRUE BY DEF OpenedPath!Stop
<1>2. /\ OpenedPath!bufLen \in Nat /\ index \in 0..(OpenedPath!bufLen - 1) /\ buffer[index + 1] = 0
      /\ looked \subseteq 0..(OpenedPath!bufLen - 1)
  BY DEF PathInv, BufferFits, Within
<1>3. looked' \subseteq 0..(OpenedPath!bufLen - 1) /\ ListEndsAt(index)
  <2>1. CASE OpenedPath!EndOfBuffer /\ UNCHANGED looked
    BY <1>2, <2>1 DEF OpenedPath!EndOfBuffer, ListEndsAt
  <2>2. CASE ~OpenedPath!EndOfBuffer /\ OpenedPath!TwoNuls
        /\ looked' = looked \cup {index, index + 1}
    BY <1>2, <2>2 DEF OpenedPath!EndOfBuffer, OpenedPath!TwoNuls, ListEndsAt
  <2> QED BY <2>1, <2>2 DEF OpenedPath!Stop
<1>4. BufferFits' /\ InOrder' BY <1>1 DEF PathInv, BufferFits, InOrder, OpenedPath!bufLen
<1>5. Within' BY <1>1, <1>3 DEF PathInv, Within, ListEndsAt, OpenedPath!bufLen
<1>6. Complete' BY <1>1 DEF PathInv, Complete, Letters
<1> QED BY <1>4, <1>5, <1>6 DEF PathInv

LEMMA Places ==
    ASSUME NEW s \in Seq([at : Nat, len : Nat])
    PROVE  /\ DOMAIN s = 1..Len(s) /\ Len(s) \in Nat /\ (s # <<>> => Len(s) # 0)
           /\ \A k \in DOMAIN s : s[k].at \in Nat /\ s[k].len \in Nat
<1>1. \A k \in DOMAIN s : s[k] \in [at : Nat, len : Nat] BY Elements
<1> QED BY <1>1

LEMMA AppendStep == PathInv /\ OpenedPath!AppendName => PathInv'
<1> SUFFICES ASSUME PathInv, OpenedPath!AppendName PROVE PathInv' OBVIOUS
<1> DEFINE w == OpenedPath!Wcslen(index + 1)
           word == [at |-> index + 1, len |-> w]
<1>0. PICK new : new = Len(path) + 1 OBVIOUS
<1>1. /\ UNCHANGED <<buffer, ended>> /\ ~ended /\ ~OpenedPath!EndOfBuffer /\ ~OpenedPath!TwoNuls
      /\ path' = Append(path, word) /\ index' = index + w + 1
      /\ looked' = looked \cup index..(index + 1 + w)
  BY DEF OpenedPath!AppendName
<1>2. /\ OpenedPath!bufLen \in Nat /\ index \in 0..(OpenedPath!bufLen - 1) /\ buffer[index + 1] = 0
      /\ looked \subseteq 0..(OpenedPath!bufLen - 1) /\ \A n \in 0..(index - 1) : ~ListEndsAt(n)
  BY DEF PathInv, BufferFits, Within
<1>3. index + 1 \in 0..(OpenedPath!bufLen - 1) /\ buffer[index + 2] # 0
  BY <1>1, <1>2 DEF OpenedPath!EndOfBuffer, OpenedPath!TwoNuls
<1>4. /\ w \in Nat /\ index + 1 + w \in (index + 1)..(OpenedPath!bufLen - 1)
      /\ buffer[index + 1 + w + 1] = 0
      /\ \A m \in (index + 1)..(index + 1 + w - 1) : buffer[m + 1] # 0
  BY <1>3, WordEnds DEF PathInv
<1> HIDE DEF w
<1>5. index + 1 + w = index + w + 1 /\ (index + 1) + 1 = index + 2 BY <1>2, <1>4
<1>6. w > 0
  <2> SUFFICES ASSUME w = 0 PROVE FALSE BY <1>4
  <2>1. index + 1 + w + 1 = index + 2 BY <1>2
  <2> QED BY <1>3, <1>4, <2>1
<1>7. BufferFits' BY <1>1 DEF PathInv, BufferFits, OpenedPath!bufLen
<1>8. Within'
  <2>1. index' \in 0..(OpenedPath!bufLen - 1) /\ buffer[index' + 1] = 0 BY <1>1, <1>2, <1>4, <1>5
  <2>2. ASSUME NEW n \in 0..(index' - 1) PROVE ~ListEndsAt(n)
    <3>1. CASE n < index BY <1>2, <2>2, <3>1
    <3>2. CASE n = index BY <1>2, <1>3, <3>2 DEF ListEndsAt
    <3>3. CASE n > index
      <4>1. n \in (index + 1)..(index + 1 + w - 1) BY <1>1, <1>2, <1>4, <2>2, <3>3
      <4> QED BY <1>4, <4>1 DEF ListEndsAt
    <3> QED BY <1>1, <1>2, <1>4, <2>2, <3>1, <3>2, <3>3
  <2>3. looked' \subseteq 0..(OpenedPath!bufLen - 1) BY <1>1, <1>2, <1>4
  <2> QED BY <1>1, <2>1, <2>2, <2>3 DEF PathInv, Within, ListEndsAt, OpenedPath!bufLen
<1>9. /\ path \in Seq([at : Nat, len : Nat]) /\ path # <<>>
      /\ path[Len(path)].at + path[Len(path)].len = index
      /\ \A k \in DOMAIN path :
            /\ path[k].at + path[k].len <= index
            /\ k > 1 => path[k].len > 0 /\ path[k].at = path[k - 1].at + path[k - 1].len + 1
  BY DEF PathInv, InOrder
<1>10. /\ Len(path) \in Nat \ {0} /\ DOMAIN path = 1..Len(path)
       /\ \A k \in DOMAIN path : path[k].at \in Nat /\ path[k].len \in Nat
  BY <1>9, Places
<1>11. word.at = index + 1 /\ word.len = w /\ word \in [at : Nat, len : Nat] BY <1>2, <1>4
<1> HIDE DEF word
<1>12. /\ path' \in Seq([at : Nat, len : Nat]) /\ Len(path') = new
       /\ DOMAIN path' = DOMAIN path \cup {new}
       /\ \A k \in DOMAIN path : path'[k] = path[k]
       /\ path'[new] = word
  BY <1>0, <1>1, <1>9, <1>11, AppendFacts
<1>13. InOrder'
  <2>1. path' # <<>> BY <1>0, <1>10, <1>12
  <2>2. path'[new].at + path'[new].len = index' BY <1>1, <1>2, <1>4, <1>11, <1>12
  <2>3. ASSUME NEW k \in DOMAIN path
        PROVE  /\ path'[k].at + path'[k].len <= index'
               /\ k > 1 => path'[k].len > 0
                           /\ path'[k].at = path'[k - 1].at + path'[k - 1].len + 1
    <3>1. path'[k] = path[k] /\ (k > 1 => path'[k - 1] = path[k - 1]) BY <1>10, <1>12
    <3>2. path[k].at + path[k].len <= index BY <1>9
    <3>3. path[k].at + path[k].len <= index' BY <1>1, <1>2, <1>4, <1>10, <3>2
    <3> QED BY <1>9, <3>1, <3>3
  <2>4. /\ path'[new].at + path'[new].len <= index'
        /\ path'[new].len > 0
        /\ path'[new].at = path'[new - 1].at + path'[new - 1].len + 1
    <3>1. path'[new - 1] = path[Len(path)] BY <1>0, <1>10, <1>12
    <3> QED BY <1>1, <1>2, <1>4, <1>6, <1>9, <1>11, <1>12, <3>1
  <2> QED BY <1>12, <2>1, <2>2, <2>3, <2>4 DEF InOrder
<1>14. Complete'
  <2>1. \A k \in DOMAIN path : Letters(k)' = Letters(k) BY <1>12 DEF Letters
  <2>2. (path'[new].at)..(path'[new].at + path'[new].len - 1) = (index + 1)..(index + 1 + w - 1)
    BY <1>11, <1>12
  <2>3. ASSUME NEW k \in DOMAIN path', NEW m \in Letters(k)' PROVE buffer[m + 1] # 0
    <3>1. CASE k \in DOMAIN path BY <2>1, <2>3, <3>1 DEF PathInv, Complete
    <3>2. CASE k = new BY <1>4, <2>2, <2>3, <3>2 DEF Letters
    <3> QED BY <1>12, <3>1, <3>2
  <2>4. ASSUME NEW m \in 0..index', buffer[m + 1] # 0
        PROVE  \E k \in DOMAIN path' : m \in Letters(k)'
    <3>1. CASE m <= index
      <4>1. PICK k \in DOMAIN path : m \in Letters(k)
        BY <1>2, <2>4, <3>1 DEF PathInv, Complete
      <4> QED BY <1>12, <2>1, <4>1
    <3>2. CASE m > index
      <4>1. m # index' BY <1>1, <1>4, <1>5, <2>4
      <4>2. m \in (index + 1)..(index + 1 + w - 1) BY <1>1, <1>2, <1>4, <2>4, <3>2, <4>1
      <4>3. m \in Letters(new)' BY <2>2, <4>2 DEF Letters
      <4> QED BY <1>12, <4>3
    <3> QED BY <1>1, <1>2, <1>4, <3>1, <3>2
  <2> QED BY <1>1, <2>3, <2>4 DEF Complete
<1> QED BY <1>7, <1>8, <1>13, <1>14 DEF PathInv

LEMMA PathInvariance == OpenedPath!Spec => []PathInv
<1>1. ASSUME PathInv, UNCHANGED OpenedPath!pathVars PROVE PathInv'
  BY <1>1 DEF OpenedPath!pathVars, PathInv, BufferFits, Within, InOrder, Complete, Letters,
              ListEndsAt, OpenedPath!bufLen
<1>2. PathInv /\ [OpenedPath!Next]_(OpenedPath!pathVars) => PathInv'
  BY <1>1, StopStep, AppendStep DEF OpenedPath!Next
<1> QED BY <1>2, PathStart, PTL DEF OpenedPath!Spec

\* The path that is made of GetOpenFileName's buffer has each of its words once, in order,
\* up to the end of the list, and nothing is read beyond the buffer: for any buffer with
\* a NUL at its end.
THEOREM AllNamesRead == OpenedPath!Spec => []EveryNameOnce
<1>1. PathInv => EveryNameOnce
  <2> SUFFICES ASSUME PathInv, ended PROVE EveryNameOnce
    BY DEF EveryNameOnce, OpenedPath!EveryNameOnce
  <2>1. OpenedPath!bufLen \in Nat /\ index \in 0..(OpenedPath!bufLen - 1) /\ ListEndsAt(index)
    BY DEF PathInv, BufferFits, Within
  <2>2. OpenedPath!ListEnd = index
    <3> DEFINE ends == {n \in 0..(OpenedPath!bufLen - 1) :
                          buffer[n + 1] = 0 /\ (n + 1 = OpenedPath!bufLen \/ buffer[n + 2] = 0)}
    <3>1. index \in ends BY <2>1 DEF ListEndsAt
    <3>2. \A n \in ends : index <= n
      <4> SUFFICES ASSUME NEW n \in ends, n < index PROVE FALSE BY <2>1
      <4>1. n \in 0..(index - 1) /\ ListEndsAt(n) BY <2>1 DEF ListEndsAt
      <4> QED BY <4>1 DEF PathInv, Within
    <3>3. ends \subseteq Int OBVIOUS
    <3>4. OpenedPath!Min(ends) = index
      <4> HIDE DEF ends
      <4> QED BY <3>1, <3>2, <3>3, LeastIsMin
    <3> QED BY <3>4 DEF OpenedPath!ListEnd
  <2>3. \A k \in DOMAIN path : path[k].at \in Nat /\ path[k].len \in Nat
    BY Places DEF PathInv, InOrder
  <2>4. {n \in 0..(index - 1) : buffer[n + 1] # 0} = UNION {Letters(k) : k \in DOMAIN path}
    <3>1. ASSUME NEW n \in 0..(index - 1), buffer[n + 1] # 0
          PROVE  \E k \in DOMAIN path : n \in Letters(k)
      BY <2>1, <3>1 DEF PathInv, Complete
    <3>2. ASSUME NEW k \in DOMAIN path, NEW n \in Letters(k)
          PROVE  n \in 0..(index - 1) /\ buffer[n + 1] # 0
      <4>1. path[k].at + path[k].len <= index BY DEF PathInv, InOrder
      <4>2. n \in 0..(index - 1) BY <2>1, <2>3, <4>1 DEF Letters
      <4> QED BY <4>2 DEF PathInv, Complete
    <3> QED BY <3>1, <3>2
  <2> QED
    BY <2>2, <2>4 DEF PathInv, Within, InOrder, EveryNameOnce, OpenedPath!EveryNameOnce, Letters
<1> QED BY <1>1, PathInvariance, PTL

-----------------------------------------------------------------------------
(* ApiCalls: what is opened is closed                                        *)

\* What has become of a variable.
Mark(v) == [open |-> v \in open, set |-> v \in set, lost |-> v \in lost, twice |-> v \in twice]

\* The frames are of steps of their functions, each of the outer ones at a call.
Frames ==
    /\ stack \in Seq([call : DOMAIN Code, pc : Nat])
    /\ \A n \in DOMAIN stack : stack[n].pc \in 0..(Len(Accounts!Body(stack[n].call)) + 1)
    /\ \A n \in DOMAIN stack \ {1} :
          /\ stack[n].pc \in DOMAIN Accounts!Body(stack[n].call)
          /\ Accounts!Body(stack[n].call)[stack[n].pc].runs = stack[n - 1].call
          /\ stack[n - 1].call # "nothing"

\* What has become of a variable is in the Ledger, from the outermost call inwards.
OnLine(v) ==
    \E e \in [0..Len(stack) -> Accounts!Marks] :
        /\ e[0] = Mark(v) /\ e[Len(stack)] = Accounts!Clear
        /\ \A n \in DOMAIN stack :
              <<e[n], e[n - 1]>> \in Accounts!Lines(stack[n].call, stack[n].pc, v)

\* While a function runs, every variable is on a line; when it has returned, all is well.
CallsInv ==
    /\ Frames
    /\ open \cup set \cup lost \cup twice \subseteq Accounts!Variables
    /\ stack # <<>> => result = Calls!NoResult /\ \A v \in Accounts!Variables : OnLine(v)
    /\ OpenedAndClosedOnce

\* A mark is told by its four fields.
LEMMA MarkTyped == ASSUME NEW v PROVE Mark(v) \in Accounts!Marks BY DEF Mark, Accounts!Marks

LEMMA SameMark ==
    ASSUME NEW j \in Accounts!Marks, NEW k \in Accounts!Marks,
           j.open <=> k.open, j.set <=> k.set, j.lost <=> k.lost, j.twice <=> k.twice
    PROVE  j = k
BY DEF Accounts!Marks

\* Now and after a step.
LEMMA MarkOf ==
    ASSUME NEW v
    PROVE  /\ Mark(v).open <=> v \in open
           /\ Mark(v).set <=> v \in set
           /\ Mark(v).lost <=> v \in lost
           /\ Mark(v).twice <=> v \in twice
BY DEF Mark

LEMMA MarkNext ==
    ASSUME NEW v, NEW k \in Accounts!Marks,
           k.open <=> v \in open', k.set <=> v \in set',
           k.lost <=> v \in lost', k.twice <=> v \in twice'
    PROVE  Mark(v)' = k
<1>1. PICK j : j = [open |-> v \in open', set |-> v \in set', lost |-> v \in lost',
                    twice |-> v \in twice']
  OBVIOUS
<1>2. j \in Accounts!Marks BY <1>1 DEF Accounts!Marks
<1>3. /\ j.open <=> v \in open'
      /\ j.set <=> v \in set'
      /\ j.lost <=> v \in lost'
      /\ j.twice <=> v \in twice'
  BY <1>1
<1>4. j = k BY <1>2, <1>3, SameMark
<1> QED BY <1>1, <1>4 DEF Mark

\* What a step or a return makes of a mark is a mark.
LEMMA EffectsTyped ==
    ASSUME NEW v, NEW k \in Accounts!Marks
    PROVE  /\ \A step : Accounts!Succeeded(step, v, k) \in Accounts!Marks
           /\ \A step : Accounts!Failed(step, v, k) \in Accounts!Marks
           /\ \A f, ok : Accounts!Left(f, ok, v, k) \in Accounts!Marks
BY DEF Accounts!Succeeded, Accounts!Failed, Accounts!Left, Accounts!Closed, Accounts!Marks

\* What does nothing to a variable leaves its mark alone.
LEMMA Unmentioned ==
    ASSUME NEW f \in DOMAIN Code, NEW v \in Accounts!Variables, ~Accounts!Has(f, v),
           NEW k \in Accounts!Marks
    PROVE  /\ \A ok : Accounts!Left(f, ok, v, k) = k
           /\ \A pc \in DOMAIN Accounts!Body(f) :
                 LET step == Accounts!Body(f)[pc]
                 IN  /\ Accounts!Succeeded(step, v, k) = k /\ Accounts!Failed(step, v, k) = k
                     /\ step.runs # "nothing" => ~Accounts!Has(step.runs, v)
<1>1. ~Accounts!Mentions(f, v) BY LedgerAssumption DEF Accounts!Kept
<1>2. \A ok : Accounts!Left(f, ok, v, k) = k
  BY <1>1 DEF Accounts!Mentions, Accounts!Left, Accounts!Closed, Accounts!Marks
<1>3. ASSUME NEW pc \in DOMAIN Accounts!Body(f), NEW step, step = Accounts!Body(f)[pc]
      PROVE  /\ Accounts!Succeeded(step, v, k) = k /\ Accounts!Failed(step, v, k) = k
             /\ step.runs # "nothing" => ~Accounts!Has(step.runs, v)
  <2>1. step \in Accounts!StepsOf(f) BY <1>3 DEF Accounts!StepsOf
  <2>2. /\ v \notin step.gets \cup step.closes \cup step.clears \cup step.undo \cup step.junk
        /\ step.runs # "nothing" => ~Accounts!Has(step.runs, v)
    BY <1>1, <2>1 DEF Accounts!Mentions
  <2> QED
    BY <2>2 DEF Accounts!Succeeded, Accounts!Failed, Accounts!Closed, Accounts!Marks
<1> QED BY <1>2, <1>3

\* A call with nothing open is on a line.
LEMMA LinesOpened ==
    ASSUME NEW f \in DOMAIN Code, NEW v \in Accounts!Variables
    PROVE  <<Accounts!Clear, Accounts!Clear>> \in Accounts!Lines(f, 1, v)
BY LedgerAssumption
   DEF Accounts!Kept, Accounts!Opened, Accounts!Lines, Accounts!Clear, Accounts!Marks

\* A line is carried on over a step of the system.
LEMMA LinesCarried ==
    ASSUME NEW f \in DOMAIN Code, NEW v \in Accounts!Variables, NEW pc \in DOMAIN Accounts!Body(f),
           NEW e \in Accounts!Marks, NEW k \in Accounts!Marks,
           <<e, k>> \in Accounts!Lines(f, pc, v),
           NEW step, step = Accounts!Body(f)[pc], step.runs = "nothing"
    PROVE  /\ \A m \in step.next :
                 <<e, Accounts!Succeeded(step, v, k)>> \in Accounts!Lines(f, Accounts!To(pc, m), v)
           /\ \A m \in step.fails :
                 <<e, Accounts!Failed(step, v, k)>> \in Accounts!Lines(f, Accounts!To(pc, m), v)
<1>1. CASE Accounts!Has(f, v)
  <2>1. Accounts!Balanced(f, v) BY <1>1, LedgerAssumption DEF Accounts!Kept
  <2>2. <<e, k>> \in Ledger[<<f, pc, v>>] BY <1>1 DEF Accounts!Lines
  <2>3. Accounts!Posted(f, pc, v, e, k) BY <2>1, <2>2 DEF Accounts!Balanced
  <2> QED BY <1>1, <2>3 DEF Accounts!Posted, Accounts!CarriedTo, Accounts!Lines
<1>2. CASE ~Accounts!Has(f, v)
  <2>1. Accounts!Succeeded(step, v, k) = k /\ Accounts!Failed(step, v, k) = k
    BY <1>2, Unmentioned
  <2> QED BY <1>2, <2>1 DEF Accounts!Lines
<1> QED BY <1>1, <1>2

\* And over a call, from where the function that is called begins to where it ends.
LEMMA LinesOfCall ==
    ASSUME NEW f \in DOMAIN Code, NEW v \in Accounts!Variables, NEW pc \in DOMAIN Accounts!Body(f),
           NEW e \in Accounts!Marks, NEW k \in Accounts!Marks,
           <<e, k>> \in Accounts!Lines(f, pc, v),
           NEW g \in DOMAIN Code, g = Accounts!Body(f)[pc].runs, g # "nothing"
    PROVE  /\ <<k, k>> \in Accounts!Lines(g, 1, v)
           /\ \A ok \in BOOLEAN, x \in Accounts!Marks :
                 <<k, x>> \in Accounts!Lines(g, Accounts!End(g, ok), v) =>
                    \A m \in IF ok THEN Accounts!Body(f)[pc].next
                             ELSE Accounts!Body(f)[pc].fails :
                       <<e, Accounts!Left(g, ok, v, x)>>
                          \in Accounts!Lines(f, Accounts!To(pc, m), v)
<1>1. CASE Accounts!Has(f, v)
  <2>1. Accounts!Balanced(f, v) BY <1>1, LedgerAssumption DEF Accounts!Kept
  <2>2. <<e, k>> \in Ledger[<<f, pc, v>>] BY <1>1 DEF Accounts!Lines
  <2>3. Accounts!Posted(f, pc, v, e, k) BY <2>1, <2>2 DEF Accounts!Balanced
  <2>4. <<k, k>> \in Accounts!Lines(g, 1, v) BY <2>3 DEF Accounts!Posted
  <2>5. ASSUME NEW ok \in BOOLEAN, NEW x \in Accounts!Marks,
               <<k, x>> \in Accounts!Lines(g, Accounts!End(g, ok), v),
               NEW m \in IF ok THEN Accounts!Body(f)[pc].next ELSE Accounts!Body(f)[pc].fails
        PROVE  <<e, Accounts!Left(g, ok, v, x)>> \in Accounts!Lines(f, Accounts!To(pc, m), v)
    <3>1. Accounts!CarriedTo(f, pc,
              IF ok THEN Accounts!Body(f)[pc].next ELSE Accounts!Body(f)[pc].fails, v,
              <<e, Accounts!Left(g, ok, v, x)>>)
      BY <2>3, <2>5 DEF Accounts!Posted
    <3> QED BY <1>1, <2>5, <3>1 DEF Accounts!CarriedTo, Accounts!Lines
  <2> QED BY <2>4, <2>5
<1>2. CASE ~Accounts!Has(f, v)
  <2>1. ~Accounts!Has(g, v) BY <1>2, Unmentioned
  <2>2. \A ok : Accounts!Left(g, ok, v, k) = k BY <2>1, Unmentioned
  <2> QED BY <1>2, <2>1, <2>2 DEF Accounts!Lines
<1> QED BY <1>1, <1>2

\* And where the outermost call ends, what is left is given or known.
LEMMA LinesSettled ==
    ASSUME NEW f \in DOMAIN Code, NEW v \in Accounts!Variables, NEW ok \in BOOLEAN,
           NEW x \in Accounts!Marks,
           <<Accounts!Clear, x>> \in Accounts!Lines(f, Accounts!End(f, ok), v),
           NEW left, left = Accounts!Left(f, ok, v, x)
    PROVE  /\ left.open \/ left.lost => v \in Code[f].known \cup IF ok THEN Code[f].gives ELSE {}
           /\ left.twice => v \in Code[f].known
<1>1. CASE Accounts!Has(f, v)
  <2>1. Accounts!Settled(f, v) BY <1>1, LedgerAssumption DEF Accounts!Kept
  <2>2. <<Accounts!Clear, x>> \in Ledger[<<f, Accounts!End(f, ok), v>>]
    BY <1>1 DEF Accounts!Lines
  <2> QED BY <2>1, <2>2 DEF Accounts!Settled
<1>2. CASE ~Accounts!Has(f, v)
  <2>1. x = Accounts!Clear BY <1>2 DEF Accounts!Lines
  <2>2. Accounts!Clear \in Accounts!Marks BY DEF Accounts!Clear, Accounts!Marks
  <2>3. left = Accounts!Clear BY <1>2, <2>1, <2>2, Unmentioned
  <2> QED BY <2>3 DEF Accounts!Clear
<1> QED BY <1>1, <1>2

\* The steps and the moves of a function are within its body.
LEMMA BodyFacts ==
    ASSUME NEW f \in DOMAIN Code
    PROVE  /\ Len(Accounts!Body(f)) \in Nat
           /\ DOMAIN Accounts!Body(f) = 1..Len(Accounts!Body(f))
           /\ \A pc \in DOMAIN Accounts!Body(f) :
                 /\ Accounts!Body(f)[pc].runs \in DOMAIN Code \cup {"nothing"}
                 /\ \A m \in Accounts!Body(f)[pc].next \cup Accounts!Body(f)[pc].fails :
                       m \in Int /\ Accounts!To(pc, m) \in 0..(Len(Accounts!Body(f)) + 1)
<1>1. Accounts!WellFormed BY LedgerAssumption DEF Accounts!Kept
<1>2. \A pc \in DOMAIN Accounts!Body(f) : Accounts!Body(f)[pc] \in Accounts!StepsOf(f)
  BY DEF Accounts!StepsOf
<1> QED BY <1>1, <1>2 DEF Accounts!WellFormed

\* Where the innermost call is in its body.
LEMMA TopFrame ==
    ASSUME CallsInv, stack # <<>>
    PROVE  /\ Len(stack) \in Nat \ {0} /\ DOMAIN stack = 1..Len(stack)
           /\ 1 \in DOMAIN stack /\ stack[1].call \in DOMAIN Code
           /\ stack[1] = [call |-> stack[1].call, pc |-> stack[1].pc]
           /\ Calls!Body(stack[1]) = Accounts!Body(stack[1].call)
           /\ ~Calls!Over => /\ stack[1].pc \in DOMAIN Accounts!Body(stack[1].call)
                             /\ Calls!Step = Accounts!Body(stack[1].call)[stack[1].pc]
           /\ Calls!Over =>
                 stack[1].pc = Accounts!End(stack[1].call, stack[1].pc # 0)
<1>1. stack \in Seq([call : DOMAIN Code, pc : Nat]) BY DEF CallsInv, Frames
<1>2. /\ Len(stack) \in Nat \ {0} /\ DOMAIN stack = 1..Len(stack)
      /\ 1 \in DOMAIN stack /\ stack[1] \in [call : DOMAIN Code, pc : Nat]
  <2>1. Len(stack) \in Nat /\ DOMAIN stack = 1..Len(stack) BY <1>1, LenProperties
  <2>2. Len(stack) # 0 BY <1>1, EmptySeq
  <2>3. 1 \in DOMAIN stack BY <2>1, <2>2
  <2> QED BY <1>1, <2>1, <2>2, <2>3, ElementOfSeq
<1>3. Calls!Body(stack[1]) = Accounts!Body(stack[1].call) BY DEF Calls!Body, Accounts!Body
<1>4. /\ Len(Accounts!Body(stack[1].call)) \in Nat
      /\ DOMAIN Accounts!Body(stack[1].call) = 1..Len(Accounts!Body(stack[1].call))
      /\ stack[1].pc \in 0..(Len(Accounts!Body(stack[1].call)) + 1)
  BY <1>2, BodyFacts DEF CallsInv, Frames
<1>5. ~Calls!Over => stack[1].pc \in DOMAIN Accounts!Body(stack[1].call)
  BY <1>2, <1>3, <1>4 DEF Calls!Over
<1>6. Calls!Over => stack[1].pc = Accounts!End(stack[1].call, stack[1].pc # 0)
  BY <1>2, <1>3, <1>4 DEF Calls!Over, Accounts!End
<1> QED BY <1>2, <1>3, <1>5, <1>6 DEF Calls!Step

\* A step of the innermost call carries every line on, and nothing else moves.
LEMMA MovesOn ==
    ASSUME CallsInv, stack # <<>>, NEW pc \in 0..(Len(Accounts!Body(stack[1].call)) + 1),
           stack' = [stack EXCEPT ![1].pc = pc], UNCHANGED result,
           (open \cup set \cup lost \cup twice)' \subseteq Accounts!Variables,
           \A v \in Accounts!Variables : \A e \in Accounts!Marks :
              <<e, Mark(v)>> \in Accounts!Lines(stack[1].call, stack[1].pc, v) =>
                 <<e, Mark(v)'>> \in Accounts!Lines(stack[1].call, pc, v)
    PROVE  CallsInv'
<1>1. /\ Len(stack) \in Nat \ {0} /\ DOMAIN stack = 1..Len(stack) /\ 1 \in DOMAIN stack
      /\ stack[1].call \in DOMAIN Code /\ stack[1] = [call |-> stack[1].call, pc |-> stack[1].pc]
  BY TopFrame
<1>2. pc \in Nat BY <1>1, BodyFacts
<1>3. /\ stack' \in Seq([call : DOMAIN Code, pc : Nat]) /\ Len(stack') = Len(stack)
      /\ DOMAIN stack' = DOMAIN stack /\ stack'[1].call = stack[1].call /\ stack'[1].pc = pc
      /\ \A n \in DOMAIN stack \ {1} : stack'[n] = stack[n]
      /\ \A n \in DOMAIN stack : stack'[n].call = stack[n].call
  BY <1>1, <1>2 DEF CallsInv, Frames
<1>4. Frames'
  <2>1. \A n \in DOMAIN stack' : stack'[n].pc \in 0..(Len(Accounts!Body(stack'[n].call)) + 1)
    BY <1>1, <1>3 DEF CallsInv, Frames
  <2>2. ASSUME NEW n \in DOMAIN stack' \ {1}
        PROVE  /\ stack'[n].pc \in DOMAIN Accounts!Body(stack'[n].call)
               /\ Accounts!Body(stack'[n].call)[stack'[n].pc].runs = stack'[n - 1].call
               /\ stack'[n - 1].call # "nothing"
    <3>1. n \in DOMAIN stack \ {1} /\ n - 1 \in DOMAIN stack /\ stack'[n] = stack[n]
      BY <1>1, <1>3, <2>2
    <3>2. stack'[n - 1].call = stack[n - 1].call BY <1>3, <3>1
    <3> QED BY <3>1, <3>2 DEF CallsInv, Frames
  <2> QED BY <1>3, <2>1, <2>2 DEF Frames
<1>5. ASSUME NEW v \in Accounts!Variables PROVE OnLine(v)'
  <2>1. PICK e \in [0..Len(stack) -> Accounts!Marks] :
           /\ e[0] = Mark(v) /\ e[Len(stack)] = Accounts!Clear
           /\ \A n \in DOMAIN stack :
                 <<e[n], e[n - 1]>> \in Accounts!Lines(stack[n].call, stack[n].pc, v)
    BY DEF CallsInv, OnLine
  <2>2. PICK k \in Accounts!Marks : k = Mark(v)'
    <3>1. [open |-> v \in open', set |-> v \in set', lost |-> v \in lost', twice |-> v \in twice']
            \in Accounts!Marks
      BY DEF Accounts!Marks
    <3> QED BY <3>1 DEF Mark
  <2>3. PICK d : d = [e EXCEPT ![0] = k] OBVIOUS
  <2>4. /\ d \in [0..Len(stack) -> Accounts!Marks] /\ d[0] = k
        /\ \A n \in DOMAIN stack : d[n] = e[n] /\ (n # 1 => d[n - 1] = e[n - 1])
        /\ d[Len(stack)] = e[Len(stack)]
    BY <1>1, <2>3
  <2>5. <<e[1], k>> \in Accounts!Lines(stack[1].call, pc, v)
    <3>1. 1 - 1 = 0 /\ 1 \in 0..Len(stack) BY <1>1
    <3>2. e[1] \in Accounts!Marks BY <3>1
    <3>3. <<e[1], Mark(v)>> \in Accounts!Lines(stack[1].call, stack[1].pc, v)
      BY <1>1, <2>1, <3>1
    <3> QED BY <2>2, <3>2, <3>3
  <2>6. ASSUME NEW n \in DOMAIN stack
        PROVE  <<d[n], d[n - 1]>> \in Accounts!Lines(stack'[n].call, stack'[n].pc, v)
    <3>1. CASE n = 1
      <4>1. n - 1 = 0 /\ d[n] = e[1] BY <2>4, <3>1
      <4> QED BY <1>3, <2>4, <2>5, <3>1, <4>1
    <3>2. CASE n # 1 BY <1>3, <2>1, <2>4, <3>2
    <3> QED BY <3>1, <3>2
  <2>7. /\ d \in [0..Len(stack') -> Accounts!Marks]
        /\ d[0] = Mark(v)' /\ d[Len(stack')] = Accounts!Clear
        /\ \A n \in DOMAIN stack' :
              <<d[n], d[n - 1]>> \in Accounts!Lines(stack'[n].call, stack'[n].pc, v)
    BY <1>3, <2>1, <2>2, <2>4, <2>6
  <2> QED BY <2>7 DEF OnLine
<1>6. stack' # <<>> /\ result = Calls!NoResult /\ result' = Calls!NoResult
  BY <1>1, <1>3 DEF CallsInv
<1>7. OpenedAndClosedOnce' BY <1>6 DEF OpenedAndClosedOnce, Calls!OpenedAndClosedOnce
<1> QED BY <1>4, <1>5, <1>6, <1>7 DEF CallsInv

\* What a step opens or leaves in a variable is one of the Variables.
LEMMA StepVariables ==
    ASSUME NEW f \in DOMAIN Code, NEW pc \in DOMAIN Accounts!Body(f)
    PROVE  Accounts!Body(f)[pc].gets \cup Accounts!Body(f)[pc].junk \subseteq Accounts!Variables
BY DEF Accounts!Variables, Accounts!StepsOf

\* The moves of ApiCalls: a step succeeds, or fails, or is a call; a body is over.
LEMMA SucceedStep == CallsInv /\ Calls!Succeed => CallsInv'
<1> SUFFICES ASSUME CallsInv, Calls!Succeed PROVE CallsInv' OBVIOUS
<1>1. /\ stack # <<>> /\ ~Calls!Over /\ Calls!Step.runs = "nothing"
      /\ open' = (open \ Calls!Step.closes) \cup Calls!Step.gets
      /\ twice' = twice \cup ((Calls!Step.closes \cap set) \ open)
      /\ lost' = lost \cup (Calls!Step.gets \cap open)
      /\ set' = (set \ Calls!Step.clears) \cup Calls!Step.gets
      /\ UNCHANGED result
  BY DEF Calls!Succeed, Calls!Stepping
<1>2. PICK m \in Calls!Step.next :
         stack' = [stack EXCEPT ![1].pc = IF m = 0 THEN 0 ELSE @ + m]
  BY DEF Calls!Succeed, Calls!Advance
<1>3. PICK f \in DOMAIN Code : f = stack[1].call BY <1>1, TopFrame
<1>4. PICK at0 \in DOMAIN Accounts!Body(f) : at0 = stack[1].pc BY <1>1, <1>3, TopFrame
<1>5. PICK step : step = Accounts!Body(f)[at0] OBVIOUS
<1>6. Calls!Step = step BY <1>1, <1>3, <1>4, <1>5, TopFrame
<1>7. PICK pc \in 0..(Len(Accounts!Body(f)) + 1) : pc = Accounts!To(at0, m)
  BY <1>2, <1>5, <1>6, BodyFacts
<1>8. stack' = [stack EXCEPT ![1].pc = pc]
  BY <1>1, <1>2, <1>4, <1>7, TopFrame DEF Accounts!To
<1>9. step.gets \subseteq Accounts!Variables BY <1>5, StepVariables
<1>10. (open \cup set \cup lost \cup twice)' \subseteq Accounts!Variables
  BY <1>1, <1>6, <1>9 DEF CallsInv
<1>11. ASSUME NEW v \in Accounts!Variables, NEW e \in Accounts!Marks,
              <<e, Mark(v)>> \in Accounts!Lines(f, at0, v)
       PROVE  <<e, Mark(v)'>> \in Accounts!Lines(f, pc, v)
  <2>1. Mark(v)' = Accounts!Succeeded(step, v, Mark(v))
    <3>1. PICK k \in Accounts!Marks : k = Accounts!Succeeded(step, v, Mark(v))
      BY MarkTyped, EffectsTyped
    <3>2. /\ k.open <=> v \in open'
          /\ k.set <=> v \in set'
          /\ k.lost <=> v \in lost'
          /\ k.twice <=> v \in twice'
      BY <1>1, <1>6, <3>1, MarkOf DEF Accounts!Succeeded
    <3> QED BY <3>1, <3>2, MarkNext
  <2> QED BY <1>1, <1>2, <1>5, <1>6, <1>7, <1>11, <2>1, MarkTyped, LinesCarried
<1> QED BY <1>1, <1>3, <1>4, <1>7, <1>8, <1>10, <1>11, MovesOn

LEMMA FailStep == CallsInv /\ Calls!Fail => CallsInv'
<1> SUFFICES ASSUME CallsInv, Calls!Fail PROVE CallsInv' OBVIOUS
<1>1. /\ stack # <<>> /\ ~Calls!Over /\ Calls!Step.runs = "nothing"
      /\ open' = open \ (Calls!Step.undo \cap set)
      /\ twice' = twice \cup ((Calls!Step.undo \cap set) \ open)
      /\ set' = (set \ Calls!Step.undo) \cup Calls!Step.junk
      /\ UNCHANGED <<lost, result>>
  BY DEF Calls!Fail, Calls!Stepping, Calls!Close
<1>2. PICK m \in Calls!Step.fails :
         stack' = [stack EXCEPT ![1].pc = IF m = 0 THEN 0 ELSE @ + m]
  BY DEF Calls!Fail, Calls!Advance
<1>3. PICK f \in DOMAIN Code : f = stack[1].call BY <1>1, TopFrame
<1>4. PICK at0 \in DOMAIN Accounts!Body(f) : at0 = stack[1].pc BY <1>1, <1>3, TopFrame
<1>5. PICK step : step = Accounts!Body(f)[at0] OBVIOUS
<1>6. Calls!Step = step BY <1>1, <1>3, <1>4, <1>5, TopFrame
<1>7. PICK pc \in 0..(Len(Accounts!Body(f)) + 1) : pc = Accounts!To(at0, m)
  BY <1>2, <1>5, <1>6, BodyFacts
<1>8. stack' = [stack EXCEPT ![1].pc = pc]
  BY <1>1, <1>2, <1>4, <1>7, TopFrame DEF Accounts!To
<1>9. step.junk \subseteq Accounts!Variables BY <1>5, StepVariables
<1>10. (open \cup set \cup lost \cup twice)' \subseteq Accounts!Variables
  BY <1>1, <1>6, <1>9 DEF CallsInv
<1>11. ASSUME NEW v \in Accounts!Variables, NEW e \in Accounts!Marks,
              <<e, Mark(v)>> \in Accounts!Lines(f, at0, v)
       PROVE  <<e, Mark(v)'>> \in Accounts!Lines(f, pc, v)
  <2>1. Mark(v)' = Accounts!Failed(step, v, Mark(v))
    <3>1. PICK k \in Accounts!Marks : k = Accounts!Failed(step, v, Mark(v))
      BY MarkTyped, EffectsTyped
    <3>2. /\ k.open <=> v \in open'
          /\ k.set <=> v \in set'
          /\ k.lost <=> v \in lost'
          /\ k.twice <=> v \in twice'
      BY <1>1, <1>6, <3>1, MarkOf DEF Accounts!Failed, Accounts!Closed
    <3> QED BY <3>1, <3>2, MarkNext
  <2> QED BY <1>1, <1>2, <1>5, <1>6, <1>7, <1>11, <2>1, MarkTyped, LinesCarried
<1> QED BY <1>1, <1>3, <1>4, <1>7, <1>8, <1>10, <1>11, MovesOn

\* A call begins where the line of its caller is.
LEMMA EnterStep == CallsInv /\ Calls!Enter => CallsInv'
<1> SUFFICES ASSUME CallsInv, Calls!Enter PROVE CallsInv' OBVIOUS
<1>1. /\ stack # <<>> /\ ~Calls!Over /\ Calls!Step.runs # "nothing"
      /\ stack' = <<[call |-> Calls!Step.runs, pc |-> 1]>> \o stack
      /\ UNCHANGED <<open, set, lost, twice, result>>
  BY DEF Calls!Enter, Calls!Stepping
<1>2. PICK f \in DOMAIN Code : f = stack[1].call BY <1>1, TopFrame
<1>3. PICK pc \in DOMAIN Accounts!Body(f) : pc = stack[1].pc BY <1>1, <1>2, TopFrame
<1>4. PICK g \in DOMAIN Code : g = Accounts!Body(f)[pc].runs /\ g # "nothing" /\ g = Calls!Step.runs
  <2>1. Calls!Step = Accounts!Body(f)[pc] BY <1>1, <1>2, <1>3, TopFrame
  <2> QED BY <1>1, <2>1, BodyFacts
<1>5. Len(stack) \in Nat \ {0} /\ DOMAIN stack = 1..Len(stack) BY <1>1, TopFrame
<1>6. /\ stack' \in Seq([call : DOMAIN Code, pc : Nat]) /\ Len(stack') = Len(stack) + 1
      /\ DOMAIN stack' = 1..(Len(stack) + 1)
      /\ stack'[1] = [call |-> g, pc |-> 1]
      /\ \A n \in DOMAIN stack : stack'[n + 1] = stack[n]
  <2>1. PICK new \in Seq([call : DOMAIN Code, pc : Nat]) :
           new = <<[call |-> g, pc |-> 1]>> /\ Len(new) = 1 /\ new[1] = [call |-> g, pc |-> 1]
    <3>1. [call |-> g, pc |-> 1] \in [call : DOMAIN Code, pc : Nat] OBVIOUS
    <3>2. <<[call |-> g, pc |-> 1]>> \in Seq([call : DOMAIN Code, pc : Nat]) BY <3>1
    <3> QED BY <3>2
  <2>2. stack' = new \o stack /\ stack \in Seq([call : DOMAIN Code, pc : Nat])
    BY <1>1, <1>4, <2>1 DEF CallsInv, Frames
  <2> QED BY <1>5, <2>1, <2>2, ConcatProperties, LenProperties
<1>7. Frames'
  <2>1. Len(Accounts!Body(g)) \in Nat BY BodyFacts
  <2>2. ASSUME NEW n \in DOMAIN stack'
        PROVE  stack'[n].pc \in 0..(Len(Accounts!Body(stack'[n].call)) + 1)
    <3>1. CASE n = 1 BY <1>6, <2>1, <3>1
    <3>2. CASE n # 1
      <4>1. n - 1 \in DOMAIN stack /\ stack'[n] = stack[n - 1] BY <1>5, <1>6, <3>2
      <4> QED BY <4>1 DEF CallsInv, Frames
    <3> QED BY <3>1, <3>2
  <2>3. ASSUME NEW n \in DOMAIN stack' \ {1}
        PROVE  /\ stack'[n].pc \in DOMAIN Accounts!Body(stack'[n].call)
               /\ Accounts!Body(stack'[n].call)[stack'[n].pc].runs = stack'[n - 1].call
               /\ stack'[n - 1].call # "nothing"
    <3>1. n - 1 \in DOMAIN stack /\ stack'[n] = stack[n - 1] BY <1>5, <1>6, <2>3
    <3>2. CASE n = 2
      <4>1. stack'[n] = stack[1] /\ stack'[n - 1].call = g BY <1>6, <3>1, <3>2
      <4> QED BY <1>2, <1>3, <1>4, <4>1
    <3>3. CASE n # 2
      <4>1. n - 1 \in DOMAIN stack \ {1} /\ n - 2 \in DOMAIN stack /\ (n - 1) - 1 = n - 2
            /\ (n - 2) + 1 = n - 1
        BY <1>5, <1>6, <3>1, <3>3
      <4>2. stack'[n - 1] = stack[n - 2] BY <1>6, <4>1
      <4> QED BY <3>1, <4>1, <4>2 DEF CallsInv, Frames
    <3> QED BY <3>2, <3>3
  <2> QED BY <1>6, <2>2, <2>3 DEF Frames
<1>8. ASSUME NEW v \in Accounts!Variables PROVE OnLine(v)'
  <2>1. PICK e \in [0..Len(stack) -> Accounts!Marks] :
           /\ e[0] = Mark(v) /\ e[Len(stack)] = Accounts!Clear
           /\ \A n \in DOMAIN stack :
                 <<e[n], e[n - 1]>> \in Accounts!Lines(stack[n].call, stack[n].pc, v)
    BY <1>1 DEF CallsInv, OnLine
  <2>2. Mark(v)' = Mark(v) BY <1>1 DEF Mark
  <2>3. PICK d : d = [n \in 0..(Len(stack) + 1) |-> IF n = 0 THEN e[0] ELSE e[n - 1]] OBVIOUS
  <2>4. /\ d \in [0..Len(stack') -> Accounts!Marks]
        /\ d[0] = e[0] /\ d[1] = e[0] /\ d[Len(stack')] = e[Len(stack)]
        /\ \A n \in DOMAIN stack : d[n + 1] = e[n] /\ d[n] = e[n - 1]
    BY <1>5, <1>6, <2>1, <2>3
  <2>5. <<e[0], e[0]>> \in Accounts!Lines(g, 1, v)
    <3>1. 1 - 1 = 0 /\ 1 \in 0..Len(stack) /\ 0 \in 0..Len(stack) /\ 1 \in DOMAIN stack BY <1>5
    <3>2. e[1] \in Accounts!Marks /\ e[0] \in Accounts!Marks BY <3>1
    <3>3. <<e[1], e[0]>> \in Accounts!Lines(f, pc, v) BY <1>2, <1>3, <2>1, <3>1
    <3> QED BY <1>4, <3>2, <3>3, LinesOfCall
  <2>6. ASSUME NEW n \in DOMAIN stack'
        PROVE  <<d[n], d[n - 1]>> \in Accounts!Lines(stack'[n].call, stack'[n].pc, v)
    <3>1. CASE n = 1
      <4>1. n - 1 = 0 /\ d[n] = e[0] /\ d[n - 1] = e[0] /\ stack'[n].call = g /\ stack'[n].pc = 1
        BY <1>6, <2>4, <3>1
      <4> QED BY <2>5, <4>1
    <3>2. CASE n # 1
      <4>1. PICK k \in DOMAIN stack : n = k + 1
        <5>1. n - 1 \in DOMAIN stack /\ n = (n - 1) + 1 BY <1>5, <1>6, <3>2
        <5> QED BY <5>1
      <4>2. /\ n - 1 = k /\ d[n] = e[k] /\ d[n - 1] = e[k - 1] /\ stack'[n] = stack[k]
        BY <1>5, <1>6, <2>4, <4>1
      <4> QED BY <2>1, <4>2
    <3> QED BY <3>1, <3>2
  <2> QED BY <2>1, <2>2, <2>4, <2>6 DEF OnLine
<1>9. stack' # <<>> /\ result' = Calls!NoResult BY <1>1, <1>5, <1>6 DEF CallsInv
<1>10. OpenedAndClosedOnce' BY <1>9 DEF OpenedAndClosedOnce, Calls!OpenedAndClosedOnce
<1> QED BY <1>1, <1>7, <1>8, <1>9, <1>10 DEF CallsInv

\* A function is called with nothing open.
LEMMA BeginStep == ASSUME CallsInv, NEW f \in DOMAIN Code, Calls!Begin(f) PROVE CallsInv'
<1>1. /\ stack' = <<[call |-> f, pc |-> 1]>> /\ result' = Calls!NoResult
      /\ open' = {} /\ set' = {} /\ lost' = {} /\ twice' = {}
  BY DEF Calls!Begin
<1>2. /\ stack' \in Seq([call : DOMAIN Code, pc : Nat]) /\ Len(stack') = 1
      /\ DOMAIN stack' = {1} /\ stack'[1].call = f /\ stack'[1].pc = 1 /\ stack' # <<>>
  BY <1>1
<1>3. Frames'
  <2>1. Len(Accounts!Body(f)) \in Nat BY BodyFacts
  <2> QED BY <1>2, <2>1 DEF Frames
<1>4. ASSUME NEW v \in Accounts!Variables PROVE OnLine(v)'
  <2>1. Accounts!Clear \in Accounts!Marks BY DEF Accounts!Clear, Accounts!Marks
  <2>2. Mark(v)' = Accounts!Clear
    <3>1. PICK k \in Accounts!Marks : k = Accounts!Clear BY <2>1
    <3>2. ~k.open /\ ~k.set /\ ~k.lost /\ ~k.twice BY <3>1 DEF Accounts!Clear
    <3> QED BY <1>1, <3>1, <3>2, MarkNext
  <2>3. PICK d : d = [n \in 0..1 |-> Accounts!Clear] OBVIOUS
  <2>4. d \in [0..Len(stack') -> Accounts!Marks] /\ d[0] = Accounts!Clear /\ d[1] = Accounts!Clear
    BY <1>2, <2>1, <2>3
  <2>5. <<d[1], d[1 - 1]>> \in Accounts!Lines(f, 1, v) BY <2>4, LinesOpened
  <2> QED BY <1>2, <2>2, <2>4, <2>5 DEF OnLine
<1>5. OpenedAndClosedOnce' BY <1>1 DEF OpenedAndClosedOnce, Calls!OpenedAndClosedOnce
<1> QED BY <1>1, <1>2, <1>3, <1>4, <1>5 DEF CallsInv

\* What becomes of every variable when the innermost call returns.
LEMMA ReturnLeaves ==
    ASSUME CallsInv, Calls!Return, NEW f \in DOMAIN Code, f = stack[1].call,
           NEW ok \in BOOLEAN, ok = (stack[1].pc # 0), NEW v
    PROVE  Mark(v)' = Accounts!Left(f, ok, v, Mark(v))
<1>1. PICK closing : closing = Code[f].tail \cup IF ok THEN {} ELSE Code[f].abandon OBVIOUS
<1>2. closing = Calls!Closing(Code[f], ok) BY <1>1 DEF Calls!Closing
<1>3. /\ open' = open \ (closing \cap set)
      /\ twice' = twice \cup ((closing \cap set) \ open)
      /\ set' = set \ closing
      /\ UNCHANGED lost
  BY <1>2 DEF Calls!Return, Calls!Close, Calls!LeaveVariables
<1>4. PICK k \in Accounts!Marks : k = Accounts!Left(f, ok, v, Mark(v)) BY MarkTyped, EffectsTyped
<1>5. k = Accounts!Closed(closing, v, Mark(v)) BY <1>1, <1>4 DEF Accounts!Left
<1>6. /\ k.open <=> v \in open'
      /\ k.set <=> v \in set'
      /\ k.lost <=> v \in lost'
      /\ k.twice <=> v \in twice'
  BY <1>3, <1>5, MarkOf DEF Accounts!Closed
<1> QED BY <1>4, <1>6, MarkNext

\* The caller goes on, on the line that the Ledger carries over the call.
LEMMA ReturnStep == CallsInv /\ Calls!Return => CallsInv'
<1> SUFFICES ASSUME CallsInv, Calls!Return PROVE CallsInv' OBVIOUS
<1>1. stack # <<>> /\ Calls!Over BY DEF Calls!Return
<1>2. PICK f \in DOMAIN Code : f = stack[1].call BY <1>1, TopFrame
<1>3. PICK ok \in BOOLEAN : ok = (stack[1].pc # 0) OBVIOUS
<1>4. stack[1].pc = Accounts!End(f, ok) BY <1>1, <1>2, <1>3, TopFrame
<1>5. Len(stack) \in Nat \ {0} /\ DOMAIN stack = 1..Len(stack) BY <1>1, TopFrame
<1>6. \A v : Mark(v)' = Accounts!Left(f, ok, v, Mark(v)) BY <1>2, <1>3, ReturnLeaves
<1>7. (open \cup set \cup lost \cup twice)' \subseteq Accounts!Variables
  BY DEF CallsInv, Calls!Return, Calls!Close, Calls!LeaveVariables
<1>8. CASE Tail(stack) = <<>>
  <2>1. stack' = <<>> /\ result' = [call |-> f, ok |-> ok]
    BY <1>2, <1>3, <1>8 DEF Calls!Return
  <2>2. Len(stack) = 1
    <3>1. Len(Tail(stack)) = Len(stack) - 1 BY <1>1, HeadTailProperties DEF CallsInv, Frames
    <3>2. Len(<<>>) = 0 OBVIOUS
    <3> QED BY <1>5, <1>8, <3>1, <3>2
  <2>3. ASSUME NEW v \in Accounts!Variables
        PROVE  /\ v \in open' \/ v \in lost' =>
                     v \in Code[f].known \cup IF ok THEN Code[f].gives ELSE {}
               /\ v \in twice' => v \in Code[f].known
    <3>1. PICK e \in [0..Len(stack) -> Accounts!Marks] :
             /\ e[0] = Mark(v) /\ e[Len(stack)] = Accounts!Clear
             /\ \A n \in DOMAIN stack :
                   <<e[n], e[n - 1]>> \in Accounts!Lines(stack[n].call, stack[n].pc, v)
      BY <1>1 DEF CallsInv, OnLine
    <3>2. 1 - 1 = 0 /\ 1 \in DOMAIN stack BY <2>2, <1>5
    <3>3. <<Accounts!Clear, Mark(v)>> \in Accounts!Lines(f, Accounts!End(f, ok), v)
      BY <1>2, <1>4, <2>2, <3>1, <3>2
    <3>4. PICK left : left = Accounts!Left(f, ok, v, Mark(v)) OBVIOUS
    <3>5. /\ left.open \/ left.lost => v \in Code[f].known \cup IF ok THEN Code[f].gives ELSE {}
          /\ left.twice => v \in Code[f].known
      BY <3>3, <3>4, MarkTyped, LinesSettled
    <3>6. left = [open |-> v \in open', set |-> v \in set', lost |-> v \in lost',
                  twice |-> v \in twice']
      BY <1>6, <3>4 DEF Mark
    <3>7. /\ left.open <=> v \in open'
          /\ left.lost <=> v \in lost'
          /\ left.twice <=> v \in twice'
      BY <3>6
    <3> QED BY <3>5, <3>7
  <2>4. /\ open' \cup lost' \subseteq (IF ok THEN Code[f].gives ELSE {}) \cup Code[f].known
        /\ twice' \subseteq Code[f].known
    BY <1>7, <2>3
  <2>5. OpenedAndClosedOnce'
    BY <2>1, <2>4 DEF OpenedAndClosedOnce, Calls!OpenedAndClosedOnce
  <2>6. Frames' BY <2>1 DEF Frames
  <2> QED BY <1>7, <2>1, <2>5, <2>6 DEF CallsInv
<1>9. CASE Tail(stack) # <<>>
  <2>1. PICK outer : outer = Tail(stack) OBVIOUS
  <2>2. /\ outer \in Seq([call : DOMAIN Code, pc : Nat]) /\ Len(outer) = Len(stack) - 1
        /\ DOMAIN outer = 1..(Len(stack) - 1)
        /\ \A n \in DOMAIN outer : outer[n] = stack[n + 1]
    <3>1. stack \in Seq([call : DOMAIN Code, pc : Nat]) /\ stack # <<>>
      BY <1>1 DEF CallsInv, Frames
    <3> QED BY <2>1, <3>1, HeadTailProperties, LenProperties
  <2>3. Len(stack) >= 2
    <3>1. outer # <<>> BY <1>9, <2>1
    <3>2. Len(outer) # 0 BY <2>2, <3>1, EmptySeq
    <3> QED BY <1>5, <2>2, <3>2
  <2>4. 1 \in DOMAIN outer /\ outer[1] = stack[2] /\ 2 \in DOMAIN stack \ {1} /\ 2 - 1 = 1
    BY <1>5, <2>2, <2>3
  <2>5. PICK h \in DOMAIN Code :
           h = outer[1].call /\ outer[1] \in [call : DOMAIN Code, pc : Nat]
    <3>1. outer[1] \in [call : DOMAIN Code, pc : Nat] BY <2>2, <2>4, ElementOfSeq
    <3> QED BY <3>1
  <2>6. PICK p \in DOMAIN Accounts!Body(h) : p = outer[1].pc /\ Accounts!Body(h)[p].runs = f
    BY <1>2, <2>4, <2>5 DEF CallsInv, Frames
  <2>7. f # "nothing" BY <1>2, <2>4 DEF CallsInv, Frames
  <2>8. PICK step : step = Accounts!Body(h)[p] OBVIOUS
  <2>9. PICK m \in IF ok THEN step.next ELSE step.fails :
           stack' = [outer EXCEPT ![1].pc = IF m = 0 THEN 0 ELSE @ + m]
    <3>1. Calls!Body(outer[1])[outer[1].pc] = step
      BY <2>5, <2>6, <2>8 DEF Calls!Body, Accounts!Body
    <3> QED BY <1>2, <1>3, <1>9, <2>1, <3>1 DEF Calls!Return, Calls!Advance
  <2>10. PICK pc \in 0..(Len(Accounts!Body(h)) + 1) : pc = Accounts!To(p, m)
    BY <2>8, <2>9, BodyFacts
  <2>11. pc \in Nat BY <2>10, BodyFacts
  <2>12. stack' = [outer EXCEPT ![1].pc = pc]
    BY <2>2, <2>4, <2>6, <2>9, <2>10 DEF Accounts!To
  <2>13. /\ stack' \in Seq([call : DOMAIN Code, pc : Nat]) /\ Len(stack') = Len(stack) - 1
         /\ DOMAIN stack' = 1..(Len(stack) - 1)
         /\ stack'[1].call = h /\ stack'[1].pc = pc
         /\ \A n \in DOMAIN stack' \ {1} : stack'[n] = stack[n + 1]
         /\ \A n \in DOMAIN stack' : stack'[n].call = stack[n + 1].call
    <3>1. PICK frame \in [call : DOMAIN Code, pc : Nat] : frame.call = h /\ frame.pc = pc
      <4>1. [call |-> h, pc |-> pc] \in [call : DOMAIN Code, pc : Nat] BY <2>11
      <4> QED BY <4>1
    <3>2. stack' = [outer EXCEPT ![1] = frame] BY <2>5, <2>12, <3>1
    <3>3. /\ stack' \in Seq([call : DOMAIN Code, pc : Nat]) /\ Len(stack') = Len(outer)
          /\ DOMAIN stack' = DOMAIN outer
      BY <2>2, <2>4, <3>2, ExceptSeq
    <3>4. stack'[1] = frame /\ \A n \in DOMAIN outer \ {1} : stack'[n] = outer[n]
      BY <2>2, <2>4, <3>2
    <3>5. \A n \in DOMAIN stack' \ {1} : stack'[n] = stack[n + 1] BY <2>2, <3>3, <3>4
    <3>6. ASSUME NEW n \in DOMAIN stack' PROVE stack'[n].call = stack[n + 1].call
      <4>1. CASE n = 1
        <5>1. 1 + 1 = 2 OBVIOUS
        <5> QED BY <2>4, <2>5, <3>1, <3>4, <4>1, <5>1
      <4>2. CASE n # 1 BY <3>5, <4>2
      <4> QED BY <4>1, <4>2
    <3> QED BY <2>2, <3>1, <3>3, <3>4, <3>5, <3>6
  <2>14. Frames'
    <3>1. ASSUME NEW n \in DOMAIN stack'
          PROVE  stack'[n].pc \in 0..(Len(Accounts!Body(stack'[n].call)) + 1)
      <4>1. CASE n = 1 BY <2>10, <2>13, <4>1
      <4>2. CASE n # 1
        <5>1. n + 1 \in DOMAIN stack /\ stack'[n] = stack[n + 1] BY <1>5, <2>13, <4>2
        <5> QED BY <5>1 DEF CallsInv, Frames
      <4> QED BY <4>1, <4>2
    <3>2. ASSUME NEW n \in DOMAIN stack' \ {1}
          PROVE  /\ stack'[n].pc \in DOMAIN Accounts!Body(stack'[n].call)
                 /\ Accounts!Body(stack'[n].call)[stack'[n].pc].runs = stack'[n - 1].call
                 /\ stack'[n - 1].call # "nothing"
      <4>1. /\ n + 1 \in DOMAIN stack \ {1} /\ (n + 1) - 1 = n /\ (n - 1) + 1 = n
            /\ n - 1 \in DOMAIN stack'
        <5>1. n \in 1..(Len(stack) - 1) /\ n # 1 BY <2>13, <3>2
        <5>2. n + 1 \in 1..Len(stack) /\ n + 1 # 1 /\ (n + 1) - 1 = n /\ (n - 1) + 1 = n
          BY <1>5, <5>1
        <5>3. n - 1 \in 1..(Len(stack) - 1) BY <1>5, <5>1
        <5> QED BY <1>5, <2>13, <5>2, <5>3
      <4>2. stack'[n - 1].call = stack[n].call /\ stack'[n] = stack[n + 1] BY <2>13, <3>2, <4>1
      <4> QED BY <4>1, <4>2 DEF CallsInv, Frames
    <3> QED BY <2>13, <3>1, <3>2 DEF Frames
  <2>15. ASSUME NEW v \in Accounts!Variables PROVE OnLine(v)'
    <3>1. PICK e \in [0..Len(stack) -> Accounts!Marks] :
             /\ e[0] = Mark(v) /\ e[Len(stack)] = Accounts!Clear
             /\ \A n \in DOMAIN stack :
                   <<e[n], e[n - 1]>> \in Accounts!Lines(stack[n].call, stack[n].pc, v)
      BY <1>1 DEF CallsInv, OnLine
    <3>2. /\ 1 \in DOMAIN stack /\ 2 \in DOMAIN stack /\ 1 - 1 = 0 /\ 2 - 1 = 1
          /\ {0, 1, 2} \subseteq 0..Len(stack)
      BY <1>5, <2>3
    <3>3. /\ <<e[1], e[0]>> \in Accounts!Lines(f, Accounts!End(f, ok), v)
          /\ <<e[2], e[1]>> \in Accounts!Lines(h, p, v)
      BY <1>2, <1>4, <2>4, <2>5, <2>6, <3>1, <3>2
    <3>4. e[0] \in Accounts!Marks /\ e[1] \in Accounts!Marks /\ e[2] \in Accounts!Marks
      BY <3>1, <3>2
    <3>5. PICK k \in Accounts!Marks : k = Accounts!Left(f, ok, v, e[0]) BY <3>4, EffectsTyped
    <3>6. <<e[2], k>> \in Accounts!Lines(h, pc, v)
      BY <2>6, <2>7, <2>8, <2>9, <2>10, <3>3, <3>4, <3>5, LinesOfCall
    <3>7. Mark(v)' = k BY <1>6, <3>1, <3>5
    <3>8. PICK d : d = [n \in 0..(Len(stack) - 1) |-> IF n = 0 THEN k ELSE e[n + 1]] OBVIOUS
    <3>9. /\ d \in [0..Len(stack') -> Accounts!Marks]
          /\ d[0] = k /\ d[1] = e[2] /\ d[Len(stack')] = e[Len(stack)]
          /\ \A n \in DOMAIN stack' \ {1} : d[n] = e[n + 1] /\ d[n - 1] = e[n]
      <4>1. Len(stack') = Len(stack) - 1 /\ Len(stack) - 1 # 0 /\ (Len(stack) - 1) + 1 = Len(stack)
            /\ 1 \in 0..(Len(stack) - 1) /\ 1 + 1 = 2
        BY <1>5, <2>3, <2>13
      <4>2. d \in [0..Len(stack') -> Accounts!Marks]
        <5>1. ASSUME NEW n \in 0..(Len(stack) - 1), n # 0 PROVE e[n + 1] \in Accounts!Marks
          BY <1>5, <5>1
        <5> QED BY <3>5, <3>8, <4>1, <5>1
      <4>3. d[0] = k /\ d[1] = e[2] /\ d[Len(stack')] = e[Len(stack)]
        BY <1>5, <3>8, <4>1
      <4>4. ASSUME NEW n \in DOMAIN stack' \ {1}
            PROVE  d[n] = e[n + 1] /\ d[n - 1] = e[n]
        <5>1. n \in 2..(Len(stack) - 1) BY <1>5, <2>13, <4>4
        <5>2. n \in 0..(Len(stack) - 1) /\ n # 0 /\ n - 1 \in 0..(Len(stack) - 1) /\ n - 1 # 0
              /\ (n - 1) + 1 = n
          BY <1>5, <5>1
        <5> QED BY <3>8, <5>2
      <4> QED BY <4>2, <4>3, <4>4
    <3>10. ASSUME NEW n \in DOMAIN stack'
           PROVE  <<d[n], d[n - 1]>> \in Accounts!Lines(stack'[n].call, stack'[n].pc, v)
      <4>1. CASE n = 1
        <5>1. n - 1 = 0 /\ d[n] = e[2] /\ d[n - 1] = k BY <3>9, <4>1
        <5> QED BY <2>13, <3>6, <4>1, <5>1
      <4>2. CASE n # 1
        <5>1. n \in DOMAIN stack' \ {1} BY <4>2
        <5>2. n \in 1..(Len(stack) - 1) BY <2>13
        <5>3. n + 1 \in DOMAIN stack /\ (n + 1) - 1 = n BY <1>5, <5>2
        <5>4. stack'[n] = stack[n + 1] BY <2>13, <5>1
        <5>5. d[n] = e[n + 1] /\ d[n - 1] = e[n] BY <3>9, <5>1
        <5> QED BY <3>1, <5>3, <5>4, <5>5
      <4> QED BY <4>1, <4>2
    <3> QED BY <3>1, <3>7, <3>9, <3>10 DEF OnLine
  <2>16. stack' # <<>> /\ result' = Calls!NoResult
    <3>1. UNCHANGED result BY <1>9, <2>1 DEF Calls!Return
    <3> QED BY <1>1, <2>3, <2>13, <3>1 DEF CallsInv
  <2>17. OpenedAndClosedOnce' BY <2>16 DEF OpenedAndClosedOnce, Calls!OpenedAndClosedOnce
  <2> QED BY <1>7, <2>14, <2>15, <2>16, <2>17 DEF CallsInv
<1> QED BY <1>8, <1>9

LEMMA CallsInvariance == Calls!Spec => []CallsInv
<1>1. Calls!Init => CallsInv
  BY DEF Calls!Init, CallsInv, Frames, OpenedAndClosedOnce, Calls!OpenedAndClosedOnce
<1>2. CallsInv /\ [Calls!Next]_(Calls!calls) => CallsInv'
  <2> SUFFICES ASSUME CallsInv, [Calls!Next]_(Calls!calls) PROVE CallsInv' OBVIOUS
  <2>1. CASE Calls!Next
    BY <2>1, SucceedStep, FailStep, EnterStep, ReturnStep, BeginStep DEF Calls!Next
  <2>2. CASE UNCHANGED Calls!calls
    BY <2>2 DEF Calls!calls, CallsInv, Frames, OnLine, Mark, OpenedAndClosedOnce,
                Calls!OpenedAndClosedOnce
  <2> QED BY <2>1, <2>2
<1> QED BY <1>1, <1>2, PTL DEF Calls!Spec

\* Whichever steps fail, and however the calls nest, a function of OsApi, of the Linux
\* helpers or of the tools leaves open only what it gives to its caller and what is
\* known to stay open, and closes nothing that is not open (ExitLabel, EXIT, the
\* destructors).  Of the functions only Accounts!Kept is used.
THEOREM AllIsClosed == Calls!Spec => []OpenedAndClosedOnce
<1>1. CallsInv => OpenedAndClosedOnce BY DEF CallsInv
<1> QED BY <1>1, CallsInvariance, PTL

-----------------------------------------------------------------------------
(* The tools side by side                                                    *)

LEMMA PartsBegin ==
    WindowsInit => Calls!Init /\ Tree!Init /\ Hooks!Init /\ PE!Init /\ OpenedPath!Init
BY DEF WindowsInit

\* A step of the tools is one of each part, or leaves its variables alone.
LEMMA PartsStep ==
    [WindowsNext]_windowsVars =>
        /\ [Calls!Next]_(Calls!calls) /\ [Tree!Next]_(Tree!tree) /\ [Hooks!Next]_(Hooks!hookVars)
        /\ [PE!Next]_(PE!peVars) /\ [OpenedPath!Next]_(OpenedPath!pathVars)
BY DEF WindowsNext, windowsVars, callVars, treeVars, hookVars, fileVars, pathVars, Calls!calls,
       Tree!tree, Tree!system, Tree!walk, Hooks!hookVars, Hooks!entries, Hooks!loop,
       Hooks!detours, PE!peVars, OpenedPath!pathVars

\* Side by side the tools keep what each keeps alone: no property rests on which of them
\* runs, and the files, tables and buffers of the composition are those of the parts.
THEOREM ToolsSideBySide ==
    WindowsSpec => /\ []OpenedAndClosedOnce /\ []KillsTheFamily /\ []CallsReachTheirOwn
                   /\ []UnhookRestores /\ []ExportFound /\ []AcceptedIsReadable /\ []EveryNameOnce
<1>1. WindowsSpec => Calls!Spec /\ Tree!Spec /\ Hooks!Spec /\ PE!Spec /\ OpenedPath!Spec
  BY PartsBegin, PartsStep, PTL
     DEF WindowsSpec, Calls!Spec, Tree!Spec, Hooks!Spec, PE!Spec, OpenedPath!Spec
<1> QED
  BY <1>1, AllIsClosed, FamilyOnly, CallsArrive, UnhookedIsAsBefore, ExportsAreFound,
     HeadersAreThere, AllNamesRead
===============================================================================
