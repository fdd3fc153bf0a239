----------------------------- MODULE KernelProofs -----------------------------
(***************************************************************************)
(* Proofs about BobMap, for any keys, names, hashes and number of lists:    *)
(* the table is exact, so a search may look in one list only, and the map   *)
(* implements Dictionary; and about ProcessNotify, the driver that uses it, *)
(* for any processes, callers and waits: its entries are those of the       *)
(* creations under way, and an answer meant for one lets no other go that   *)
(* was not too late for the first.                                          *)
(***************************************************************************)
EXTENDS Kernel, FiniteSetTheorems, TLAPS

\* No node has a key that has no real key.
KeysReal == \A n \in Nodes : n.key \notin NoRealKey

IInv == TypeOK /\ TableExact /\ KeysReal

\* The answers of calls.
Answers == [call : {"open", "put", "get", "drop"},
              name : Name \cup {NoName}, ok : BOOLEAN, data : Data \cup {None}]

-----------------------------------------------------------------------------
LEMMA HashInBucket ==
    ASSUME NEW k \in Key
    PROVE  GetHashValue(k) \in Bucket
BY KeyAssumption DEF GetHashValue, Bucket

\* The node is in the map when it is in one of the lists.
LEMMA InNodes ==
    ASSUME NEW n
    PROVE  n \in Nodes <=> \E i \in Bucket : n \in lists[i]
BY DEF Nodes

\* The search in one list finds what a search in all of them would.
LEMMA FoundIsAll ==
    ASSUME IInv, NEW k \in Key
    PROVE  Found(k) = {n \in Nodes : NameOf[n.key] = NameOf[k]}
<1>1. ASSUME NEW n \in Nodes, NameOf[n.key] = NameOf[k]
      PROVE  n \in lists[GetHashValue(k)]
  <2>1. PICK i \in Bucket : n \in lists[i] BY InNodes
  <2>2. n.key \in Key /\ GetHashValue(n.key) = i
    BY <2>1 DEF IInv, TypeOK, TableExact, Node
  <2>3. Hash[n.key] = Hash[k] BY <1>1, <2>2, KeyAssumption
  <2> QED BY <2>1, <2>2, <2>3 DEF GetHashValue
<1>2. lists[GetHashValue(k)] \subseteq Nodes BY HashInBucket, InNodes
<1> QED BY <1>1, <1>2 DEF Found

\* There is one at most.
LEMMA FoundIsOne ==
    ASSUME IInv, NEW k \in Key
    PROVE  \/ Found(k) = {}
           \/ \E n \in Nodes : Found(k) = {n} /\ NameOf[n.key] = NameOf[k]
<1> SUFFICES ASSUME Found(k) # {}
             PROVE  \E n \in Nodes : Found(k) = {n} /\ NameOf[n.key] = NameOf[k]
  OBVIOUS
<1>1. PICK n \in Found(k) : TRUE OBVIOUS
<1>2. n \in Nodes /\ NameOf[n.key] = NameOf[k] BY <1>1, FoundIsAll
<1>3. \A m \in Found(k) : m = n BY <1>1, <1>2, FoundIsAll DEF IInv, TableExact
<1> QED BY <1>1, <1>2, <1>3

LEMMA AnswerTyped ==
    ASSUME NEW call \in {"open", "put", "get", "drop"}, NEW name \in Name \cup {NoName},
           NEW ok \in BOOLEAN, NEW data \in Data \cup {None}
    PROVE  Answer(call, name, ok, data) \in Answers
BY DEF Answer, Answers

\* What all steps but those of an enumeration leave to be shown.
LEMMA Typed ==
    ASSUME valid' \in BOOLEAN, lists' \in [Bucket -> SUBSET Node], num' \in Nat,
           ret' \in Answers, NoEnumeration
    PROVE  TypeOK'
BY DEF NoEnumeration, TypeOK, Answers

LEMMA DataOfFound ==
    ASSUME NEW n
    PROVE  DataOf({n}) = n.data /\ DataOf({}) = None
BY DEF DataOf

-----------------------------------------------------------------------------
\* What each kind of step does to the set of nodes.
LEMMA NodesAfterInsert ==
    ASSUME TypeOK, NEW k \in Key, NEW d \in Data, InsertTail(k, d)
    PROVE  Nodes' = Nodes \cup {[key |-> k, data |-> d]}
<1>1. \A i \in Bucket :
         lists'[i] = IF i = GetHashValue(k) THEN lists[i] \cup {[key |-> k, data |-> d]}
                                            ELSE lists[i]
  BY DEF InsertTail, TypeOK
<1> QED BY <1>1, HashInBucket DEF Nodes

LEMMA NodesAfterDelete ==
    ASSUME IInv, NEW k \in Key, DeleteNode(k)
    PROVE  Nodes' = Nodes \ Found(k)
<1>1. \A i \in Bucket :
         lists'[i] = IF i = GetHashValue(k) THEN lists[i] \ Found(k) ELSE lists[i]
  BY DEF DeleteNode, Unlink, IInv, TypeOK
<1>2. ASSUME NEW i \in Bucket, i # GetHashValue(k), NEW n \in lists[i]
      PROVE  n \notin Found(k)
  <2>1. GetHashValue(n.key) # GetHashValue(k) /\ n.key \in Key
    BY <1>2 DEF IInv, TypeOK, TableExact, Node
  <2> QED BY <2>1, KeyAssumption DEF Found, GetHashValue
<1> QED BY <1>1, <1>2, HashInBucket DEF Nodes

LEMMA NodesAfterClear ==
    ASSUME lists' = EmptyLists
    PROVE  Nodes' = {}
BY DEF Nodes, EmptyLists

-----------------------------------------------------------------------------
LEMMA EmptyExact ==
    ASSUME lists' = EmptyLists, num' = 0
    PROVE  TableExact'
<1>1. Nodes' = {} BY NodesAfterClear
<1>2. IsFiniteSet({}) /\ Cardinality({}) = 0 BY FS_EmptySet
<1> QED BY <1>1, <1>2 DEF TableExact, EmptyLists

LEMMA EmptyTyped ==
    ASSUME lists' = EmptyLists, num' = 0
    PROVE  lists' \in [Bucket -> SUBSET Node] /\ num' \in Nat
BY DEF EmptyLists

LEMMA AddNodeStep ==
    ASSUME IInv, NEW k \in Key, NEW d \in Data, AddNode(k, d)
    PROVE  IInv'
<1> DEFINE new == [key |-> k, data |-> d]
<1>1. TypeOK'
  <2>1. lists' \in [Bucket -> SUBSET Node] /\ num' \in Nat
    BY HashInBucket DEF IInv, TypeOK, AddNode, InsertTail, Node
  <2>2. ret' \in Answers
    BY AnswerTyped, KeyAssumption DEF AddNode, InsertTail
  <2> QED BY <2>1, <2>2, Typed DEF IInv, TypeOK, AddNode, InsertTail
<1>2. Nodes' = Nodes \cup {new} BY NodesAfterInsert DEF AddNode, IInv
<1>3. \A n \in Nodes : NameOf[n.key] # NameOf[k] BY FoundIsAll DEF AddNode
<1>4. TableExact'
  <2>1. \A i \in Bucket : \A n \in lists'[i] : GetHashValue(n.key) = i
    BY HashInBucket DEF IInv, TypeOK, TableExact, AddNode, InsertTail
  <2>2. \A m, n \in Nodes' : NameOf[m.key] = NameOf[n.key] => m = n
    BY <1>2, <1>3 DEF IInv, TableExact
  <2>3. new \notin Nodes BY <1>3
  <2>4. IsFiniteSet(Nodes') /\ num' = Cardinality(Nodes')
    BY <1>2, <2>3, FS_AddElement DEF IInv, TableExact, AddNode, InsertTail
  <2>5. valid' BY DEF AddNode, InsertTail, Refused
  <2> QED BY <2>1, <2>2, <2>4, <2>5 DEF TableExact
<1>5. KeysReal' BY <1>2 DEF KeysReal, IInv, AddNode, InsertTail, Refused
<1> QED BY <1>1, <1>4, <1>5 DEF IInv

LEMMA DeleteNodeStep ==
    ASSUME IInv, NEW k \in Key, DeleteNode(k)
    PROVE  IInv'
<1>1. Nodes' = Nodes \ Found(k) BY NodesAfterDelete
<1>2. IsFiniteSet(Nodes') /\ num' = Cardinality(Nodes') /\ num' \in Nat
  <2>1. CASE Found(k) = {}
    BY <1>1, <2>1 DEF DeleteNode, Unlink, IInv, TypeOK, TableExact
  <2>2. CASE Found(k) # {}
    <3>1. PICK n \in Nodes : Found(k) = {n} BY <2>2, FoundIsOne
    <3>2. /\ IsFiniteSet(Nodes \ {n})
          /\ Cardinality(Nodes \ {n}) = Cardinality(Nodes) - 1
      BY FS_RemoveElement DEF IInv, TableExact
    <3>3. Cardinality(Nodes \ {n}) \in Nat BY <3>2, FS_CardinalityType
    <3> QED BY <1>1, <2>2, <3>1, <3>2, <3>3 DEF DeleteNode, Unlink, IInv, TableExact
  <2> QED BY <2>1, <2>2
<1>3. DataOf(Found(k)) \in Data \cup {None}
  <2>1. CASE Found(k) = {} BY <2>1, DataOfFound
  <2>2. CASE Found(k) # {}
    <3>1. PICK n \in Nodes : Found(k) = {n} BY <2>2, FoundIsOne
    <3>2. n \in Node BY InNodes DEF IInv, TypeOK
    <3> QED BY <3>1, <3>2, DataOfFound DEF Node
  <2> QED BY <2>1, <2>2
<1>4. lists' \in [Bucket -> SUBSET Node]
  BY HashInBucket DEF DeleteNode, Unlink, IInv, TypeOK
<1>5. ret' \in Answers
  BY <1>3, AnswerTyped, KeyAssumption DEF DeleteNode, Unlink
<1>6. TypeOK'
  BY <1>2, <1>4, <1>5, Typed DEF DeleteNode, Unlink, IInv, TypeOK
<1>7. \A i \in Bucket : \A n \in lists'[i] : GetHashValue(n.key) = i
  BY HashInBucket DEF IInv, TypeOK, TableExact, DeleteNode, Unlink
<1>8. valid' BY DEF DeleteNode, Unlink, Refused
<1>9. TableExact' BY <1>1, <1>2, <1>7, <1>8 DEF IInv, TableExact
<1> QED BY <1>1, <1>6, <1>9 DEF IInv, KeysReal

\* The steps that leave the table alone.
LEMMA TableUnchanged ==
    ASSUME IInv, UNCHANGED <<valid, lists, num>>
    PROVE  TableExact' /\ KeysReal' /\ Nodes' = Nodes
BY DEF IInv, TableExact, KeysReal, Nodes

LEMMA FindNodeStep ==
    ASSUME IInv, NEW k \in Key, FindNode(k)
    PROVE  IInv'
<1>0. (Found(k) # {}) \in BOOLEAN OBVIOUS
<1>1. DataOf(Found(k)) \in Data \cup {None}
  <2>1. CASE Found(k) = {} BY <2>1, DataOfFound
  <2>2. CASE Found(k) # {}
    <3>1. PICK n \in Nodes : Found(k) = {n} BY <2>2, FoundIsOne
    <3>2. n \in Node BY InNodes DEF IInv, TypeOK
    <3> QED BY <3>1, <3>2, DataOfFound DEF Node
  <2> QED BY <2>1, <2>2
<1>2. ret' \in Answers
  BY <1>1, <1>0, AnswerTyped, KeyAssumption DEF FindNode
<1>3. TypeOK' BY <1>2, Typed DEF FindNode, IInv, TypeOK
<1> QED BY <1>3, TableUnchanged DEF FindNode, IInv

LEMMA FailureStep ==
    ASSUME IInv, NEW k \in Key, RefusedCall(k) \/ AddFails(k)
    PROVE  IInv'
<1>1. UNCHANGED <<valid, lists, num>> /\ NoEnumeration BY DEF RefusedCall, AddFails
<1>2. ret' \in Answers
  <2>1. NameOf[k] \in Name BY KeyAssumption
  <2>2. CASE RefusedCall(k)
    <3>1. PICK call \in {"put", "get", "drop"} : ret' = Answer(call, NameOf[k], FALSE, None)
      BY <2>2 DEF RefusedCall
    <3> QED BY <2>1, <3>1, AnswerTyped
  <2>3. CASE AddFails(k) BY <2>1, <2>3, AnswerTyped DEF AddFails
  <2> QED BY <2>2, <2>3
<1>3. TypeOK' BY <1>1, <1>2, Typed DEF IInv, TypeOK
<1> QED BY <1>1, <1>3, TableUnchanged DEF IInv

LEMMA EmptyingStep ==
    ASSUME IInv, InitBobMap \/ ClearAllNode \/ UnInitBobMap
    PROVE  IInv'
<1> USE DEF InitBobMap, ClearAllNode, UnInitBobMap
<1>1. lists' = EmptyLists /\ num' = 0 /\ NoEnumeration OBVIOUS
<1>2. ret' \in Answers
  <2>1. Answer("open", NoName, TRUE, None) \in Answers /\
        Answer("open", NoName, FALSE, None) \in Answers
    BY AnswerTyped
  <2>2. ret \in Answers BY DEF IInv, TypeOK, Answers
  <2> QED BY <2>1, <2>2
<1>3. TypeOK' BY <1>1, <1>2, EmptyTyped, Typed DEF IInv, TypeOK
<1> QED BY <1>1, <1>3, EmptyExact, NodesAfterClear DEF IInv, KeysReal

LEMMA EnumStep ==
    ASSUME IInv, NEW stop \in SUBSET Nodes, EnumAllNode(stop)
    PROVE  IInv' /\ EnumComplete'
<1>1. UNCHANGED <<valid, lists, num, ret>> /\ asked' = stop BY DEF EnumAllNode, Enumerate
<1>2. PICK walk \in [Bucket -> SUBSET Nodes] :
         /\ \A i \in Bucket : walk[i] \in WalkList(i, stop)
         /\ seen' = UNION {walk[i] : i \in Bucket}
  BY DEF EnumAllNode, Enumerate
<1>3. seen' \subseteq Nodes BY <1>2
<1>4. Nodes \subseteq Node BY InNodes DEF IInv, TypeOK
<1>5. TypeOK' BY <1>1, <1>3, <1>4 DEF IInv, TypeOK
<1>6. TableExact' /\ KeysReal' /\ Nodes' = Nodes BY <1>1, TableUnchanged
<1>7. stop = {} => seen' = Nodes
  <2> SUFFICES ASSUME stop = {} PROVE seen' = Nodes OBVIOUS
  <2>1. \A i \in Bucket : walk[i] = lists[i] BY <1>2 DEF WalkList
  <2> QED BY <1>2, <2>1 DEF Nodes
<1> QED BY <1>1, <1>3, <1>5, <1>6, <1>7 DEF IInv, EnumComplete

LEMMA Start == Init => IInv
<1> SUFFICES ASSUME Init PROVE IInv OBVIOUS
<1>1. Nodes = {} BY DEF Init, Nodes, EmptyLists
<1>2. IsFiniteSet({}) /\ Cardinality({}) = 0 BY FS_EmptySet
<1>3. TableExact BY <1>1, <1>2 DEF Init, TableExact, EmptyLists
<1>4. TypeOK
  <2>1. ret \in Answers BY AnswerTyped DEF Init
  <2> QED BY <2>1 DEF Init, TypeOK, EmptyLists, Answers
<1> QED BY <1>1, <1>3, <1>4 DEF IInv, KeysReal

LEMMA Step == IInv /\ [Next]_vars => IInv'
<1> SUFFICES ASSUME IInv, [Next]_vars PROVE IInv' OBVIOUS
<1>1. CASE UNCHANGED vars
  BY <1>1, TableUnchanged DEF vars, IInv, TypeOK
<1>2. CASE Next
  BY <1>2, EmptyingStep, FailureStep, DeleteNodeStep, FindNodeStep, AddNodeStep, EnumStep
     DEF Next
<1> QED BY <1>1, <1>2

-----------------------------------------------------------------------------
\* The answers, the count and what an enumeration saw keep their types.
THEOREM TypeCorrect == Spec => []TypeOK
<1>1. IInv => TypeOK BY DEF IInv
<1> QED BY <1>1, Start, Step, PTL DEF Spec

\* Each node is in the list of its hash, alone with its name, and is counted.
THEOREM TableIsExact == Spec => []TableExact
<1>1. IInv => TableExact BY DEF IInv
<1> QED BY <1>1, Start, Step, PTL DEF Spec

\* An enumeration that is never stopped sees every node of every list.
THEOREM EnumSeesAll == Spec => []EnumComplete
<1>1. Init => EnumComplete BY DEF Init, EnumComplete
<1>2. IInv /\ EnumComplete /\ [Next]_vars => EnumComplete'
  <2> SUFFICES ASSUME IInv, EnumComplete, [Next]_vars PROVE EnumComplete' OBVIOUS
  <2>1. CASE UNCHANGED vars BY <2>1 DEF vars, EnumComplete, Nodes
  <2>2. CASE \E stop \in SUBSET Nodes : EnumAllNode(stop) BY <2>2, EnumStep
  <2>3. CASE NoEnumeration BY <2>3 DEF NoEnumeration, EnumComplete
  <2>4. NoEnumeration \/ UNCHANGED vars \/ \E stop \in SUBSET Nodes : EnumAllNode(stop)
    BY DEF Next, InitBobMap, RefusedCall, AddFails, DeleteNode, Unlink, FindNode, AddNode,
           InsertTail, ClearAllNode, UnInitBobMap
  <2> QED BY <2>1, <2>2, <2>3, <2>4
<1> QED BY <1>1, <1>2, Start, Step, PTL DEF Spec

-----------------------------------------------------------------------------
(* The refinement: each step is a step of Dictionary on the entries, or leaves *)
(* them and the answer alone.                                                  *)
EntryOf(n) == [name |-> NameOf[n.key], data |-> n.data]
Entries == {EntryOf(n) : n \in Nodes}

\* The entries of a name are those of the nodes a search for it finds.
LEMMA NamedIsFound ==
    ASSUME IInv, NEW k \in Key
    PROVE  Promise!Named(NameOf[k]) = {EntryOf(n) : n \in Found(k)}
BY FoundIsAll DEF Promise!Named, EntryOf

LEMMA PutRefines ==
    ASSUME IInv, NEW k \in Key, NEW d \in Data, AddNode(k, d)
    PROVE  Promise!Put(NameOf[k], d)
<1>1. Promise!Named(NameOf[k]) = {} BY NamedIsFound DEF AddNode
<1>2. Nodes' = Nodes \cup {[key |-> k, data |-> d]}
  BY NodesAfterInsert DEF AddNode, IInv
<1>3. Entries' = Entries \cup {[name |-> NameOf[k], data |-> d]}
  <2> DEFINE new == [key |-> k, data |-> d]
  <2>1. EntryOf(new) = [name |-> NameOf[k], data |-> d] BY DEF EntryOf
  <2>2. Entries' = {EntryOf(n) : n \in Nodes'} BY DEF Entries, EntryOf
  <2>3. {EntryOf(n) : n \in Nodes \cup {new}} = {EntryOf(n) : n \in Nodes} \cup {EntryOf(new)}
    OBVIOUS
  <2> QED BY <1>2, <2>1, <2>2, <2>3 DEF Entries
<1>4. ret' = Promise!Answer("put", NameOf[k], TRUE, None)
  BY DEF AddNode, InsertTail, Answer, Promise!Answer
<1> QED BY <1>1, <1>3, <1>4 DEF Promise!Put, Entries, EntryOf

LEMMA DropRefines ==
    ASSUME IInv, NEW k \in Key, DeleteNode(k)
    PROVE  Promise!Drop(NameOf[k])
<1>1. Nodes' = Nodes \ Found(k) BY NodesAfterDelete
<1>2. Entries' = Entries \ Promise!Named(NameOf[k])
  <2>1. \A n \in Nodes : n \in Found(k) <=> NameOf[n.key] = NameOf[k] BY FoundIsAll
  <2> QED BY <1>1, <2>1 DEF Entries, EntryOf, Promise!Named
<1>3. ret' = Promise!Answer("drop", NameOf[k], TRUE, DataOf(Found(k)))
  BY DEF DeleteNode, Unlink, Answer, Promise!Answer
<1>4. \/ \E e \in Promise!Named(NameOf[k]) : ret' = Promise!Answer("drop", NameOf[k], TRUE, e.data)
      \/ /\ Promise!Named(NameOf[k]) = {}
         /\ \E ok \in BOOLEAN : ret' = Promise!Answer("drop", NameOf[k], ok, None)
  <2>1. CASE Found(k) = {} BY <1>3, <2>1, NamedIsFound, DataOfFound
  <2>2. CASE Found(k) # {}
    <3>1. PICK n \in Nodes : Found(k) = {n} BY <2>2, FoundIsOne
    <3>2. EntryOf(n) \in Promise!Named(NameOf[k]) /\ EntryOf(n).data = DataOf(Found(k))
      BY <3>1, NamedIsFound, DataOfFound DEF EntryOf
    <3> QED BY <1>3, <3>2
  <2> QED BY <2>1, <2>2
<1> QED BY <1>2, <1>4 DEF Promise!Drop, Entries, EntryOf

LEMMA GetRefines ==
    ASSUME IInv, NEW k \in Key, FindNode(k)
    PROVE  Promise!Get(NameOf[k])
<1>1. ret' = Promise!Answer("get", NameOf[k], Found(k) # {}, DataOf(Found(k)))
  BY DEF FindNode, Answer, Promise!Answer
<1>2. Entries' = Entries BY TableUnchanged DEF FindNode, Entries
<1>3. CASE Found(k) = {}
  <2>1. Promise!Named(NameOf[k]) = {} BY <1>3, NamedIsFound
  <2>2. ret' = Promise!Answer("get", NameOf[k], FALSE, None) BY <1>1, <1>3, DataOfFound
  <2> QED BY <1>2, <2>1, <2>2 DEF Promise!Get, Entries, EntryOf
<1>4. CASE Found(k) # {}
  <2>1. PICK n \in Nodes : Found(k) = {n} BY <1>4, FoundIsOne
  <2>2. EntryOf(n) \in Promise!Named(NameOf[k]) /\ EntryOf(n).data = DataOf(Found(k))
    BY <2>1, NamedIsFound, DataOfFound DEF EntryOf
  <2>3. ret' = Promise!Answer("get", NameOf[k], TRUE, EntryOf(n).data) BY <1>1, <1>4, <2>2
  <2> QED BY <1>2, <2>2, <2>3 DEF Promise!Get, Entries, EntryOf
<1> QED BY <1>3, <1>4

LEMMA FailureRefines ==
    ASSUME IInv, NEW k \in Key, RefusedCall(k) \/ AddFails(k)
    PROVE  \/ Promise!PutFails(NameOf[k]) \/ Promise!Get(NameOf[k]) \/ Promise!Drop(NameOf[k])
<1>1. Entries' = Entries BY TableUnchanged DEF RefusedCall, AddFails, Entries
<1>2. CASE ret' = Promise!Answer("put", NameOf[k], FALSE, None)
  BY <1>1, <1>2 DEF Promise!PutFails, Entries, EntryOf
<1>3. CASE RefusedCall(k) /\ ret' # Promise!Answer("put", NameOf[k], FALSE, None)
  <2>1. Promise!Named(NameOf[k]) = {}
    <3>1. ~valid => Nodes = {} BY DEF IInv, TableExact
    <3>2. \A n \in Nodes : n.key \in Key \ NoRealKey
      BY InNodes DEF IInv, TypeOK, KeysReal, Node
    <3>3. ~valid \/ k \in NoRealKey BY <1>3 DEF RefusedCall, Refused
    <3> QED BY <3>1, <3>2, <3>3, KeyAssumption DEF Promise!Named
  <2>2. \/ ret' = Promise!Answer("get", NameOf[k], FALSE, None)
        \/ ret' = Promise!Answer("drop", NameOf[k], FALSE, None)
    BY <1>3 DEF RefusedCall, Answer, Promise!Answer
  <2> QED BY <1>1, <2>1, <2>2 DEF Promise!Get, Promise!Drop, Entries, EntryOf
<1> QED BY <1>2, <1>3 DEF AddFails, Answer, Promise!Answer

LEMMA EmptyingRefines ==
    ASSUME IInv
    PROVE  /\ InitBobMap => Promise!Open
           /\ ClearAllNode \/ UnInitBobMap => Promise!Clear
<1>1. lists' = EmptyLists => Entries' = {} BY NodesAfterClear DEF Entries
<1>2. ~valid => Entries = {} BY DEF IInv, TableExact, Entries
<1>3. InitBobMap => Promise!Open
  <2>1. InitBobMap => \E ok \in BOOLEAN : ret' = Promise!Answer("open", NoName, ok, None)
    BY DEF InitBobMap, Answer, Promise!Answer
  <2> QED BY <1>1, <1>2, <2>1 DEF InitBobMap, Promise!Open, Entries, EntryOf
<1>4. ClearAllNode \/ UnInitBobMap => Promise!Clear
  BY <1>1 DEF ClearAllNode, UnInitBobMap, Promise!Clear, Entries, EntryOf
<1> QED BY <1>3, <1>4

LEMMA StepRefines ==
    IInv /\ [Next]_vars => [Promise!Next]_(Promise!vars)
<1> SUFFICES ASSUME IInv, [Next]_vars PROVE Promise!Next \/ UNCHANGED Promise!vars OBVIOUS
<1>1. CASE UNCHANGED <<valid, lists, num, ret>>
  BY <1>1, TableUnchanged DEF Promise!vars
<1>2. CASE InitBobMap \/ ClearAllNode \/ UnInitBobMap
  BY <1>2, EmptyingRefines DEF Promise!Next
<1>3. ASSUME NEW k \in Key, RefusedCall(k) \/ AddFails(k) \/ DeleteNode(k) \/ FindNode(k)
      PROVE  Promise!Next
  <2>1. NameOf[k] \in Name BY KeyAssumption
  <2> QED BY <1>3, <2>1, FailureRefines, DropRefines, GetRefines DEF Promise!Next
<1>4. ASSUME NEW k \in Key, NEW d \in Data, AddNode(k, d)
      PROVE  Promise!Next
  <2>1. NameOf[k] \in Name BY KeyAssumption
  <2> QED BY <1>4, <2>1, PutRefines DEF Promise!Next
<1> QED BY <1>1, <1>2, <1>3, <1>4 DEF Next, vars, EnumAllNode, Enumerate

\* BobMap implements Dictionary: a search, in whatever list, finds what was added
\* under an equal key and not deleted, and nothing else.
THEOREM MapKeepsPromise == Spec => KeepsPromise
<1>1. Init => Promise!Init
  BY DEF Init, Promise!Init, Nodes, EmptyLists, Answer, Promise!Answer
<1> QED BY <1>1, Start, Step, StepRefines, PTL DEF Spec, KeepsPromise, Promise!Spec
-----------------------------------------------------------------------------
(* The driver                                                                *)

\* No process has the values that stand for nobody.
NamesApart == None \notin Process \cup Slot /\ Garbage \notin Process

\* One update of the list at a time.
Alone == \A p, q \in Driver!Updating : p = q

\* What a creation links is not on the list yet, what it unlinks is.
Owned ==
    \A p \in Process :
        /\ at[p] = "link" => mine[p] \in Slot \ linked /\ mem[mine[p]].pid = p
        /\ at[p] = "unlink" => mine[p] \in linked /\ mem[mine[p]].pid = p

\* An address that was looked up is that of the process it was looked up for, until
\* that process is let go.
Addresses ==
    \A c \in Caller : target[c].slot # None =>
        /\ target[c].for \in Process
        /\ \/ at[target[c].for] = "alive"
           \/ target[c].slot \in linked /\ mem[target[c].slot].pid = target[c].for

\* Who wrote into an entry of another is let go.
Writers ==
    \A s \in Slot :
        mem[s].by \in Process /\ mem[s].by # mem[s].pid => at[mem[s].by] = "alive"

DriverInv ==
    /\ Driver!TypeOK
    /\ ~damaged =>
        /\ Alone /\ Driver!EntriesMatch /\ Owned /\ Addresses /\ Writers
        /\ Driver!StrayAnswerOnlyWhenLate

-----------------------------------------------------------------------------
LEMMA DriverStart == NamesApart /\ Driver!Init => DriverInv
<1> SUFFICES ASSUME NamesApart, Driver!Init PROVE DriverInv OBVIOUS
<1> USE DEF Driver!Init
<1>1. Driver!TypeOK
  <2>1. mem \in [Slot -> [pid : {None}, by : {None}]] OBVIOUS
  <2>2. target \in [Caller -> [for : {None}, slot : {None}]] OBVIOUS
  <2> QED BY <2>1, <2>2 DEF Driver!TypeOK
<1>2. Driver!Updating = {} BY DEF Driver!Updating
<1>3. Alone /\ Driver!EntriesMatch BY <1>2 DEF Alone, Driver!EntriesMatch
<1>4. Owned /\ Addresses BY DEF Owned, Addresses
<1>5. Writers /\ Driver!StrayAnswerOnlyWhenLate
  BY DEF Writers, Driver!StrayAnswerOnlyWhenLate, NamesApart
<1> QED BY <1>1, <1>3, <1>4, <1>5 DEF DriverInv

\* A search that finds an entry finds one of the process; if nobody updates an intact
\* list it finds one when there is one.
LEMMA SearchFinds ==
    ASSUME DriverInv, NEW p \in Process, NEW found \in Driver!Search(p)
    PROVE  /\ found # {} => \E s \in linked : found = {s} /\ mem[s].pid = p
                                               /\ (CHOOSE t \in found : TRUE) = s
           /\ found = {} /\ ~Driver!Overlap => \A s \in linked : mem[s].pid # p
<1>1. CASE \E s \in Driver!Entries(p) : found = {s}
  <2>1. PICK s \in Driver!Entries(p) : found = {s} BY <1>1
  <2> QED BY <2>1 DEF Driver!Entries
<1>2. CASE found = {} /\ (Driver!Overlap \/ Driver!Entries(p) = {})
  BY <1>2 DEF Driver!Entries
<1> QED BY <1>1, <1>2 DEF Driver!Search

LEMMA EnterStep ==
    ASSUME NamesApart, DriverInv, NEW p \in Process, Driver!Enter(p)
    PROVE  DriverInv'
<1> USE DEF Driver!Enter, DriverInv, Driver!listVars
<1>1. Driver!TypeOK' BY DEF Driver!TypeOK
<1>2. ~damaged' => Alone' /\ Owned' /\ Driver!EntriesMatch'
  BY DEF Driver!TypeOK, Alone, Owned, Driver!EntriesMatch, Driver!Updating, Driver!Running
<1>3. ~damaged' => Addresses' /\ Writers'
  BY DEF Driver!TypeOK, Addresses, Writers
<1>4. ~damaged' => Driver!StrayAnswerOnlyWhenLate'
  BY DEF Driver!TypeOK, Driver!StrayAnswerOnlyWhenLate, NamesApart
<1> QED BY <1>1, <1>2, <1>3, <1>4

LEMMA DriverAddStep ==
    ASSUME NamesApart, DriverInv, NEW p \in Process, Driver!AddNode(p)
    PROVE  DriverInv'
<1> USE DEF DriverInv
<1>1. ASSUME NEW s \in Slot \ (linked \cup {mine[q] : q \in Driver!Updating}),
             mem' = [mem EXCEPT ![s] = [pid |-> p, by |-> proInfo[p]]],
             mine' = [mine EXCEPT ![p] = s], damaged' = Driver!Overlap,
             at' = [at EXCEPT ![p] = "link"]
      PROVE  DriverInv'
  <2> DEFINE new == [pid |-> p, by |-> proInfo[p]]
  <2>a. at[p] = "add" /\ UNCHANGED <<proInfo, linked, target>> BY DEF Driver!AddNode
  <2>n. new.pid = p /\ new.by = proInfo[p]
        /\ new \in [pid : Process \cup {None}, by : Process \cup {None, Garbage}]
    BY DEF Driver!TypeOK
  <2>m. mem' = [mem EXCEPT ![s] = new] BY <1>1
  <2> HIDE DEF new
  <2>1. Driver!TypeOK'
    BY <1>1, <2>a, <2>n, <2>m DEF Driver!TypeOK, Driver!Overlap
  <2>2. ASSUME ~damaged' PROVE Alone' /\ Owned' /\ Driver!EntriesMatch'
    <3>1. ~damaged /\ Driver!Updating = {} BY <2>2, <1>1 DEF Driver!Overlap
    <3>2. Alone' BY <3>1, <1>1 DEF Driver!TypeOK, Driver!Updating, Alone
    <3>3. Owned' BY <3>1, <1>1, <2>a, <2>n, <2>m DEF Driver!TypeOK, Driver!Updating, Owned
    <3>4. \A t \in linked : mem'[t] = mem[t] BY <1>1, <2>m DEF Driver!TypeOK
    <3>5. Driver!EntriesMatch' BY <3>1, <3>4, <1>1, <2>a
        DEF Driver!TypeOK, Driver!Running, Driver!EntriesMatch
    <3> QED BY <3>2, <3>3, <3>5
  <2>3. ASSUME ~damaged' PROVE Addresses' /\ Writers' /\ Driver!StrayAnswerOnlyWhenLate'
    <3>1. ~damaged BY <2>3, <1>1 DEF Driver!Overlap
    <3>2. Addresses' BY <3>1, <1>1, <2>a, <2>m DEF Driver!TypeOK, Addresses
    <3>3. Driver!StrayAnswerOnlyWhenLate' BY <3>1, <1>1, <2>a
        DEF Driver!TypeOK, Driver!StrayAnswerOnlyWhenLate
    <3>4. Writers' BY <3>1, <3>3, <1>1, <2>a, <2>n, <2>m
        DEF Driver!TypeOK, Writers, Driver!StrayAnswerOnlyWhenLate
    <3> QED BY <3>2, <3>3, <3>4
  <2> QED BY <2>1, <2>2, <2>3
<1>2. ASSUME at' = [at EXCEPT ![p] = "find"], UNCHANGED <<mem, mine, damaged>>
      PROVE  DriverInv'
  <2>a. at[p] = "add" /\ UNCHANGED <<proInfo, linked, target>> BY DEF Driver!AddNode
  <2>1. Driver!TypeOK' BY <1>2, <2>a DEF Driver!TypeOK
  <2>2. ~damaged' => Alone' /\ Owned' BY <1>2, <2>a
      DEF Driver!TypeOK, Alone, Owned, Driver!Updating
  <2>3. ~damaged' => Driver!EntriesMatch' BY <1>2, <2>a
      DEF Driver!TypeOK, Driver!EntriesMatch, Driver!Running
  <2>4. ~damaged' => Addresses' /\ Writers' /\ Driver!StrayAnswerOnlyWhenLate'
    BY <1>2, <2>a DEF Driver!TypeOK, Addresses, Writers, Driver!StrayAnswerOnlyWhenLate
  <2> QED BY <2>1, <2>2, <2>3, <2>4
<1> QED BY <1>1, <1>2 DEF Driver!AddNode

LEMMA LinkStep ==
    ASSUME NamesApart, DriverInv, NEW p \in Process, Driver!Link(p)
    PROVE  DriverInv'
<1> USE DEF DriverInv, Driver!Link
<1>0. CASE damaged
  <2>1. linked' \in SUBSET (linked \cup {mine[p]}) /\ damaged' BY <1>0
  <2> QED BY <2>1 DEF Driver!TypeOK, NamesApart
<1>d. CASE ~damaged
  <2>1. /\ mine[p] \in Slot \ linked /\ mem[mine[p]].pid = p
        /\ linked' = linked \cup {mine[p]} /\ ~damaged'
    BY <1>d DEF Owned
  <2>2. Driver!TypeOK' BY <2>1 DEF Driver!TypeOK
  <2>3. Driver!Updating = {p} /\ Driver!Updating' = {}
    BY <1>d DEF Driver!Updating, Alone, Driver!TypeOK
  <2>4. Alone' /\ Owned' BY <2>3 DEF Alone, Owned, Driver!Updating
  <2>5. Driver!EntriesMatch'
    BY <1>d, <2>1 DEF Driver!TypeOK, Driver!EntriesMatch, Driver!Running
  <2>6. Addresses' /\ Writers' /\ Driver!StrayAnswerOnlyWhenLate'
    BY <1>d, <2>1 DEF Driver!TypeOK, Addresses, Writers, Driver!StrayAnswerOnlyWhenLate
  <2> QED BY <2>2, <2>4, <2>5, <2>6
<1> QED BY <1>0, <1>d

LEMMA DriverFindStep ==
    ASSUME NamesApart, DriverInv, NEW p \in Process, Driver!FindNode(p)
    PROVE  DriverInv'
<1> USE DEF DriverInv, Driver!listVars
<1>0. PICK found \in Driver!Search(p) : \E st :
         /\ st = IF found = {} THEN proInfo[p] ELSE mem[CHOOSE s \in found : TRUE].by
         /\ proInfo' = [proInfo EXCEPT ![p] = st]
         /\ at' = [at EXCEPT ![p] = IF st # None THEN "delete" ELSE "wait"]
  BY DEF Driver!FindNode
<1>1. PICK status :
         /\ status = IF found = {} THEN proInfo[p] ELSE mem[CHOOSE s \in found : TRUE].by
         /\ proInfo' = [proInfo EXCEPT ![p] = status]
         /\ at' = [at EXCEPT ![p] = IF status # None THEN "delete" ELSE "wait"]
  BY <1>0
<1>2. at[p] = "find" /\ UNCHANGED <<linked, mem, mine, damaged, target>> BY
    DEF Driver!FindNode
<1>3. \/ status = proInfo[p]
      \/ \E s \in linked : mem[s].pid = p /\ status = mem[s].by
  BY <1>1, SearchFinds
<1>4. Driver!TypeOK'
  BY <1>1, <1>2, <1>3 DEF Driver!TypeOK
<1>5. at'[p] \in {"delete", "wait"} /\ \A q \in Process \ {p} : at'[q] = at[q]
  BY <1>1 DEF Driver!TypeOK
<1>6. Driver!Updating' = Driver!Updating /\ Driver!Running' = Driver!Running
  BY <1>2, <1>5 DEF Driver!Updating, Driver!Running
<1>7. ASSUME ~damaged' PROVE Alone' /\ Owned' /\ Driver!EntriesMatch'
  <2>1. Alone' BY <1>2, <1>6, <1>7 DEF Alone
  <2>2. Owned' BY <1>2, <1>5, <1>7 DEF Owned
  <2>3. Driver!Running \subseteq Process BY DEF Driver!Running
  <2>4. Driver!EntriesMatch' BY <1>2, <1>5, <1>6, <1>7, <2>3 DEF Driver!EntriesMatch
  <2> QED BY <2>1, <2>2, <2>4
<1>8. ASSUME ~damaged' PROVE Addresses' /\ Writers'
  BY <1>2, <1>5, <1>8 DEF Driver!TypeOK, Addresses, Writers
<1>9. ASSUME ~damaged' PROVE Driver!StrayAnswerOnlyWhenLate'
  <2>1. status \in Process \ {p} => at[status] = "alive"
    BY <1>2, <1>3, <1>9 DEF Driver!TypeOK, Driver!StrayAnswerOnlyWhenLate, Writers
  <2> QED BY <1>1, <1>2, <1>5, <1>9, <2>1 DEF Driver!TypeOK, Driver!StrayAnswerOnlyWhenLate
<1> QED BY <1>4, <1>7, <1>8, <1>9

LEMMA WaitStep ==
    ASSUME NamesApart, DriverInv, NEW p \in Process, Driver!Wait(p)
    PROVE  DriverInv'
<1> USE DEF DriverInv, Driver!listVars
<1>1. PICK where \in {"find", "delete"} : at' = [at EXCEPT ![p] = where]
  BY DEF Driver!Wait
<1>2. at[p] = "wait" /\ UNCHANGED <<proInfo, linked, mem, mine, damaged, target>>
  BY DEF Driver!Wait
<1>3. Driver!TypeOK' BY <1>1, <1>2 DEF Driver!TypeOK
<1>4. ~damaged' => Alone' /\ Owned' /\ Driver!EntriesMatch'
  BY <1>1, <1>2
    DEF Driver!TypeOK, Alone, Owned, Driver!EntriesMatch, Driver!Updating, Driver!Running
<1>5. ~damaged' => Addresses' /\ Writers' /\ Driver!StrayAnswerOnlyWhenLate'
  BY <1>1, <1>2 DEF Driver!TypeOK, Addresses, Writers, Driver!StrayAnswerOnlyWhenLate
<1> QED BY <1>3, <1>4, <1>5

LEMMA DriverDeleteStep ==
    ASSUME NamesApart, DriverInv, NEW p \in Process, Driver!DeleteNode(p)
    PROVE  DriverInv'
<1> USE DEF DriverInv
<1>1. PICK found \in Driver!Search(p) :
         IF found = {}
           THEN at' = [at EXCEPT ![p] = "alive"] /\ mine' = mine
           ELSE /\ at' = [at EXCEPT ![p] = "unlink"]
                /\ mine' = [mine EXCEPT ![p] = CHOOSE s \in found : TRUE]
  BY DEF Driver!DeleteNode
<1>2. at[p] = "delete" /\ damaged' = Driver!Overlap /\ UNCHANGED <<proInfo, linked, mem, target>>
  BY DEF Driver!DeleteNode
<1>3. CASE found = {}
  <2>1. Driver!TypeOK' BY <1>1, <1>2, <1>3 DEF Driver!TypeOK, Driver!Overlap
  <2>2. ASSUME ~damaged' PROVE Alone' /\ Owned' /\ Driver!EntriesMatch'
    <3>1. ~damaged /\ Driver!Updating = {} /\ \A s \in linked : mem[s].pid # p
      BY <1>2, <1>3, <2>2, SearchFinds DEF Driver!Overlap
    <3> QED BY <3>1, <1>1, <1>2, <1>3
        DEF Driver!TypeOK, Alone, Owned, Driver!EntriesMatch, Driver!Updating,
            Driver!Running
  <2>3. ASSUME ~damaged' PROVE Addresses' /\ Writers' /\ Driver!StrayAnswerOnlyWhenLate'
    BY <1>1, <1>2, <1>3, <2>3
      DEF Driver!TypeOK, Addresses, Writers, Driver!StrayAnswerOnlyWhenLate, Driver!Overlap
  <2> QED BY <2>1, <2>2, <2>3
<1>4. CASE found # {}
  <2>s. PICK s \in linked : mem[s].pid = p /\ (CHOOSE t \in found : TRUE) = s
    BY <1>4, SearchFinds
  <2>a. at' = [at EXCEPT ![p] = "unlink"] /\ mine' = [mine EXCEPT ![p] = s]
    BY <1>1, <1>4, <2>s
  <2>1. Driver!TypeOK' BY <1>2, <2>s, <2>a DEF Driver!TypeOK, Driver!Overlap
  <2>2. ASSUME ~damaged' PROVE Alone' /\ Owned' /\ Driver!EntriesMatch'
    <3>1. ~damaged /\ Driver!Updating = {} BY <1>2, <2>2 DEF Driver!Overlap
    <3> QED BY <3>1, <1>2, <2>s, <2>a
        DEF Driver!TypeOK, Alone, Owned, Driver!EntriesMatch, Driver!Updating,
            Driver!Running
  <2>3. ASSUME ~damaged' PROVE Addresses' /\ Writers' /\ Driver!StrayAnswerOnlyWhenLate'
    BY <1>2, <2>a, <2>3
      DEF Driver!TypeOK, Addresses, Writers, Driver!StrayAnswerOnlyWhenLate, Driver!Overlap
  <2> QED BY <2>1, <2>2, <2>3
<1> QED BY <1>3, <1>4

LEMMA UnlinkStep ==
    ASSUME NamesApart, DriverInv, NEW p \in Process, Driver!Unlink(p)
    PROVE  DriverInv'
<1> USE DEF DriverInv, Driver!Unlink
<1>0. CASE damaged
  <2>1. linked' \in SUBSET linked /\ damaged' BY <1>0
  <2> QED BY <2>1 DEF Driver!TypeOK
<1>d. CASE ~damaged
  <2>1. /\ mine[p] \in linked /\ mem[mine[p]].pid = p
        /\ linked' = linked \ {mine[p]} /\ ~damaged'
    BY <1>d DEF Owned
  <2>2. Driver!TypeOK' BY <2>1 DEF Driver!TypeOK
  <2>3. Driver!Updating' = {} BY <1>d DEF Driver!Updating, Alone, Driver!TypeOK
  <2>4. Alone' /\ Owned' BY <2>3 DEF Alone, Owned, Driver!Updating
  <2>5. \A s \in linked' : mem[s].pid # p BY <1>d, <2>1 DEF Driver!EntriesMatch
  <2>6. Driver!EntriesMatch' BY <1>d, <2>1, <2>5
      DEF Driver!TypeOK, Driver!EntriesMatch, Driver!Running
  <2>7. Addresses' BY <1>d, <2>1 DEF Driver!TypeOK, Addresses
  <2>8. Writers' /\ Driver!StrayAnswerOnlyWhenLate'
    BY <1>d, <2>1 DEF Driver!TypeOK, Writers, Driver!StrayAnswerOnlyWhenLate
  <2> QED BY <2>2, <2>4, <2>6, <2>7, <2>8
<1> QED BY <1>0, <1>d

LEMMA GetAddrStep ==
    ASSUME NamesApart, DriverInv, NEW c \in Caller, NEW p \in Process, Driver!GetAddrOfNode(c, p)
    PROVE  DriverInv'
<1> USE DEF DriverInv, Driver!listVars, Driver!loopVars
<1>0. UNCHANGED <<at, proInfo, linked, mem, mine, damaged>> BY
    DEF Driver!GetAddrOfNode, Driver!Crash
<1>1. PICK found \in Driver!Search(p) :
         IF found = {} THEN Driver!Crash
         ELSE target' = [target EXCEPT ![c] = [for |-> p, slot |-> CHOOSE s \in found : TRUE]]
  BY DEF Driver!GetAddrOfNode
<1>2. \/ target' = target
      \/ \E s \in linked : mem[s].pid = p /\ target' = [target EXCEPT ![c] = [for |-> p, slot |-> s]]
  BY <1>1, SearchFinds DEF Driver!Crash
<1>3. Driver!TypeOK' BY <1>0, <1>2 DEF Driver!TypeOK
<1>4. ~damaged' => Alone' /\ Owned' /\ Driver!EntriesMatch'
  BY <1>0 DEF Alone, Owned, Driver!EntriesMatch, Driver!Updating, Driver!Running
<1>5. ~damaged' => Writers' /\ Driver!StrayAnswerOnlyWhenLate'
  BY <1>0 DEF Writers, Driver!StrayAnswerOnlyWhenLate
<1>6. ~damaged' => Addresses'
  BY <1>0, <1>2 DEF Driver!TypeOK, Addresses
<1> QED BY <1>3, <1>4, <1>5, <1>6

LEMMA WriteStatusStep ==
    ASSUME NamesApart, DriverInv, NEW c \in Caller, Driver!WriteStatus(c)
    PROVE  DriverInv'
<1> USE DEF DriverInv, Driver!loopVars
<1> DEFINE s == target[c].slot
           q == target[c].for
<1>0. /\ s \in Slot /\ q \in Process \cup {None}
      /\ UNCHANGED <<at, proInfo, linked, mine, damaged>>
  BY DEF Driver!WriteStatus, Driver!TypeOK
<1>1. /\ mem' \in [Slot -> [pid : Process \cup {None}, by : Process \cup {None, Garbage}]]
      /\ \A t \in Slot : mem'[t].pid = mem[t].pid
      /\ \A t \in Slot : mem'[t].by = IF t = s THEN q ELSE mem[t].by
  BY <1>0 DEF Driver!WriteStatus, Driver!TypeOK
<1>2. /\ target' \in [Caller -> [for : Process \cup {None}, slot : Slot \cup {None}]]
      /\ \A d \in Caller : d # c => target'[d] = target[d]
      /\ target'[c].slot = None
  BY DEF Driver!WriteStatus, Driver!TypeOK
<1> HIDE DEF s, q
<1>3. Driver!TypeOK' BY <1>0, <1>1, <1>2 DEF Driver!TypeOK
<1>4. ~damaged' => Alone' /\ Driver!EntriesMatch'
  BY <1>0, <1>1
    DEF Driver!TypeOK, Alone, Driver!EntriesMatch, Driver!Updating, Driver!Running
<1>5. ~damaged' => Owned' BY <1>0, <1>1 DEF Driver!TypeOK, Owned
<1>6. ~damaged' => Addresses' BY <1>0, <1>1, <1>2 DEF Driver!TypeOK, Addresses
<1>7. ~damaged' => Driver!StrayAnswerOnlyWhenLate' BY <1>0
    DEF Driver!StrayAnswerOnlyWhenLate
<1>8. ASSUME ~damaged' PROVE Writers'
  <2>1. q \in Process /\ (at[q] = "alive" \/ mem[s].pid = q)
    BY <1>0, <1>8 DEF Addresses, Driver!WriteStatus, s, q
  <2> QED BY <1>0, <1>1, <1>8, <2>1 DEF Writers
<1> QED BY <1>3, <1>4, <1>5, <1>6, <1>7, <1>8

LEMMA DriverKept ==
    ASSUME DriverInv, UNCHANGED <<at, proInfo, linked, mem, mine, target, damaged>>
    PROVE  DriverInv'
BY DEF DriverInv, Driver!TypeOK, Alone, Driver!EntriesMatch, Owned, Addresses, Writers,
    Driver!StrayAnswerOnlyWhenLate, Driver!Updating, Driver!Running

LEMMA DriverStep == NamesApart /\ DriverInv /\ [Driver!Next]_(Driver!vars) => DriverInv'
<1> SUFFICES ASSUME NamesApart, DriverInv, [Driver!Next]_(Driver!vars) PROVE DriverInv' OBVIOUS
<1>1. CASE Driver!DriverEntry \/ Driver!DriverUnload \/ UNCHANGED Driver!vars
  BY <1>1, DriverKept
    DEF Driver!DriverEntry, Driver!DriverUnload, Driver!vars, Driver!loopVars,
        Driver!listVars
<1>2. ASSUME NEW p \in Process, Driver!Enter(p) \/ Driver!Creation(p) PROVE DriverInv'
  BY <1>2, EnterStep, DriverAddStep, LinkStep, DriverFindStep, WaitStep, DriverDeleteStep,
     UnlinkStep DEF Driver!Creation
<1>3. ASSUME NEW c \in Caller, Driver!Ioctl(c) PROVE DriverInv'
  <2>1. CASE Driver!SetSyncEvent(c) \/ \E outLen \in {0, 4} : Driver!GetLog(c, outLen)
    BY <2>1, DriverKept
      DEF Driver!SetSyncEvent, Driver!GetLog, Driver!Crash, Driver!vars, Driver!loopVars,
          Driver!listVars
  <2> QED BY <1>3, <2>1, WriteStatusStep, GetAddrStep DEF Driver!Ioctl
<1> QED BY <1>1, <1>2, <1>3 DEF Driver!Next

\* What is known of every reachable state of the driver.
THEOREM DriverInvariance == NamesApart => (Driver!Spec => []DriverInv)
<1> SUFFICES ASSUME NamesApart PROVE Driver!Spec => []DriverInv OBVIOUS
<1>1. Driver!Init => DriverInv BY DriverStart
<1>2. DriverInv /\ [Driver!Next]_(Driver!vars) => DriverInv' BY DriverStep
<1> QED BY <1>1, <1>2, PTL DEF Driver!Spec

\* As long as no two unlocked updates of gProcessIdMap have overlapped, it has one entry
\* at most for a process, and only of a creation under way.
THEOREM OneEntryEach == NamesApart => (Driver!Spec => []EntriesMatch)
<1> SUFFICES ASSUME NamesApart PROVE Driver!Spec => []EntriesMatch OBVIOUS
<1>1. DriverInv => EntriesMatch BY DEF DriverInv, EntriesMatch, Driver!EntriesMatch
<1> QED BY <1>1, DriverInvariance, PTL

\* A creation that is let go by the answer for another is let go by one that came too
\* late for that other, and wrote through an address looked up before.
THEOREM OwnAnswer == NamesApart => (Driver!Spec => []StrayAnswerOnlyWhenLate)
<1> SUFFICES ASSUME NamesApart PROVE Driver!Spec => []StrayAnswerOnlyWhenLate OBVIOUS
<1>1. DriverInv => StrayAnswerOnlyWhenLate BY
    DEF DriverInv, StrayAnswerOnlyWhenLate, Driver!StrayAnswerOnlyWhenLate
<1> QED BY <1>1, DriverInvariance, PTL
===============================================================================
