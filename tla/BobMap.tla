-------------------------------- MODULE BobMap --------------------------------
(***************************************************************************)
(* BobMap of Common/KBobMap.c: a hash table of lists in kernel memory.  The *)
(* map has no lock: its callers run one operation at a time, and an         *)
(* operation is one step.  A list is the set of its nodes, for no operation *)
(* depends on their order but EnumAllNode, which visits them in any.        *)
(***************************************************************************)
EXTENDS Integers, FiniteSets

CONSTANTS Key,       \* the keys callers pass
          NoRealKey, \* those pGetRealKey has no real key for
          Name,      \* what pIsEqual compares
          NameOf,    \* the name of each key
          Hash,      \* the hash of each key, before the modulo
          Data,      \* the data of a node
          None,      \* no data
          NoName,    \* no name
          Count      \* uListArrayCount

\* Keys that pIsEqual takes for equal must hash alike, as the case-folding hash
\* of strings provides for; it is never asked about a key with no real key.
ASSUME KeyAssumption ==
    /\ NoRealKey \subseteq Key
    /\ NameOf \in [Key -> Name]
    /\ Hash \in [Key -> Nat]
    /\ \A k, l \in Key : NameOf[k] = NameOf[l] => Hash[k] = Hash[l]
    /\ \A k \in NoRealKey, l \in Key \ NoRealKey : NameOf[k] # NameOf[l]
    /\ Count \in Nat \ {0}
    /\ None \notin Data /\ NoName \notin Name

VARIABLES valid,   \* IsValidMap
          lists,   \* pListArray
          num,     \* uCurNodeNum
          ret,     \* what the last call returned
          asked,   \* enumeration: the nodes at which it was asked to stop, or None
                   \* when the last call was another
          seen     \* enumeration: the nodes it passed to its callback

vars == <<valid, lists, num, ret, asked, seen>>

Bucket == 0..(Count - 1)
Node == [key : Key, data : Data]
GetHashValue(k) == Hash[k] % Count

\* FindNodeInBobMapEx looks in one list only.
Found(k) == {n \in lists[GetHashValue(k)] : NameOf[n.key] = NameOf[k]}
Nodes == UNION {lists[i] : i \in Bucket}
EmptyLists == [i \in Bucket |-> {}]
Answer(call, name, ok, data) ==
    [call |-> call, name |-> name, ok |-> ok, data |-> data]

NoEnumeration == asked' = None /\ seen' = {}

Init ==
    /\ valid = FALSE
    /\ lists = EmptyLists
    /\ num = 0
    /\ ret = Answer("open", NoName, FALSE, None)
    /\ asked = None
    /\ seen = {}

-------------------------------------------------------------------------------
InitBobMap ==
    /\ ~valid
    /\ \/ valid' = TRUE /\ ret' = Answer("open", NoName, TRUE, None)
       \/ UNCHANGED valid /\ ret' = Answer("open", NoName, FALSE, None)   \* ExAllocatePool fails
    /\ lists' = EmptyLists
    /\ num' = 0
    /\ NoEnumeration

\* An operation on an invalid map, or with a key that has no real key, fails.
Refused(k) == ~valid \/ k \in NoRealKey

RefusedCall(k) ==
    /\ Refused(k)
    /\ \E call \in {"put", "get", "drop"} : ret' = Answer(call, NameOf[k], FALSE, None)
    /\ UNCHANGED <<valid, lists, num>> /\ NoEnumeration

InsertTail(k, d) ==
    /\ ~Refused(k)
    /\ lists' = [lists EXCEPT ![GetHashValue(k)] = @ \cup {[key |-> k, data |-> d]}]
    /\ num' = num + 1
    /\ ret' = Answer("put", NameOf[k], TRUE, None)
    /\ UNCHANGED valid /\ NoEnumeration

AddNode(k, d) == Found(k) = {} /\ InsertTail(k, d)

\* The key is taken, or the lookaside list has no memory.
AddFails(k) ==
    /\ ~Refused(k)
    /\ ret' = Answer("put", NameOf[k], FALSE, None)
    /\ UNCHANGED <<valid, lists, num>> /\ NoEnumeration

\* pGetData is left alone when there is nothing to copy.
DataOf(found) == IF found = {} THEN None ELSE (CHOOSE n \in found : TRUE).data

Unlink(k, numAfter) ==
    /\ ~Refused(k)
    /\ lists' = [lists EXCEPT ![GetHashValue(k)] = @ \ Found(k)]
    /\ num' = numAfter
    /\ ret' = Answer("drop", NameOf[k], TRUE, DataOf(Found(k)))
    /\ UNCHANGED valid /\ NoEnumeration

DeleteNode(k) == Unlink(k, IF Found(k) = {} THEN num ELSE num - 1)

\* The search in a list that another part of the hash selects.
FindElsewhere(k) ==
    /\ ~Refused(k)
    /\ LET found == {n \in lists[Hash[k] \div Count % Count] : NameOf[n.key] = NameOf[k]}
       IN  ret' = Answer("get", NameOf[k], found # {}, DataOf(found))
    /\ UNCHANGED <<valid, lists, num>> /\ NoEnumeration

\* FindNodeInBobMap, and GetAddrOfNode, whose address is good until a delete.
FindNode(k) ==
    /\ ~Refused(k)
    /\ ret' = Answer("get", NameOf[k], Found(k) # {}, DataOf(Found(k)))
    /\ UNCHANGED <<valid, lists, num>> /\ NoEnumeration

ClearAllNode ==
    /\ valid
    /\ lists' = EmptyLists
    /\ num' = 0
    /\ UNCHANGED <<valid, ret>> /\ NoEnumeration

UnInitBobMap ==
    /\ valid
    /\ valid' = FALSE
    /\ lists' = EmptyLists
    /\ num' = 0
    /\ UNCHANGED ret /\ NoEnumeration

\* The callback asks to stop at the nodes in stop.  The break ends the walk of
\* one list; the next list is walked all the same.
WalkList(i, stop) ==
    IF lists[i] \cap stop = {} THEN {lists[i]}
    ELSE {v \in SUBSET lists[i] : Cardinality(v \cap stop) = 1}

Enumerate(stop, walked) ==
    /\ valid
    /\ asked' = stop
    /\ \E walk \in [walked -> SUBSET Nodes] :
          /\ \A i \in walked : walk[i] \in WalkList(i, stop)
          /\ seen' = UNION {walk[i] : i \in walked}
    /\ UNCHANGED <<valid, lists, num, ret>>

EnumAllNode(stop) == Enumerate(stop, Bucket)

-------------------------------------------------------------------------------
Next ==
    \/ InitBobMap
    \/ \E k \in Key :
          \/ RefusedCall(k) \/ AddFails(k) \/ DeleteNode(k) \/ FindNode(k)
          \/ \E d \in Data : AddNode(k, d)
    \/ ClearAllNode
    \/ UnInitBobMap
    \/ \E stop \in SUBSET Nodes : EnumAllNode(stop)

Spec == Init /\ [][Next]_vars

-------------------------------------------------------------------------------
TypeOK ==
    /\ valid \in BOOLEAN
    /\ lists \in [Bucket -> SUBSET Node]
    /\ num \in Nat
    /\ ret \in [call : {"open", "put", "get", "drop"},
                  name : Name \cup {NoName}, ok : BOOLEAN, data : Data \cup {None}]
    /\ asked \in (SUBSET Node) \cup {None}
    /\ seen \subseteq Node

\* Each node is in the list of its hash, no two have equal keys, and uCurNodeNum
\* counts them, through failed adds, deletes of what is not there, clearing, and
\* a second initialisation.  Only on this ground may a search look in one list.
TableExact ==
    /\ \A i \in Bucket : \A n \in lists[i] : GetHashValue(n.key) = i
    /\ \A m, n \in Nodes : NameOf[m.key] = NameOf[n.key] => m = n
    /\ IsFiniteSet(Nodes) /\ num = Cardinality(Nodes)
    /\ ~valid => Nodes = {}

\* The map keeps the promise of Dictionary: a search finds what was added and not
\* deleted, whatever shares its list.
Promise == INSTANCE Dictionary
               WITH entries <- {[name |-> NameOf[n.key], data |-> n.data] : n \in Nodes}

KeepsPromise == Promise!Spec

\* An enumeration whose callback never asks to stop sees every node, and one that
\* is stopped sees nothing but nodes of the map.
EnumComplete ==
    asked # None => seen \subseteq Nodes /\ (asked = {} => seen = Nodes)

\* The callback's answer means "leave the enumeration or not: TRUE - leave"
\* (KBobMap.h:34): no node is passed to it after one it has answered TRUE for.
EnumStops == asked # None => Cardinality(asked \cap seen) <= 1

===============================================================================
