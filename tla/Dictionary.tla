------------------------------ MODULE Dictionary ------------------------------
(***************************************************************************)
(* What BobMap of Common/KBobMap.h promises: a finite set of entries, one   *)
(* per name, and an answer to each call.  A put may fail for want of memory *)
(* and fails when the name is taken.                                        *)
(***************************************************************************)
CONSTANTS Name, Data,
          NoName,   \* no name: of a call that has none
          None      \* no data: the answer of a call that found nothing

VARIABLES entries,  \* the entries in the map
          ret       \* what the last call returned

vars == <<entries, ret>>

Entry == [name : Name, data : Data]
Answer(call, name, ok, data) ==
    [call |-> call, name |-> name, ok |-> ok, data |-> data]

Named(n) == {e \in entries : e.name = n}

Init ==
    /\ entries = {}
    /\ ret = Answer("open", NoName, FALSE, None)

Put(n, d) ==
    /\ Named(n) = {}
    /\ entries' = entries \cup {[name |-> n, data |-> d]}
    /\ ret' = Answer("put", n, TRUE, None)

PutFails(n) ==
    /\ ret' = Answer("put", n, FALSE, None)
    /\ UNCHANGED entries

\* The data of the entry is returned, also when it is removed.
Get(n) ==
    /\ \/ \E e \in Named(n) : ret' = Answer("get", n, TRUE, e.data)
       \/ Named(n) = {} /\ ret' = Answer("get", n, FALSE, None)
    /\ UNCHANGED entries

\* Removing what is not there may succeed too, with no data.
Drop(n) ==
    /\ \/ \E e \in Named(n) : ret' = Answer("drop", n, TRUE, e.data)
       \/ Named(n) = {} /\ \E ok \in BOOLEAN : ret' = Answer("drop", n, ok, None)
    /\ entries' = entries \ Named(n)

\* The map is set up, and empty, or it is not.
Open ==
    /\ entries = {}
    /\ \E ok \in BOOLEAN : ret' = Answer("open", NoName, ok, None)
    /\ UNCHANGED entries

Clear ==
    /\ entries' = {}
    /\ UNCHANGED ret

Next ==
    \/ \E n \in Name, d \in Data : Put(n, d)
    \/ \E n \in Name : Get(n) \/ Drop(n) \/ PutFails(n)
    \/ Open
    \/ Clear

Spec == Init /\ [][Next]_vars
===============================================================================
