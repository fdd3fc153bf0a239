---------------------------- MODULE ProcessNotify ----------------------------
(***************************************************************************)
(* The driver of KernelDemo.  The creation of a process runs                *)
(* Process_NotifyProcessEx, which puts an entry for it into gProcessIdMap   *)
(* and holds the creation up until a service has answered for it by an      *)
(* IOCTL, or some waits have passed.  Creations and IOCTLs run on threads   *)
(* of their own and nobody takes a lock: linking and unlinking an entry are *)
(* two steps, and when two such pairs overlap the list is undefined from    *)
(* then on ("damaged").  An answer looks the address of the entry up and    *)
(* writes through it later; entries come from a lookaside list and are used *)
(* again.                                                                   *)
(***************************************************************************)
EXTENDS Integers

CONSTANTS Process,   \* processes whose image is called ...Demo.exe, by their ids
          Caller,    \* threads of the service that call DeviceIoControl
          Slot,      \* the memory of entries
          LastRetry, \* 10 in the source
          Garbage,   \* who "wrote" a status that the stack happened to hold
          None

VARIABLES system,    \* "boot", "up", "unready", "unloading", "off", or "crashed"
          mapValid,  \* InitBobMap has succeeded
          at,        \* where each creation is in Process_NotifyProcessEx
          retry,     \* its loop counter
          proInfo,   \* who set ProInfo.Status to 1, or None while it is 0
          linked,    \* the slots on the list of gProcessIdMap
          mem,       \* what each slot holds: an id, and who set its Status
          mine,      \* the slot a creation links or unlinks
          target,    \* the address a caller's GetAddrOfNode returned, and for whom
          damaged,   \* two unlocked updates of the list have overlapped
          log,       \* ProcessId2Inject
          pEvent     \* whether a synchronisation event is set up, and its references

listVars == <<linked, mem, mine, damaged>>
loopVars == <<at, retry, proInfo>>
vars == <<system, mapValid, loopVars, listVars, target, log, pEvent>>

Running == {p \in Process : at[p] \notin {"unborn", "alive"}}
Updating == {p \in Process : at[p] \in {"link", "unlink"}}

Init ==
    /\ system = "boot" /\ mapValid = FALSE
    /\ at = [p \in Process |-> "unborn"]
    /\ retry = [p \in Process |-> 0]
    /\ proInfo = [p \in Process |-> None]
    /\ linked = {}
    /\ mem = [s \in Slot |-> [pid |-> None, by |-> None]]
    /\ mine = [p \in Process |-> None]
    /\ target = [c \in Caller |-> [for |-> None, slot |-> None]]
    /\ damaged = FALSE
    /\ log = None
    /\ pEvent = 0

-------------------------------------------------------------------------------
\* DriverEntry ignores what InitProcessFrame returns: the event, the map or the
\* registration may have failed, and the device is there all the same.
DriverEntry ==
    /\ system = "boot"
    /\ \/ system' = "up" /\ mapValid' = TRUE
       \/ system' = "unready" /\ mapValid' \in BOOLEAN
    /\ UNCHANGED <<loopVars, listVars, target, log, pEvent>>

\* PsSetCreateProcessNotifyRoutineEx(..., TRUE) waits for the callbacks under way.
\* The map and the device are left as they are.
DriverUnload ==
    /\ \/ system \in {"up", "unready"} /\ system' = "unloading"
       \/ system = "unloading" /\ Running = {} /\ system' = "off"
    /\ \A c \in Caller : target[c].slot = None
    /\ UNCHANGED <<mapValid, loopVars, listVars, target, log, pEvent>>

-------------------------------------------------------------------------------
\* FindNodeInBobMapEx with IsEqualProcessInfo.  A search that overlaps an update, or
\* walks a damaged list, may miss an entry that is there.
Entries(p) == {s \in linked : mem[s].pid = p}
Overlap == damaged \/ Updating # {}
Search(p) == {{s} : s \in Entries(p)} \cup (IF Overlap \/ Entries(p) = {} THEN {{}} ELSE {})

\* ProInfo.Status is never initialised.
Enter(p) ==
    /\ system = "up" /\ at[p] = "unborn"
    /\ at' = [at EXCEPT ![p] = "add"]
    /\ \E status \in {None, Garbage} : proInfo' = [proInfo EXCEPT ![p] = status]
    /\ UNCHANGED <<system, mapValid, retry, listVars, target, log, pEvent>>

\* AddNodeToBobMap: the search, a slot, and the read of the list's tail; it may
\* also have no memory.  AddLog comes after it.
AddNode(p) ==
    /\ at[p] = "add"
    /\ \/ \E s \in Slot \ (linked \cup {mine[q] : q \in Updating}) :
             /\ mem' = [mem EXCEPT ![s] = [pid |-> p, by |-> proInfo[p]]]
             /\ mine' = [mine EXCEPT ![p] = s]
             /\ damaged' = Overlap
             /\ at' = [at EXCEPT ![p] = "link"]
             /\ UNCHANGED log
       \/ /\ at' = [at EXCEPT ![p] = "find"] /\ log' = p
          /\ UNCHANGED <<mem, mine, damaged>>
    /\ UNCHANGED <<system, mapValid, retry, proInfo, linked, target, pEvent>>

\* The writes of InsertTailList.  On a damaged list they may lose entries.
Link(p) ==
    /\ at[p] = "link"
    /\ IF damaged THEN linked' \in SUBSET (linked \cup {mine[p]})
                  ELSE linked' = linked \cup {mine[p]}
    /\ mine' = [mine EXCEPT ![p] = None]
    /\ at' = [at EXCEPT ![p] = "find"]
    /\ log' = p
    /\ UNCHANGED <<system, mapValid, retry, proInfo, mem, target, damaged, pEvent>>

\* The loop's FindNodeInBobMap copies the entry into ProInfo, if there is one.
FindNode(p) ==
    /\ at[p] = "find"
    /\ \E found \in Search(p) :
          LET status == IF found = {} THEN proInfo[p] ELSE mem[CHOOSE s \in found : TRUE].by
          IN  /\ proInfo' = [proInfo EXCEPT ![p] = status]
              /\ at' = [at EXCEPT ![p] = IF status # None THEN "delete" ELSE "wait"]
    /\ UNCHANGED <<system, mapValid, retry, listVars, target, log, pEvent>>

\* The wait whose timeout restarts the loop without counting.
WaitUncounted(p) ==
    /\ at[p] = "wait"
    /\ at' = [at EXCEPT ![p] = "find"]
    /\ UNCHANGED <<system, mapValid, retry, proInfo, listVars, target, log, pEvent>>

\* Nobody sets Process_Low_Event: each wait runs its 250 ms.
Wait(p) ==
    /\ at[p] = "wait"
    /\ retry' = [retry EXCEPT ![p] = @ + 1]
    /\ at' = [at EXCEPT ![p] = IF retry[p] + 1 <= LastRetry THEN "find" ELSE "delete"]
    /\ UNCHANGED <<system, mapValid, proInfo, listVars, target, log, pEvent>>

\* DeleteNodeFromBobMap: the search and the read of the neighbours.
DeleteNode(p) ==
    /\ at[p] = "delete"
    /\ \E found \in Search(p) :
          IF found = {}
            THEN /\ at' = [at EXCEPT ![p] = "alive"]
                 /\ UNCHANGED mine
            ELSE /\ at' = [at EXCEPT ![p] = "unlink"]
                 /\ mine' = [mine EXCEPT ![p] = CHOOSE s \in found : TRUE]
    /\ damaged' = Overlap
    /\ UNCHANGED <<system, mapValid, retry, proInfo, linked, mem, target, log, pEvent>>

\* The creation that was answered goes on and leaves its entry behind.
UnlinkUnanswered(p) ==
    /\ at[p] = "unlink"
    /\ linked' = IF proInfo[p] = None THEN linked \ {mine[p]} ELSE linked
    /\ mine' = [mine EXCEPT ![p] = None]
    /\ at' = [at EXCEPT ![p] = "alive"]
    /\ UNCHANGED <<system, mapValid, retry, proInfo, mem, target, damaged, log, pEvent>>

\* The writes of RemoveEntryList, and FreeBobMapNode.
Unlink(p) ==
    /\ at[p] = "unlink"
    /\ IF damaged THEN linked' \in SUBSET linked
                  ELSE linked' = linked \ {mine[p]}
    /\ mine' = [mine EXCEPT ![p] = None]
    /\ at' = [at EXCEPT ![p] = "alive"]
    /\ UNCHANGED <<system, mapValid, retry, proInfo, mem, target, damaged, log, pEvent>>

-------------------------------------------------------------------------------
Crash ==
    /\ system' = "crashed"
    /\ UNCHANGED <<mapValid, loopVars, listVars, target, log, pEvent>>

Idle(c) == target[c].slot = None /\ system \in {"up", "unready"}

\* IOCTL_GetProcessNotify.  RtlCopyMemory takes ProcessId2Inject for an address: it
\* reads at the id, which is no memory of the kernel, unless it copies nothing.
GetLog(c, outLen) ==
    /\ Idle(c)
    /\ IF outLen > 0 THEN Crash ELSE UNCHANGED vars

\* IOCTL_SetSyncEvent.  A second call drops the first event without dereferencing it.
SetSyncEvent(c) ==
    /\ Idle(c) /\ pEvent < 2
    /\ pEvent' = pEvent + 1
    /\ UNCHANGED <<system, mapValid, loopVars, listVars, target, log>>

\* IOCTL_SetProcessStatus, the lookup by the entry's position instead of its id.
GetAnyAddr(c, p) ==
    /\ Idle(c) /\ at[p] # "unborn"
    /\ \E s \in linked : target' = [target EXCEPT ![c] = [for |-> p, slot |-> s]]
    /\ UNCHANGED <<system, mapValid, loopVars, listVars, log, pEvent>>

\* IOCTL_SetProcessStatus, UpdateProcessInfo: GetAddrOfNode.  The service knows the
\* id of a process from the moment its creation begins.  With no entry, or no map,
\* the NULL is written through.
GetAddrOfNode(c, p) ==
    /\ Idle(c) /\ (at[p] # "unborn" \/ ~mapValid)
    /\ \E found \in Search(p) :
          IF found = {}
            THEN Crash
            ELSE /\ target' = [target EXCEPT ![c] = [for |-> p, slot |-> CHOOSE s \in found : TRUE]]
                 /\ UNCHANGED <<system, mapValid, loopVars, listVars, log, pEvent>>

\* pProInfo->Status = 1, through an address that may be stale by now.
WriteStatus(c) ==
    /\ target[c].slot # None
    /\ mem' = [mem EXCEPT ![target[c].slot].by = target[c].for]
    /\ target' = [target EXCEPT ![c] = [for |-> None, slot |-> None]]
    /\ UNCHANGED <<system, mapValid, loopVars, linked, mine, damaged, log, pEvent>>

-------------------------------------------------------------------------------
Creation(p) ==
    /\ system # "crashed"
    /\ AddNode(p) \/ Link(p) \/ FindNode(p) \/ Wait(p) \/ DeleteNode(p) \/ Unlink(p)

Ioctl(c) ==
    /\ system # "crashed"
    /\ \/ SetSyncEvent(c) \/ WriteStatus(c)
       \/ \E outLen \in {0, 4} : GetLog(c, outLen)
       \/ \E p \in Process : GetAddrOfNode(c, p)

Next ==
    \/ DriverEntry \/ DriverUnload
    \/ \E p \in Process : Enter(p) \/ Creation(p)
    \/ \E c \in Caller : Ioctl(c)

Spec == Init /\ [][Next]_vars
FairSpec == Spec /\ \A p \in Process : WF_vars(Creation(p))

-------------------------------------------------------------------------------
\* What a creation links has memory of its own; proInfo names a process, whoever's.
TypeOK ==
    /\ at \in [Process -> {"unborn", "add", "link", "find", "wait", "delete", "unlink", "alive"}]
    /\ proInfo \in [Process -> Process \cup {None, Garbage}]
    /\ linked \subseteq Slot
    /\ mem \in [Slot -> [pid : Process \cup {None}, by : Process \cup {None, Garbage}]]
    /\ mine \in [Process -> Slot \cup {None}]
    /\ \A p \in Process : at[p] = "link" => mine[p] \in Slot
    /\ target \in [Caller -> [for : Process \cup {None}, slot : Slot \cup {None}]]
    /\ damaged \in BOOLEAN

\* A creation ends, whatever the service does: it answers late, twice, for another
\* process or never.  The waits are counted, and nothing else holds a creation up,
\* unless its walk of a damaged list does.
CreationEnds ==
    \A p \in Process : at[p] = "add" ~> (at[p] = "alive" \/ damaged \/ system = "crashed")

\* As long as no two updates of the unlocked list have overlapped, the list holds
\* one entry for each creation under way that got one, with its id, and none of a
\* creation that has ended: Process_NotifyProcessEx deletes on every way out.
EntriesMatch ==
    ~damaged =>
        /\ \A s \in linked : mem[s].pid \in Running /\ at[mem[s].pid] \notin {"add", "link"}
        /\ \A s, t \in linked : mem[s].pid = mem[t].pid => s = t

\* A creation let go by an answer was answered itself, unless the answer came too
\* late for another: that other creation had given up between the lookup of the
\* address and the write, and its entry had become this one's.
StrayAnswerOnlyWhenLate ==
    \A p \in Process :
        proInfo[p] \in Process \ {p} /\ ~damaged => at[proInfo[p]] = "alive"

===============================================================================
