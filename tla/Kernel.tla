-------------------------------- MODULE Kernel --------------------------------
(* The two parts that live in the kernel: BobMap, and ProcessNotify, which    *)
(* keeps its processes in such a map.  ProcessNotify has the map's operations *)
(* in more steps, as it calls them without a lock; here they are side by      *)
(* side, and a behaviour is one of the map alone or one of the driver.        *)
EXTENDS BobMap

CONSTANTS Process, Caller, Slot, LastRetry, Garbage

VARIABLES part,
          system, mapValid, at, retry, proInfo, linked, mem, mine, target, damaged,
          log, pEvent

Driver == INSTANCE ProcessNotify
driverVars ==
    <<system, mapValid, at, retry, proInfo, linked, mem, mine, target, damaged, log, pEvent>>

KernelInit == part \in {"map", "driver"} /\ Init /\ Driver!Init

KernelNext ==
    \/ part = "map" /\ Next /\ UNCHANGED <<part, driverVars>>
    \/ part = "driver" /\ Driver!Next /\ UNCHANGED <<part, vars>>

KernelSpec ==
    /\ KernelInit /\ [][KernelNext]_<<part, vars, driverVars>>
    /\ \A p \in Process : WF_driverVars(part = "driver" /\ Driver!Creation(p))

\* Process_NotifyProcessEx returns, whatever the service does.
CreationEnds == Driver!CreationEnds

\* gProcessIdMap has one entry for a creation under way, and none for any other.
EntriesMatch == Driver!EntriesMatch

\* Only an answer that came too late lets another creation go.
StrayAnswerOnlyWhenLate == Driver!StrayAnswerOnlyWhenLate
===============================================================================
