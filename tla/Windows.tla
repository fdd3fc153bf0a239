-------------------------------- MODULE Windows --------------------------------
(***************************************************************************)
(* The Windows tools side by side.  A behaviour is that of one of five: a   *)
(* function of OsApi or of a tool, run by ApiCalls; ProcessTree; ApiHook;   *)
(* PEFile, with a file or with an export table; and OpenedFilePath.         *)
(***************************************************************************)
EXTENDS Integers, Sequences, FiniteSets

CONSTANTS Pid, nPid, MaxSpawns, None,   \* of ProcessTree
          MayFail, MaxFailures, Called, Unheld, Realloc,   \* of ApiHook
          Code, Ledger,                 \* of ApiCalls and CallLedger
          Ulong, Files, ExportTables, Wanted,   \* of PEFile
          Buffers                       \* of OpenedFilePath

VARIABLES part,
          stack, open, set, lost, twice, result,
          parent, family, used, reborn, spawns, snapshot, todo, it, nTemp, phase,
          doomed, spared, stray,
          code, slot, apis, at, last, hooking, once, call, died, doing, pending, failures, kept,
          build, file, stage, class, reads, table, wanted, found,
          buffer, index, path, looked, ended

callVars == <<stack, open, set, lost, twice, result>>
treeVars == <<parent, family, used, reborn, spawns, snapshot, todo, it, nTemp, phase,
              doomed, spared, stray>>
hookVars == <<code, slot, apis, at, last, hooking, once, call, died, doing, pending, failures,
              kept>>
fileVars == <<build, file, stage, class, reads, table, wanted, found>>
pathVars == <<buffer, index, path, looked, ended>>
windowsVars == <<part, callVars, treeVars, hookVars, fileVars, pathVars>>

Calls == INSTANCE ApiCalls
Accounts == INSTANCE CallLedger
Tree == INSTANCE ProcessTree
Hooks == INSTANCE ApiHook WITH i <- at, end <- last, phase <- hooking
PE == INSTANCE PEFile
OpenedPath == INSTANCE OpenedFilePath WITH reads <- looked

-------------------------------------------------------------------------------
\* A process has an id, which is not that of the idle process.
ASSUME PidAssumption ==
    nPid \in Pid /\ 0 \notin Pid /\ None \notin Pid \cup {0} /\ MaxSpawns \in Nat

\* What each function opens and closes comes out right, taken by itself.
ASSUME LedgerAssumption == Accounts!Kept

\* What is called is there to be hooked.
ASSUME CalledAssumption == Called \subseteq Hooks!Proc

\* Sizes and offsets are of an unsigned long, and what a WORD counts is far less.
ASSUME FilesAssumption ==
    /\ Ulong \in Nat \ {0}
    /\ \A f \in Files :
          /\ f.size \in 0..(Ulong - 1) /\ f.lfanew \in 0..(Ulong - 1) /\ f.optional \in Nat
          /\ f.sections \in Seq([va : Nat, vsize : Nat, raw : Nat])
          /\ PE!NtHeaders64 + Len(f.sections) * PE!SectionHeader < Ulong \div 2

\* The format asks of a linker that the table of names be sorted.
ASSUME TablesAssumption ==
    \A t \in ExportTables : t.names \in Seq(Seq(Nat)) /\ PE!Sorted(t.names)

\* GetOpenFileName ends what it writes with a NUL, or leaves the caller's last one.
ASSUME BuffersAssumption ==
    \A b \in Buffers : b \in Seq({0, 1}) /\ Len(b) > 0 /\ b[Len(b)] = 0

-------------------------------------------------------------------------------
\* What the part that runs does not use has one initial state.
Given(S, name) == IF part = name THEN S ELSE {CHOOSE x \in S : TRUE}

WindowsInit ==
    /\ part \in {"calls", "tree", "hooks", "file", "export", "path"}
    /\ build \in Given({"Win32", "x64"}, "file") /\ file \in Given(Files, "file")
    /\ table \in Given(ExportTables, "export") /\ wanted \in Given(Wanted, "export")
    /\ buffer \in Given(Buffers, "path")
    /\ Calls!Init /\ Tree!Init /\ Hooks!Init /\ PE!Init /\ OpenedPath!Init

WindowsNext ==
    \/ part = "calls" /\ Calls!Next
       /\ UNCHANGED <<part, treeVars, hookVars, fileVars, pathVars>>
    \/ part = "tree" /\ Tree!Next
       /\ UNCHANGED <<part, callVars, hookVars, fileVars, pathVars>>
    \/ part = "hooks" /\ Hooks!Next
       /\ UNCHANGED <<part, callVars, treeVars, fileVars, pathVars>>
    \/ part \in {"file", "export"} /\ PE!Next
       /\ UNCHANGED <<part, callVars, treeVars, hookVars, pathVars>>
    \/ part = "path" /\ OpenedPath!Next
       /\ UNCHANGED <<part, callVars, treeVars, hookVars, fileVars>>

WindowsSpec ==
    /\ WindowsInit /\ [][WindowsNext]_windowsVars
    /\ WF_treeVars(part = "tree" /\ Tree!Kill)

-------------------------------------------------------------------------------
\* What a function of the tools opens it closes, once.
OpenedAndClosedOnce == Calls!OpenedAndClosedOnce

\* Of the processes the snapshot leads to from nPid none is left, and no stranger ends.
KillsTheFamily == Tree!KillsTheFamily

\* KillAllDescendantProcess returns.
KillEnds == Tree!KillEnds

\* A call of the application reaches the function it calls, hooked or not.
CallsReachTheirOwn == Hooks!CallsReachTheirOwn

\* After unhook() every function is as it was, but for those that Detours refused to
\* detach and the few that unhook() does not know of.
UnhookRestores == Hooks!UnhookRestores

\* An exported name is found, with its own function.
ExportFound == PE!ExportFound

\* What IsPE and the classification read of the headers lies in the file, but for an
\* e_lfanew that is negative, and what they read of the section table ends after it by no
\* more than the last test of IsPE does not count.
AcceptedIsReadable == PE!AcceptedIsReadable

\* The path has each word of the buffer once, in order.
EveryNameOnce == OpenedPath!EveryNameOnce
===============================================================================
