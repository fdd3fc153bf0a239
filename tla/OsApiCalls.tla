------------------------------ MODULE OsApiCalls ------------------------------
(***************************************************************************)
(* The functions of ApiTest/OsApi_Win32.cpp that hold handles, tokens,      *)
(* buffers and contexts, as bodies for ApiCalls.  A test of an argument is  *)
(* a step that may fail; a loop is a step that may move back.               *)
(***************************************************************************)
EXTENDS CallSteps

\* The buffer is given back and doubled while it is too short.
GetProcessInfoEx ==
    Function(<<Do, Drops("pProcessInformation"), Gets("pProcessInformation"),
               Jumps(Do, {-2, 1}), Do>>,
             {"pProcessInformation"}, {}, {})

\* A snapshot and its first entry, and what comes before and after them.
Snapshot(before, after) ==
    Function(before \o <<Gets("hProcessSnap"), Do>> \o after, {"hProcessSnap"}, {}, {})

GetModulePathByAddr == Snapshot(<<Do>>, <<Do>>)
FindProcessByName == Snapshot(<<Do>>, <<Always(Do)>>)
GetAllProcessInSystem == Snapshot(<<>>, <<Always(Do)>>)
GetAllProcessInDir == Snapshot(<<>>, <<>>)
GetProcessPathUnicode == Function(<<Do, Gets("hProcess"), Do>>, {"hProcess"}, {}, {})

\* The snapshot is closed before the walk, which opens one process at a time; a
\* TerminateProcess that fails changes nothing.
KillAllDescendantProcess ==
    Function(<<Do, Gets("hProcessSnap"), Else([Do EXCEPT !.undo = {"hProcessSnap"}], {0}),
               Closes("hProcessSnap"), Jumps(Always(Do), {1, 3}),
               Else(Gets("hProcess"), {-1}), Jumps(Closes("hProcess"), {-2})>>,
             {}, {}, {})

AdjustPrivileges == Function(<<Do, Gets("hToken"), Do, Do>>, {"hToken"}, {}, {})
EnableDebugPriv == Function(<<Runs("AdjustPrivileges")>>, {}, {}, {})

SignerTail ==
    {"lpszSubjectName", "pSignerInfo", "pCurrContext", "hAuthCryptMsg", "hCertStoreHandle"}

\* Three things found by way of one another, each with a size asked for first.
GetFileSignerDispName ==
    Function(<<[Do EXCEPT !.gets = {"hCertStoreHandle", "hAuthCryptMsg"}], Do,
               Gets("pSignerInfo"), Do, Gets("pCurrContext"), Do,
               Gets("lpszSubjectName"), Do>>,
             SignerTail, {}, {})

\* The mutex that others hold already is closed again.
CreateUniqueInstance ==
    Function(<<Do, Gets("hMutex"), [Do EXCEPT !.undo = {"hMutex"}]>>, {}, {"hMutex"}, {})
ReleaseUniqueInstance == Function(<<Closes("hMutex")>>, {}, {}, {})
UniqueInstance ==
    Function(<<Runs("CreateUniqueInstance"), Runs("ReleaseUniqueInstance")>>, {}, {}, {})

\* The loop over the sessions frees each empty name, but not the one it looks for.
GetCurrentUserSessionId ==
    Function(<<Gets("pSessInfo"), Do, Else(Gets("pLogName"), {-1}),
               Else([Do EXCEPT !.undo = {"pLogName"}], {-2})>>,
             {"pSessInfo"}, {}, {"pLogName"})

-------------------------------------------------------------------------------
OpenProcessTokenEx ==
    Function(<<Gets("hProcess"), Gets("hProcessToken")>>, {"hProcess"}, {"hProcessToken"}, {})

GetProcessTokenHandle ==
    Function(<<Do, Gets("hProcessSnap"), Do, Do, Runs("OpenProcessTokenEx")>>,
             {"hProcessSnap"}, {"hProcessToken"}, {})

\* WTSQueryUserToken, or else the token of the session's Explorer.
GetTokenBySessionId ==
    Function(<<Else(Jumps(Gets("hProcessToken"), {2}), {1}), Runs("GetProcessTokenHandle")>>,
             {}, {"hProcessToken"}, {})

\* The linked token, or else a duplicate that gets the session and a privilege, and
\* is closed when that fails.  One error of SetTokenInformation is ignored.
GetUserToken ==
    [Function(<<Else(Jumps(Gets("hUserToken"), {5}), {1}),
                Gets("hUserToken"), Else(Do, {0, 1}), Do, Do>>,
              {}, {"hUserToken"}, {}) EXCEPT !.abandon = {"hUserToken"}]

\* The thread is left impersonating the user.
CreateProcessAsSessionId ==
    Function(<<Do, Runs("GetTokenBySessionId"), Runs("GetUserToken"),
               Gets("impersonation"), OrElse(Gets("pEnv")),
               [Do EXCEPT !.gets = {"pi.hProcess", "pi.hThread"}],
               Closes("pi.hProcess"), Closes("pi.hThread")>>,
             {"pEnv", "hUserToken", "hProcessToken"}, {}, {"impersonation"})

CreateProcessAsCurrentUser ==
    Function(<<Do, Do, Runs("GetCurrentUserSessionId"), Runs("CreateProcessAsSessionId")>>,
             {}, {}, {"impersonation", "pLogName"})

-------------------------------------------------------------------------------
\* An event whose CreateEventW fails makes the constructor throw.
NamedEvent == Function(<<Gets("_event")>>, {}, {"_event"}, {})
NamedEventDtor == Function(<<Drops("_event")>>, {}, {}, {})
\* Each operation is one call of the system on the event, and throws if that fails.
setImpl == Function(<<Do>>, {}, {}, {})
waitImpl == Function(<<Do>>, {}, {}, {})
set == Function(<<Runs("setImpl")>>, {}, {}, {})
tryWait == Function(<<Runs("waitImpl")>>, {}, {}, {})
NamedEventLife ==
    Function(<<Runs("NamedEvent"), OrElse(Runs("set")), OrElse(Runs("tryWait")),
               Runs("NamedEventDtor")>>, {}, {}, {})

-------------------------------------------------------------------------------
(* Functions that hold nothing                                                *)

GetCurProcessPathUnicode == Function(<<Do>>, {}, {}, {})
GetCurModulePathUnicode == Function(<<Runs("GetModulePathByAddr")>>, {}, {}, {})
SetNamedObjectSecurity == Function(<<Do, Do>>, {}, {}, {})
GetAllDiskDriveName == Function(<<Always(Do), Do>>, {}, {}, {})

-------------------------------------------------------------------------------
(* OsApi_Linux.cpp: one function closes the file it has opened, one asks the  *)
(* system, and the others do nothing or fail at once.                         *)

Stub == [Do EXCEPT !.next = {0}]

NamedEventOfLinux == Function(<<Always(Do)>>, {}, {}, {})
GetAllProcessInSystemOfLinux == Function(<<Always(Do)>>, {}, {}, {})
GetProcessPathUnicodeOfLinux == Function(<<Do>>, {}, {}, {})
GetModulePathByAddrOfLinux == Function(<<Gets("ifs"), Always(Do)>>, {"ifs"}, {}, {})
CreateProcessAsCurrentUserOfLinux == Function(<<Stub>>, {}, {}, {})

LinuxCode ==
    [NamedEventOfLinux |-> NamedEventOfLinux,
     GetAllProcessInSystemOfLinux |-> GetAllProcessInSystemOfLinux,
     GetProcessPathUnicodeOfLinux |-> GetProcessPathUnicodeOfLinux,
     GetModulePathByAddrOfLinux |-> GetModulePathByAddrOfLinux,
     CreateProcessAsCurrentUserOfLinux |-> CreateProcessAsCurrentUserOfLinux]

OsApiCode ==
    [GetProcessInfoEx |-> GetProcessInfoEx, GetModulePathByAddr |-> GetModulePathByAddr,
     FindProcessByName |-> FindProcessByName, GetAllProcessInSystem |-> GetAllProcessInSystem,
     GetProcessPathUnicode |-> GetProcessPathUnicode,
     KillAllDescendantProcess |-> KillAllDescendantProcess,
     AdjustPrivileges |-> AdjustPrivileges, EnableDebugPriv |-> EnableDebugPriv,
     GetFileSignerDispName |-> GetFileSignerDispName, CreateUniqueInstance |-> CreateUniqueInstance,
     ReleaseUniqueInstance |-> ReleaseUniqueInstance, UniqueInstance |-> UniqueInstance,
     GetAllProcessInDir |-> GetAllProcessInDir,
     GetCurrentUserSessionId |-> GetCurrentUserSessionId, OpenProcessTokenEx |-> OpenProcessTokenEx,
     GetProcessTokenHandle |-> GetProcessTokenHandle, GetTokenBySessionId |-> GetTokenBySessionId,
     GetUserToken |-> GetUserToken, CreateProcessAsSessionId |-> CreateProcessAsSessionId,
     CreateProcessAsCurrentUser |-> CreateProcessAsCurrentUser,
     NamedEvent |-> NamedEvent, NamedEventDtor |-> NamedEventDtor, setImpl |-> setImpl,
     waitImpl |-> waitImpl, set |-> set, tryWait |-> tryWait, NamedEventLife |-> NamedEventLife,
     GetCurProcessPathUnicode |-> GetCurProcessPathUnicode,
     GetCurModulePathUnicode |-> GetCurModulePathUnicode,
     SetNamedObjectSecurity |-> SetNamedObjectSecurity, GetAllDiskDriveName |-> GetAllDiskDriveName]

===============================================================================
