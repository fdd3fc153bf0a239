------------------------------- MODULE ToolCalls -------------------------------
(***************************************************************************)
(* The functions of the other Windows tools that open things, as bodies for *)
(* ApiCalls: ApiTest/main.cpp, the hook tool (detours_hook_dll/hook_proc.cpp *)
(* and low_level_inject_exe/main.cpp), the dialogs, clipboard and drop      *)
(* handlers of detours_hook_dll/api_hook.cpp, low_level_inject.c, the PE    *)
(* export parser, the two copies of LoadFile, the minidump writer and the   *)
(* shared memory of myutils.                                                *)
(***************************************************************************)
EXTENDS CallSteps

\* Neither the snapshot nor any of the threads is closed.
MainThreadWalk ==
    Function(<<Gets("threadSnapshot"), Do, Jumps(Always(Do), {1, 3}),
               Else(Gets("hThread"), {-1}), Jumps(Always(Do), {-2})>>,
             {}, {}, {"threadSnapshot", "hThread"})

GetMainThreadIdOfApiTest == MainThreadWalk

AddRegKey == Function(<<OrElse(Gets("hKey"))>>, {}, {}, {"hKey"})

QueryValueW ==
    Function(<<Do, Do, Gets("m_lpVersionData"), Do, Do, Gets("tmpstr"), Do>>,
             {"m_lpVersionData", "tmpstr"}, {}, {})

QueryValue ==
    Function(<<Do, Do, Gets("m_lpVersionData"), Do, Do, Gets("tmpstr"), OrElse(Do)>>,
             {"m_lpVersionData", "tmpstr"}, {}, {})

GetFileDescription == Function(<<Runs("QueryValue")>>, {}, {}, {})

\* A path that does not fit is tried again in a longer buffer, a few times.
GetCurFileName ==
    Function(<<Gets("path_buffer"), Do, Else([Do EXCEPT !.undo = {"path_buffer"}], {-2, 0}), Do>>,
             {"path_buffer"}, {}, {})

GetWindowHandle == Function(<<OrElse(Gets("hProcess")), Do, Do>>, {}, {}, {"hProcess"})

-------------------------------------------------------------------------------
GetMainThreadId == MainThreadWalk

\* Five hooks are set, one is returned.
SetHook ==
    Function(<<Runs("GetMainThreadId"), OrElse(Gets("mouse")), OrElse(Gets("keyboard")),
               OrElse(Gets("getmessage")), OrElse(Gets("callwndproc")), OrElse(Gets("callwndprocret"))>>,
             {}, {"mouse"},
             {"threadSnapshot", "hThread", "keyboard", "getmessage", "callwndproc", "callwndprocret"})

\* A second hook of the same process is not put into the map.
HookProcess == Function(<<Runs("SetHook")>>, {}, {"mouse"}, SetHook.known)

\* The entry stays in the map, and its hook is taken off again on the way out.
UnhookProcess == Function(<<Do, Closes("mouse")>>, {}, {}, {})

HookTool ==
    Function(<<Jumps(Always(Do), {1, 2, 3}), Else(Jumps(Runs("HookProcess"), {-1}), {-1}),
               Else(Jumps(Runs("UnhookProcess"), {-2}), {-2}), OrElse(Runs("UnhookProcess"))>>,
             {}, {}, SetHook.known \cup {"mouse"})

SetWindowsHook2Inject ==
    Function(<<Gets("hDll"), Do, Gets("hhook"), Always(Do)>>, {}, {}, {"hDll", "hhook"})

-------------------------------------------------------------------------------
DetourTargetProc == Function(<<Do, Gets("hMod"), Do, OrElse(Do)>>, {"hMod"}, {}, {})

\* An object that is asked for its methods and released; COM stays initialised.
HookObject(object) ==
    Function(<<OrElse(Gets("apartment")), Gets(object), Always(Do), Closes(object)>>,
             {}, {}, {"apartment"})

hookIFileOpenDialog == HookObject("pFileOpenDialog")
hookIFileDialog == HookObject("pFileDialog")
hookIFileOperation == HookObject("pFileOperation")

\* The last item is released in the loop and once more at the end.
IFileOpenDialog_Show_Mine ==
    Function(<<Do, Gets("pShellItemArray"), Do, Jumps(Always(Do), {1, 5}),
               [Always(Do) EXCEPT !.clears = {"pShellItem"}], Else(Gets("pShellItem"), {-2}),
               OrElse(Do), Jumps(Closes("pShellItem"), {-4})>>,
             {"pShellItem", "pShellItemArray"}, {}, {"pShellItem"})

IFileDialog_Show_Mine ==
    Function(<<Do, Else(Jumps(Gets("pShellItem"), {3}), {1}), Gets("pFileOpenDialog"),
               Jumps(Gets("pShellItemArray"), {2}), OrElse(Do)>>,
             {}, {}, {"pShellItem", "pFileOpenDialog", "pShellItemArray"})

DoDragDrop_Mine == Function(<<OrElse(Gets("pEnumFTC")), Always(Do)>>, {}, {}, {"pEnumFTC"})
IDropTarget_DragEnter_Mine == Function(<<OrElse(Gets("stgMedium")), Always(Do)>>, {}, {}, {"stgMedium"})
IDropTarget_Drop_Mine == IDropTarget_DragEnter_Mine
OleGetClipboard_Mine == Function(<<Do, Gets("stgMedium")>>, {}, {}, {"stgMedium"})

-------------------------------------------------------------------------------
GetMessageBoxWAddr == Function(<<Gets("hUser32dll"), Do>>, {}, {}, {"hUser32dll"})

\* The data of the file is kept on success; the file is never closed.
Inject_Init_Template ==
    [Function(<<Do, Gets("hFile"), Do, Gets("binData"), Do, Do, Do, Do, Do, Do>>,
              {}, {"binData"}, {"hFile"}) EXCEPT !.abandon = {"binData"}]

Inject_CopyCode == Function(<<Gets("remoteAddr"), Do, Do>>, {}, {"remoteAddr"}, {"remoteAddr"})

\* "access" stands for memory whose protection is not what it was: it is put back
\* unless the write in between fails.
Inject_WriteJmpTable ==
    Function(<<Jumps(OrElse(Gets("jmp_table")), {1, 2}), Jumps(Do, {5}),
               Do, Gets("access"), Do, Closes("access")>>,
             {}, {}, {"jmp_table", "access"})

Inject_WriteJump ==
    Function(<<Jumps(Do, {1, 2}), Runs("Inject_WriteJmpTable"),
               Gets("access"), Do, Closes("access")>>,
             {}, {}, {"jmp_table", "access"})

Inject ==
    Function(<<Gets("pLowLevelData"), Do, Runs("Inject_CopyCode"), OrElse(Runs("GetMessageBoxWAddr")),
               Do, Runs("Inject_WriteJump")>>,
             {}, {}, {"pLowLevelData", "remoteAddr", "hUser32dll", "jmp_table", "access"})

-------------------------------------------------------------------------------
\* An ordinal out of range leaves without freeing; so does the end.
ParseExportTable32 == Function(<<Do, Do, Gets("funcNameFOA"), Do>>, {}, {}, {"funcNameFOA"})

\* CreateFileA's failure is INVALID_HANDLE_VALUE, which the tail takes for a handle.
LoadFile ==
    [Function(<<[Gets("hFile") EXCEPT !.junk = {"hFile"}], Gets("buffer"), Do>>,
              {"hFile"}, {"buffer"}, {"hFile"}) EXCEPT !.abandon = {"buffer"}]
LoadElfFile == LoadFile

WriteMiniDump == Function(<<Gets("hDll"), Do, Gets("hFile"), Always(Do)>>, {"hFile", "hDll"}, {}, {})

\* A constructor that gives everything back when it cannot have it all.
shared_memory ==
    [Function(<<Gets("fm_handle_"), Gets("fm_memory_")>>, {}, {"fm_handle_", "fm_memory_"}, {})
     EXCEPT !.abandon = {"fm_handle_", "fm_memory_"}]
shared_memory_dtor == Function(<<Drops("fm_memory_"), Drops("fm_handle_")>>, {}, {}, {})
SharedMemoryLife == Function(<<OrElse(Runs("shared_memory")), Runs("shared_memory_dtor")>>, {}, {}, {})

\* Neither the array nor the names nor the children are given back.  The call for each
\* child's own children is left out.
EnumIAccessible ==
    Function(<<OrElse(Gets("var_arr")), Jumps(Always(Do), {1, 4}), Else(Gets("pConChild"), {-1}),
               OrElse(Gets("ptext")), Jumps(Always(Do), {-3}), Always(Do)>>,
             {}, {}, {"var_arr", "pConChild", "ptext"})

EnumWindowsProc == Function(<<Always(Do)>>, {}, {}, {})
GetMainWndFromProcessID == Function(<<Always(Do), Jumps(Runs("EnumWindowsProc"), {-1, 1})>>, {}, {}, {})

\* The stream closes its file when it goes, whether or not it has been closed before.
WriteFileData == Function(<<Do, OrElse(Gets("ofs")), Do, Drops("ofs")>>, {"ofs"}, {}, {})

GetProcessName == Function(<<Do, Gets("hProcess")>>, {}, {}, {"hProcess"})

\* A resource need not be given back, and the rest are tests.
Inject_Init == Function([n \in 1..9 |-> Do], {}, {}, {})
Inject_BuildTramp == Function(<<Do>>, {}, {}, {})

UnHandleExceptionFilter == Function(<<OrElse(Runs("WriteMiniDump"))>>, {}, {}, {})

\* init and uninit of detours_hook_dll/dllmain.cpp
init == Function(<<OrElse(Gets("th"))>>, {}, {"th"}, {})
uninit == Function(<<Always(Do), Drops("th")>>, {}, {}, {})
DllMain == Function(<<Runs("init"), Runs("uninit")>>, {}, {}, {})

-------------------------------------------------------------------------------
\* A connection gets its stub only once its channel is connected.  The context of a
\* request goes before the request has ended.
client_connect_base == Function(<<Gets("channel"), Do, Gets("stub_")>>, {"channel"}, {"stub_"}, {})
client_connect_base_dtor == Function(<<Drops("stub_")>>, {}, {}, {})
client_connect_base_Request ==
    Function(<<Always(Gets("context")), Always(Gets("call"))>>, {"context"}, {}, {"call"})
ConnectLife ==
    Function(<<Runs("client_connect_base"), Always(Runs("client_connect_base_Request")),
               Runs("client_connect_base_dtor")>>, {}, {}, {"call"})

ToolCode ==
    [GetMainThreadIdOfApiTest |-> GetMainThreadIdOfApiTest, AddRegKey |-> AddRegKey,
     QueryValueW |-> QueryValueW, QueryValue |-> QueryValue,
     GetFileDescription |-> GetFileDescription, GetCurFileName |-> GetCurFileName,
     GetWindowHandle |-> GetWindowHandle,
     GetMainThreadId |-> GetMainThreadId, SetHook |-> SetHook, HookProcess |-> HookProcess,
     UnhookProcess |-> UnhookProcess, HookTool |-> HookTool,
     SetWindowsHook2Inject |-> SetWindowsHook2Inject,
     DetourTargetProc |-> DetourTargetProc, hookIFileOpenDialog |-> hookIFileOpenDialog,
     hookIFileDialog |-> hookIFileDialog, hookIFileOperation |-> hookIFileOperation,
     IFileOpenDialog_Show_Mine |-> IFileOpenDialog_Show_Mine,
     IFileDialog_Show_Mine |-> IFileDialog_Show_Mine, DoDragDrop_Mine |-> DoDragDrop_Mine,
     IDropTarget_DragEnter_Mine |-> IDropTarget_DragEnter_Mine,
     IDropTarget_Drop_Mine |-> IDropTarget_Drop_Mine, OleGetClipboard_Mine |-> OleGetClipboard_Mine,
     GetMessageBoxWAddr |-> GetMessageBoxWAddr, Inject_Init_Template |-> Inject_Init_Template,
     Inject_CopyCode |-> Inject_CopyCode, Inject_WriteJmpTable |-> Inject_WriteJmpTable,
     Inject_WriteJump |-> Inject_WriteJump, Inject |-> Inject,
     ParseExportTable32 |-> ParseExportTable32, LoadFile |-> LoadFile, LoadElfFile |-> LoadElfFile,
     WriteMiniDump |-> WriteMiniDump, shared_memory |-> shared_memory,
     shared_memory_dtor |-> shared_memory_dtor, SharedMemoryLife |-> SharedMemoryLife,
     EnumIAccessible |-> EnumIAccessible, EnumWindowsProc |-> EnumWindowsProc,
     GetMainWndFromProcessID |-> GetMainWndFromProcessID, WriteFileData |-> WriteFileData,
     GetProcessName |-> GetProcessName, Inject_Init |-> Inject_Init,
     Inject_BuildTramp |-> Inject_BuildTramp,
     UnHandleExceptionFilter |-> UnHandleExceptionFilter,
     init |-> init, uninit |-> uninit, DllMain |-> DllMain,
     client_connect_base |-> client_connect_base,
     client_connect_base_dtor |-> client_connect_base_dtor,
     client_connect_base_Request |-> client_connect_base_Request, ConnectLife |-> ConnectLife]

===============================================================================
