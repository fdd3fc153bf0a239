SPECIFICATION WindowsSpec
CONSTANTS
    Pid = {1, 2, 3}
    nPid = 1
    MaxSpawns = 3
    None = None
    MayFail = {"DragQueryFileW", "CoCreateInstance", "MoveFileW", "IFileOperation_CopyItems",
               "IFileDialog_Show", "IDropTarget_Drop"}
    MaxFailures = 1
    Called = {"RegisterDragDrop", "IDropTarget_Drop", "GetClipboardData", "CopyFileW"}
    Unheld = {"GetOpenFileNameW"}
    Realloc = TRUE
    Code <- AllCode
    Ledger <- LeastLedger
    Ulong = 4096
    Files <- SmallFiles
    ExportTables <- Tables
    Wanted <- Names
    Buffers <- SmallBuffers
INVARIANTS
    OpenedAndClosedOnce
    KillsTheFamily
    CallsReachTheirOwn
    UnhookRestores
    ExportFound
    AcceptedIsReadable
    EveryNameOnce
PROPERTIES
    KillEnds
\* Everything a part does has been done, or the process is gone.
CHECK_DEADLOCK FALSE
