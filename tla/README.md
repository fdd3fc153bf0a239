# Specifications of cORcpp

The repository collects components for Windows and Linux in C and C++: two thread
pools, a signal, a gRPC client and server, an asynchronous gRPC server, a Windows
service, a kernel driver with a hash map, and a number of tools for Windows. This
directory holds TLA+ models of those that run concurrently, keep a state worth
reasoning about, or open what they must close, TLC configurations that check them on small
instances, and proofs that TLAPS
checks for every value of the constants.

Every definition follows the source; `PROJECT.json` gives the lines for each.

## 1. Inventory

| component | state | operations | what is hard |
|---|---|---|---|
| `std::threadpool` (Common/ThreadPool.hpp) | `_pool`, `_tasks`, `_run`, `_idlThrNum`, a lock and a condition variable | constructor/`addThread`, `commit`, the worker loop, destructor | tasks commit tasks, also while the destructor waits; `_run` is written without the lock; the counter is updated from two sides |
| `ez::thread_pool`, `ez::queue` (myutils/include/ez) | bounded queue, `exit_`, threads | constructor, `post_work_task`, polling worker loop, `shutdown`, destructor | a full queue drops the task and only its future tells; shutdown does not drain |
| `ez::signal` | `sg_`, `re_`, mutex and condition variable | `wait`, `wait_for`, `notify_one`, `notify_all`, `reset` | flags and `cv_` change at different times; `wait_for` may return a value it never set |
| ez_grpc client stream | `queue_`, `signal_`, `exit_`, `request_`, writer thread | `request`, `write_loop`, `disconnect`, `OnWriteDone` | gRPC's threads call back; a callback joins the thread it wakes; the message is read through a pointer |
| ez_grpc server | `connections_`, `status_` of each reactor, clean thread | `add_connect`, `OnReadDone`, `OnDone`, `clean`, `stop_clean`, `~server` | who deletes a reactor and when; shutdown waits for all; `status_` is not initialised |
| KBobMap (Common/KBobMap.c) | lists of nodes, count | init, add, find, delete, clear, enumerate, uninit | a search looks in one list only; no lock |
| ServiceProgramTask | shared `gCoderSvcCtx`, two events, four threads | ServiceMain, control handler, worker, task | no lock on the status; the order of what the SCM is told; a manual-reset event with two waiters |
| KernelDemo driver | `gProcessIdMap`, one log slot, an event | process-creation routine, IOCTLs, load and unload | a wait that times out against a late answer; stale node addresses; map calls without a lock |
| grpcImp server and client (Socket/grpcImp) | handlers, completion queues, streams | `Proceed`, `run`, the queue loops; the blocking, streaming and asynchronous functions of the clients | completion tags are object addresses; handlers delete themselves; client and server take turns |
| pocoImp WorkThread | exit flag and event, thread | `InitThread`, `UnInitThread`, `SetExit`, `CheckExit`, destructor | a request is two stores; the event is auto-reset and the first who waits takes it |
| ez message queue | mailslot, `exit_`, thread | constructor, `push_msg_2_this`, `work_loop`, destructor | nothing wakes the reader for the destructor |
| ApiTest OsApi | handles, tokens, buffers; processes | some sixty functions over the system's; `KillAllDescendantProcess` | what is left open on which error path; a snapshot that ages while it is walked |
| API hooks (detours_hook_dll) | entry of each hooked function, `X_Origin` slots, `apis` | `hook`, `unhook`, each `X_Mine`, `GetOpenedFilePath` | functions are called while they are attached and detached; attaching and detaching fail one by one; the application attaches and lengthens `apis` at the same time |
| PEParse | a mapped file | `IsPE`, classification, address mapping, export search | sizes on either side of a bound; sums of `unsigned long` that wrap; a prefix comparison |
| injection and hook tools, shared memory, minidump, ELF loader | what they open | one function each | error paths |
| the rest (logging, rwlock and containers, subscriber, demos, vendored and generated code) | | | listed in `PROJECT.json`, each with its reason |

How they interact. The gRPC client queues packages in `ez::queue` and pairs each
write with its completion through `ez::signal`; the gRPC server's clean thread waits
on an `ez::signal` as well; `ez::thread_pool` uses `ez::queue`. The driver keeps its
processes in a KBobMap, and a service answers for them by IOCTLs. The hooks run on the
application's threads while another thread attaches and detaches them. gRPC, the
condition variables, the service control manager (SCM) and the kernel call back on
threads of their own. The two thread pools and the Windows service stand alone.

What makes each correct, in a sentence:

- a pool runs each task it accepted once, before it is gone, or breaks its future,
  and its destructor returns;
- a signal lets one wait through for a `notify_one`, all for a `notify_all`, and
  loses no wake-up;
- the write stream writes what it accepted, in order, one at a time, and holds
  nothing when it is gone;
- the server deletes a reactor after its last callback and no sooner, and shuts down;
- the map behaves as a finite dictionary;
- an asynchronous server always listens, finds each event's handler alive and in the
  state that awaits it, and answers every call whose client stays;
- a client's conversation goes on as long as its stream, its functions return when it
  ends, and no call object is left;
- the service tells the SCM the truth, in order, and stops when told to;
- the driver holds a process up for a bounded time, keeps an entry for just the
  creations under way, and lets a process go on its own answer;
- a thread that was asked to leave leaves, a reader that is destroyed ends;
- a function closes what it opened, once, or hands it over;
- the family of a process is killed and nobody else;
- a hooked function still does what it did, and is as it was after `unhook` if Detours
  lets go of it and the list has it;
- the headers of a file are read where they are in it, an exported name is found.

`PROJECT.json` lists under `hazards` what in this code a test would hardly reach, at
the line where it bites, with the properties that watch it.

## 2. Modules

    TaskPool            what a pool promises the holders of futures (abstract)
      StdThreadPool       Common/ThreadPool.hpp, MayDrop = FALSE
        StdThreadPoolProofs
      EzThreadPool        ez/thread_pool.hpp,    MayDrop = TRUE
        EzThreadPoolProofs
    EzQueue             ez/queue.hpp, used by EzThreadPool and WriteStream
    SignalFlag          the flags of ez/signal.hpp, used by the next three
      EzSignal            ez/signal.hpp with its condition variable and callers
      WriteStream         ez_grpc/grpc_client (with EzQueue)
        WriteStreamProofs
      ConnectService      ez_grpc/grpc_server
        ConnectServiceProofs
    Dictionary          what the map promises (abstract)
      BobMap              Common/KBobMap.c
    ProcessNotify       KernelDemo, which keeps its processes in such a map
    Kernel              BobMap and ProcessNotify side by side
      KernelProofs
    AsyncServer         Socket/grpcImp, the handlers and their queues
      AsyncServerProofs
    GrpcClients         Socket/grpcImp, the clients
    ServiceProgram      ServiceProgramTask/main.cpp
      ServiceProgramProofs
    WorkThread          Socket/pocoImp/src/WorkThread.cpp
    MsgQueue            myutils/ez_msg_queue
    CallSteps           how a function that opens and closes things is written down
      OsApiCalls          ApiTest/OsApi_Win32.cpp, OsApi_Linux.cpp
      ToolCalls           the same for the other tools
    Windows             the tools side by side
      ApiCalls            runs such functions, every call free to fail
      CallLedger          an account of them that needs no stack, for the proof
      ProcessTree         KillAllDescendantProcess of OsApi
      ApiHook             hook() and unhook() of detours_hook_dll/api_hook.cpp
      OpenedFilePath      GetOpenedFilePath of the same file
      PEFile              PEParse
    UtilityProofs       about EzSignal and Windows

Each `MC` module gives the constants of its module for TLC. Four of them are
benches for several modules that share nothing: a variable `part`, fixed by `Init`,
says which of them a behaviour runs, the others keep one initial state, and the
fairness of each module is restated for its part. They are `MCKernel` (the module
`Kernel`: BobMap, ProcessNotify), `MCEzUtilities` (EzSignal, WorkThread, MsgQueue), `MCAsyncServer`
(AsyncServer, GrpcClients) and `MCWindows` (the module `Windows`: ApiCalls, ProcessTree, ApiHook,
PEFile, OpenedFilePath). `MCWindows` puts the functions of OsApiCalls and ToolCalls together,
and has TLC compute the ledger of them. All modules use one convention: an action is
one atomic step of one thread, which is a critical section
or the code between two accesses to shared state; a variable `pc`, `writer`, `main`
or the like tells where a thread is; history variables are marked as such.

**StdThreadPool.** `owner` is the thread that constructs and destroys the pool,
`pc` the loop of each worker, `call`/`arg` each call of `commit`. `_lock` is held
from one state to the next only between the test of the wait predicate and the block
(`pc = "block"`), which is where the destructor's unlocked write of `_run` can slip
in; every other critical section is one action. `commit` is three actions: the
unlocked test of `_run`, the push, and the `notify_one` after the lock is released.
`THREADPOOL_AUTO_GROW` is not defined in the source and not modelled.

**EzThreadPool.** Polling workers: `PopItem`, `Sleep`, `RunTask`, `CheckExit`; the
loop tests `exit_` after each item, not before it. A `packaged_task` that dies
breaks its future.

**EzSignal.** A wait tests `sg_` and blocks in one step, for it holds `mu_`;
notifications set the flags and then call `cv_`, in two steps. The value that
`wait_for` returns when the signal was set already is arbitrary, since
`no_timeout` has not been assigned: whether the signal is consumed is a choice.

**WriteStream.** `WriterPops` starts a write, `OnWriteDone*` are gRPC's callbacks.
gRPC is external: a write completes, with or without success; all fail once the
stream is broken. A callback that joins the writer keeps its thread, so `Callback`
has one thread for each package; a gRPC with fewer threads than callbacks blocked in
`join` is outside the model. `wire` and `accepted` are what was written and accepted.

**ConnectService.** A stream is `none`, in the `handler`, `open`, `finishing`
(Finish was called), `unfinished` (closed by the client and never finished) or
`done` (OnDone has been called). `Uninitialised` is what `status_` may hold when a
reactor is constructed: the code assigns it only when the stream ends.
`SweepCrashes` stands for the iterator that is used after it was erased; `UseFreed`
for a callback on a deleted reactor.

**AsyncServer.** One completion queue with its handlers; which of the three kinds of
handler it serves is chosen in `Init`. `GrpcServer` has two queues, of unary calls and
of streams; they share no state but the service object, and each is a behaviour of
the model. `Proceed` is cut at each access to `status_` and each call of gRPC, for
`CallData` may be polled by several threads (server_async.cpp:72), and an operation
may complete before the call that started it returns. Addresses are not used twice, so
that a tag of a deleted handler would be noticed. gRPC is external: it matches a call
with a listener, completes a `Read` when there is a message, and completes with
`ok = FALSE` when the call is dead. Queues are never shut down: the loops of the
source do not end.

**BobMap.** One operation is one step, as the header asks of the callers. A list is
the set of its nodes: only the enumeration visits them in an order, and no caller
may rely on it. Hash, key comparison and real keys are constants, so every hash
that agrees with the comparison is covered. A key whose real key cannot be had is
refused before it is compared; `KeyAssumption` keeps its name apart from the names of
others, lest the refusal read as an answer about one of them.

**ServiceProgram.** `ReportSvcStatus` is three steps (state, check point,
`SetServiceStatus`) because two threads call it on the same record. `valid` is the
set of events that `CreateEvent` did create. The SCM is external: it sends STOP or
SHUTDOWN to a running service only, as the documentation of `ControlService` says.

**GrpcClients.** One method of a client against the server that answers it. A function
that blocks in `Read` or `Write` is a place; `up` and `down` count the messages under
way. `Lose` is a connection that breaks, at any moment. The two `GreeterClient` classes
are two more methods, `SayHello` and `AsyncSayHello`; the loop of the second aborts on an
event that is not ok, where that of `ClientImpl` deletes the object. `PersistentConnect`'s destructor
waits for no one, and the model does not follow a thread that is still in `Read` then.

**ProcessNotify.** A creation goes through `Process_NotifyProcessEx`: an entry is added,
waited for, deleted. `AddNode2BobMap` and `DeleteNodeFromBobMap` are two steps each here, for no lock
is taken: if two of them overlap, `damaged` says that the list is undefined from then
on. An answer is two steps, the lookup of an address and the write through it;
`mem` is memory that a lookaside list hands out again. `proInfo` records who set the
status that a creation reads. Reading the log with any length ends in `"crashed"`
(`GetLog` copies from an id).

**WorkThread, MsgQueue.** `SetExit` is two steps, `CheckExit` up to three, with
Poco's event auto-reset. The mailslot is a queue of messages that fit or do not; a
read times out when it is empty.

**CallSteps, OsApiCalls, ToolCalls, ApiCalls.** A function is a sequence of steps, each a
call of the system that opens, closes or only may fail, with where it goes then, and a tail
that closes what its variables hold. `ApiCalls` is the machine that runs them:
`Succeed`, `Fail`, `Enter` and `Return`; `open` is what is open, `set` the variables that are
not NULL, `lost` what was opened over, `twice` what was closed without its being open. What
a function is known to leave open, or to close twice, is in its `known`: these are the
leaks of the code, and the property holds up to them.

**CallLedger** models nothing of its own. For each function, each step and each variable
that the function or one it calls mentions, the constant `Ledger` has lines: what the
variable was (open, set, lost, twice) when the function was called, next to what it may be
when the step is reached. `Kept` says that the lines are complete, one step or one call at a time,
and that those of a call that began with nothing open end well. It looks at one function and one
variable at a time, with no stack; `UtilityProofs` shows that this is enough.

**ProcessTree.** The system's processes start, end and take over ids while the walk goes
by its snapshot. `reborn` says that an id was given twice: then the walk may kill a
stranger or go round for ever, and the properties say nothing.

**ApiHook.** `code` is what the entry of each function runs and `slot` each `X_Origin`,
which leads to a function's entry, past it, or nowhere. One thread runs `hook()` and
`unhook()`, once; one thread of the application calls hooked functions, a step for
each call through a slot. The first `RegisterDragDrop` of the application attaches two methods
of its own and puts them in `apis` (571-582), with no lock. So each `DetourTargetProc` and
`UnDetourTargetProc` is two steps: up to `DetourTransactionBegin` (`HookNext`,
`FindDropTarget`, `UnhookNext`), and from `DetourAttach` or `DetourDetach` to the commit
(`DetourTargetProc`, `HookDropTarget`, `UnDetourTargetProc`); and so is each `push_back` that may meet
another (`StartPush`, `EndPush`). `pending` is whose transaction Detours has. The code ignores the
result of `DetourTransactionBegin`: a thread that finds another's goes on with no transaction, and
what it attaches or detaches fails (`Attach`, `Detach`), which is logged and nothing more.
A function in `MayFail` may be refused without that too. Of two `push_back` that overlap the
list keeps both, one or neither, or is broken. `kept` is history: what was attached
when its detach was refused, or was lost from the list. `died` names the slot that
was NULL when it was called, or the list that was broken, or moved under a loop. Detours is external. What
the hooks decide about files is not modelled.

**PEFile.** A file is what the code looks at, wherever that lies; `build` is Win32 or x64, which both
are in PEParse.vcxproj. Sums are modelled by their type: `offset + sizeof(IMAGE_NT_HEADERS32)`
(PEFileParse.h:44) is of a `size_t` and wraps in Win32 alone (`HeadersFit`), the one at 68 goes
into an `unsigned long` and wraps in both (`SectionsFit`), and so does the end of a section
(`Within`). `Place` is where IsPE has the headers then, `PlaceSigned` where the others have
them, for whom `e_lfanew` is a signed LONG. `reads` has the bytes that IsPE and the classification read of
the headers and of the section table, which `IsDriver32` walks for the address of the imports and for each
library's name (`LooksUp`), each section up to the first that holds the address. It compares a name
that no section holds all the same (`Crashes`).

**OpenedFilePath.** An algorithm, as a state machine over every buffer of bounded length.

## 3. Runs

| run | question | instance | states |
|---|---|---|---|
| `std_pool` | does the pool implement `TaskPool`, does a queued task run, when can join hang | 2 of 3 threads, 1 client, 3 tasks that commit each other, 1 spurious wake-up | 32725 |
| `std_pool_dtor` | does the destructor return? It does not (section 6) | 2 threads, 2 tasks | |
| `ez_pool` | does the pool implement `TaskPool`, do queued tasks run, does the destructor return | 2 workers or an invalid 0, 4 tasks, queue of 2 | 29816 |
| `signal` | one wait per `notify_one`, all for `notify_all`, no lost wake-up; does a `WorkThread` end that was asked to; does the reader of a `MsgQueue` end | 2 waiters, 1 timed, 2 notifiers, 4 calls; 2 others who set and check; 3 messages | 26817 |
| `write_stream` | order of writes, nothing outstanding at the end, does disconnect return, also after a failed write | 2 requesters, 3 packages, queue of 2, 3 callbacks | 61446 |
| `service` | when are reactors deleted, does Shutdown return, does the clean thread end | 3 streams, harmless initial `status_` | 11562 |
| `service_unset` | the same with an arbitrary `status_`: Shutdown may hang (section 6) | 2 streams | |
| `bobmap` | is the map a dictionary; does a creation end, do entries match creations, who answers for whom | 2 lists, 5 keys (2 equal, 1 refused), 2 data; 2 processes, 1 caller, 2 entries, 2 waits for 11 | 245848 |
| `bobmap_enum` | does an enumeration stop when asked to? It does not (section 6) | the map alone | |
| `async_server` | does an event find its handler alive and in the right state, is there always a listener, is every call answered and its handler freed; does a conversation go on, do the clients' functions return | each kind of handler, each method of a client; 2 calls, streams of 2 messages, 2 threads for `CallData` | 34431 |
| `service_program` | is the status record written by one thread at a time, what does the SCM see, is a stop answered | 4 threads, 3 spare reports | 1860 |
| `windows` | is everything closed once or handed over; who is killed, does the walk end; do calls reach their function while hooks come and go, does `unhook` restore; is an export found, are accepted headers in the file; is each chosen name listed once | every function of `OsApiCalls` and `ToolCalls`; 3 ids, 3 starts; 15 hooks and 4 methods, of which 6 may fail, once, 4 of them called; 2 builds, 7 sizes and 4 `e_lfanew` of 4096, 3 tables of sections, sorted tables of at most 3 names; buffers of 9 | 805059 |

The bounds, and why they are enough. Races in the pools need two workers at the
queue, a caller, and a task that commits another; three tasks let a queue be empty,
hold one, and hold two while a worker is busy. A queue of two with more tasks than
that is full in reachable states. Three streams let one be deleted, one be finishing
and one be opened during the same sweep; three packages let one be in flight, one
queued and one refused or accepted late. Four calls on the signal allow each order
of two notifications and a reset with one more notification to follow. Two lists
with a collision and a shared name are the least in which looking in a wrong list
and adding an equal node can be told apart. Two calls, the second of which
may come while the first is served, show a listener that is missing or one too many.
`MaxCheckPoint` leaves three reports of a
state that is pending beyond those the service always makes. Two processes and two
entries let the entry of one become the other's between an answer's lookup and its
write; `LastRetry = 1` keeps two waits, so that an answer may come in either or late.
Three ids and three starts make a chain of two generations below `nPid`, an orphan, and an
id that is used again. Of the hooks that may fail two are those through whose slots others
call without looking (`DragQueryFileW`, `CoCreateInstance`), one has another's slot
(`MoveFileW`), one is not in the list (`IFileOperation_CopyItems`), and two are put in it later. Each
failure, of a function or of a transaction that finds another's, is one of `MaxFailures`, which is 1:
one is enough for a function that stays hooked, and the theorems below have no bound. `Called`
has the function that registers, one of the two it registers, one that calls through another's slot, and one of
the two that share a slot. `Ulong` is 4096 instead of 2^32: all that the code compares is either
small, as 248 and 264 are, or near half or all of `Ulong`, and `FilesAssumption` asks only
that half of it be more than any section table. The sizes and `e_lfanew` lie on each side of each
bound; 3848 is the first for which 248 more wraps. Nine characters hold a
directory and three names, closely enough for each to end at the buffer's end. The functions
of `ApiCalls`
need no bound: their loops go round over the same sets.

`MaxSpurious`, `MaxCalls`, `MaxMessages`, `MaxCheckPoint`, `MaxPushes`, `MaxSpawns` and `MaxFailures` bound
counters that the code does not;
`Task`, `Package` and `Connection` are finite sets each of which is used once.

Deadlock is checked for `bobmap_enum`, where the map never stops; the others come to an
end (a pool destroyed, a process over, a driver unloaded) and say so in their configuration.

### Fairness

Every thread of the code runs when it can: weak fairness of each worker, caller,
owner, callback and service thread. A mutex that is held for one step is fair
enough with that. Two choices are particular. `ConnectService` assumes strong
fairness of the handler's `add_connect`, which contends with a clean thread that
takes `connections_mutex_` again and again: with a weakly fair mutex the handler could
be kept out for ever. `EzSignal` assumes nothing of the callers: nobody has to wait
or to notify; only a thread in the middle of a call goes on. No fairness is assumed
of clients, of a stream breaking, of spurious wake-ups, of timeouts in general, or of
anybody stopping a service. gRPC is assumed to complete each write and to call
`OnDone` after `Finish`. A creation of `ProcessNotify` goes on, its service need not; the
thread of a `WorkThread` keeps calling `CheckExit`, as any `run()` that can be asked to
leave must (the repository has none), and nobody else has to do anything;
the reader of a mailslot goes on, with its read's timeout, which the source sets. A
client's blocking function that can go on does, and so do its server and gRPC; nobody has to
break a connection. `KillEnds` needs only that the walk goes on.

Properties that end in `\/ crashed` or `\/ damaged` are stated up to undefined behaviour that the
model knows of and other properties or the hazards name: joining the thread twice in
`WriteStream`, the iterator of the sweep in `ConnectService`, the unlocked list in
`ProcessNotify`.

## 4. Proofs

`StdThreadPoolProofs` assumes `NonEmptyPool` (at least one thread) and, from
`StdThreadPool`, a finite set of workers no smaller than the pool.

- `Invariance`: `IInv` is inductive. `TypeOK` is not enough: that a task in the queue
  is run needs someone to come back for it (`Attended`), which needs that threads
  leave only when `_run` is cleared and the queue is empty (`Stopping`), which for the
  branch that releases surplus threads needs that `_pool` never exceeds `_initSize`
  (`Started`, by counting). `Calls`, `Queue` and `Running` say who owns each task; that
  is what makes "once" true.
- `TypeCorrect`, `NeverEarly` and `DestructorDrains` follow from `IInv`.
- `IdleExact`: `idle + |Busy| + (1 if a thread is started and not counted) = |_pool|`,
  with `IInv`, by the cardinality of `Busy` before and after each step.
- `PoolKeepsPromise`: every step of `StdThreadPool` is a step of `TaskPool` or none,
  under the mapping of `status` to futures.

`EzThreadPoolProofs` proves, for any workers, tasks and sizes: `TypeCorrect`;
`QueueIsExact` (queue and pending futures are the same, each once, bounded);
`OneLateStart`, an action property, from the invariant's `Late`; `PoolKeepsPromise`.

`ServiceProgramProofs`, for any `MaxCheckPoint`. `IInv` ties the threads together:
`ReportInv` says that a report under way owns `m_svcStatus` and that `m_dwCheckPoint`
is ahead of all that was sent, `ScmInv` what the SCM knows at each place of
`ServiceMain`, `HandlerInv` that the control handler runs only while `ServiceMain`
waits for the event that it will set, `WorkerInv` who waits for whom. All but the last
hold only if the stop event could be created, and are stated so. From it:
`TypeCorrect`, `OneReportAtATime`, `StoppedIsDone`, and `StatusInOrder`, which is about
steps.

`KernelProofs` has two parts. About `BobMap`, for any keys, hashes and number of lists.
`IInv` is the types,
`TableExact` and `KeysReal` (no node has a key that has no real key). `FoundIsAll` says that a
search of one list finds what a search of all would, `FoundIsOne` that it is one node at
most. From these `TableIsExact`, `EnumSeesAll`, and `MapKeepsPromise`: each
step of the map is the step of `Dictionary` that its answer names, or none. The proof
is where the second half of `KeyAssumption` was found to be needed.

About `ProcessNotify`, for any processes, callers, entries and waits: `DriverInv` is the
types and, as long as `damaged` is false, five facts. `Alone` says that one update is
under way at most; `Owned` that what a creation links is off the list and its own, and
what it unlinks is on it; `Addresses` that an address looked up for a process stays the
address of its entry until that process is let go; `Writers` that who wrote into the
entry of another was let go before; and `EntriesMatch` itself. The properties alone are not
inductive: that a stray answer came late follows from `Addresses` at the write, and is carried to
the read of the entry by `Writers`. `OneEntryEach` and `OwnAnswer` assume
`NamesApart`: `None` and `Garbage` are no processes.

`ConnectServiceProofs`, for any streams. Everything is under `HonestStart`: `status_`
cannot begin as `done`. The constructor does not see to it, and `service_unset` shows
what happens without it. `Reactors` then says that `done` is the truth about a stream, and
`Streams` that none is left once Shutdown has returned: `DeletedAreDone` and
`NothingIsLeft`.

`WriteStreamProofs`, for any packages, callers and queue. `Writer` says that a writer that waits
has one completion to come, outstanding or signalled; `Order` that what was accepted is
what was written, the package in flight, and the queue, in this order; `Ending` who has
joined. `InOrder` and `NothingIsLeft` follow. The lemmas about sequences (`AppendToConcat`,
`SameBeginning`) rest on the library's `SequenceTheorems`.

`UtilityProofs` has a part for each of the small modules, and one for their composition.

*EzSignal*, for any threads and number of calls: `OneForOne` is inductive with
the types and `sent <= calls`, which keeps the counts within their bound.

*ApiCalls* (`AllIsClosed`), for any functions whose ledger is kept (`LedgerAssumption`). The
invariant to begin with says nothing of what is open while a function runs, let alone of what its
callers have opened. `CallsInv` says it with the ledger: `Frames` (each call on the stack is at the
step that made it) and, for each variable, `OnLine`: there are marks from the outermost call
inwards, the first of them clear and the last that of the variable now, such that each
call on the stack is on a line that leads from one to the next. `LinesCarried` and `LinesOfCall` show
that a step, a call and a return stay on lines, and `LinesSettled` that a line that
began clear ends well. Variables can be taken one at a time since no step's effect on one
depends on another. The assumption is not taken on trust: it speaks of constants, and TLC
evaluates it in `windows` for the least ledger of all the functions, which `MCWindows`
computes. It replaces an exploration of stacks by a check of each step, and by itself it proves nothing
about a stack; the theorem does. A bug in a function's own steps breaks the assumption, one
in how functions are run breaks the invariant.

*ProcessTree* (`TreeTypes`, `FamilyOnly`), for any ids and any number of processes.
The property speaks of who has been killed, while what matters is the
snapshot, which is older than the system it is used on. `Births` relates parents, the
family and the ids ever used; `Lineage` says that some set of ids in the snapshot has all the
children of `nPid` and of its own members (`Kin`) and that those of it who are alive are of the family,
so that nobody reached through the snapshot is a stranger; `Doom` that of those
that must die each has its parent in the snapshot among them, and is listed still,
looked at, dead or spared. For this the model states `Unbroken` as the least set closed under children
and not as chains: the proof of `SnapshotStep` needs no induction over chains then.

*ApiHook* (`HookTypes`, `CallsArrive`, `UnhookedIsAsBefore`), whichever attaches
and detaches fail, and however often.
`Fresh` says what has not been attached yet, and `Started` that this runs itself; `ListBegins`
where the loops are in the list, which a registration may make longer meanwhile; `OwnCode` and `OwnSlot`
that an entry runs itself or its own X_Mine, and that the slot of an X_Mine that can run leads to
its function; `CallsOn` what the call under way has still to do; `Deaths` that
only the slots nobody looks at are called while NULL; `Turns` that a transaction that is pending is that of
a thread which is in one, and that as long as nobody has registered a drop target `hook()` and
`unhook()` have Detours and the list to themselves, so that only what is in `MayFail` is kept;
`Detachable` that what is attached and not `kept` is in the list at a place `unhook` has yet to come to
(`Arrived`) or in a `push_back` (`Arriving`), with a slot that says so. What the property says of the end
alone, `Detachable` says of each step: a failed detach adds to `kept` just what it leaves behind. `OwnCode`, `OwnSlot`, `CallsOn`,
`Deaths` and `Detachable` except `CopyFileW` and `MoveFileW`, which share a slot (section 6): the
exception is the code's, and the invariant fails without it.

*PEFile* (`ExportsAreFound`, `HeadersAreThere`), for any files and tables.
`HeadersInFile`: if `e_lfanew` is not negative, or the build is x64 and the file of no more than
half of `Ulong`, nothing wraps where the headers fit, and `Place` and `PlaceSigned` are both
`e_lfanew`; `HeadersLie` and `SectionsLie` follow field by field, and `SectionsInFile` says that the table
ends after the file by no more than `Uncounted`. Otherwise it is false, and the property says so.
FindDllExport compares a prefix and takes the first name that agrees. `LongerSortsAfter` says that
a name sorts before those it begins, so in a table that is sorted (`TablesAssumption`; the
format asks it of linkers) the first is the right one. In one that is not, the theorem fails:
this is what the assumption is for.

*OpenedFilePath* (`AllNamesRead`), for any buffer that ends with a NUL (`BuffersAssumption`). `Within`:
no list has ended before the index, and nothing was read beyond the buffer; `InOrder`: the
words taken lie one after the other up to the index; `Complete`: they have all
letters up to there and no NUL.

*Windows* (`ToolsSideBySide`): a step of the composition is a step of each part or leaves it
alone, and all seven invariants hold side by side. Its assumptions are named in `Windows`:
`PidAssumption` (0 is the idle process), `LedgerAssumption`, `CalledAssumption`, `FilesAssumption` (sizes
and `e_lfanew` are of an `unsigned long`, `LoadFile` having no other, and a WORD's worth of sections is small),
`TablesAssumption`, `BuffersAssumption`. TLC evaluates each of them for the run's constants.

`AsyncServerProofs`, for any threads, calls and messages. `IInv` has seven parts
besides the types: a handler is served by one thread at a time (`Apart`); `status_` at each
place of `Proceed` (`Places`); gRPC has one operation of a handler at most, which the
handler awaits or a thread is about to say so (`Operations`); the same of the events in the
queue (`Queue`); the thread of a unary handler (`Threads`); handlers serve
different calls (`Serving`); what is replied was taken (`Answers`). `EventsMeet`
follows: a tag never points to a deleted handler, although handlers delete themselves and
tags are addresses. The proof has one lemma per action and one step per part.
`OneListenerEach` (`AlwaysListening`) adds `Listening`: the listeners that wait, the
calls that have met one, and the threads about to make a successor are together the
loops that have begun. Each action moves one element from one of these finite sets to
another, or none; that a completion of `request` is never a failure is part of it.

Proved and no longer in a run, since the theorem says more than the run did: the type
invariants of these modules, `IdleAccounting` and `NoEarlyExit` of `StdThreadPool`,
`QueueExact` and `AtMostOneLateStart` of `EzThreadPool`, `TableExact` and
`EnumComplete` of `BobMap`. TLC found each to hold before it was proved.

Every invariant and every action property of the passing runs is the statement of a theorem.
Only model-checked:

- all liveness and what is stated with it, since fairness and ENABLED are out of the prover's reach:
  `JoinHangsOnlyOnLostWakeup`, `QueuedTaskRuns`, `PendingTaskRuns`, `DestructorReturns`,
  `LatchReleasesAll`, `SignalReachesAWaiter`, `ExitEndsTheThread`, `DestructorEnds`,
  `DisconnectReturns`, `ShutdownContinues`, `StopReturns`, `CallAnswered`, `FinishedIsFreed`,
  `ConversationGoesOn`, `CallsEnd`, `CreationEnds`, `StopIsAnswered`, `KillEnds`;
- `WorkThread`, `MsgQueue` and `GrpcClients`, of which the runs check liveness only;
- that the functions of `OsApiCalls` and `ToolCalls` are kept by their ledger: this is about one
  given program, and computed.

The assumptions are those of the modules, which name
them, and the three named here (`NonEmptyPool`, `HonestStart`, `NamesApart`).

## 5. Mutants

Each property of a passing run has a mutant in `PROJECT.json`: a definition of the
model with a plausible bug (a dropped test, a forgotten notification, a swapped order),
under which TLC finds the property violated. Mutants stand beside the definitions
they replace, each with a comment that says what it does instead; they are part of no
specification.

## 6. Where the code does not do what it says

- *Common/ThreadPool.hpp:41* (`std_pool_dtor`). The destructor means to wake all
  threads and to wait for them. It clears `_run` without the lock; a worker between
  its test and its sleep misses the notification, and `join` waits for ever.
  `JoinHangsOnlyOnLostWakeup` says that this is the only way it can.
- *client_stream_reactor.cpp:27-29, 43* (`service_unset`). Shutdown is to continue
  when all reactors are gone. A reactor whose uninitialised `status_` happens to say
  `done` or `finished` never calls `Finish`, and Shutdown waits for ever.
- *Common/KBobMap.h:34* (`bobmap_enum`). A callback that answers TRUE is to end the
  enumeration; the `break` ends the walk of one list.

Seen while reading, and not a run of its own: the exception of `ez::thread_pool`
gives its range as [1, 1000] and 1000 is refused (thread_pool.hpp:34);
`request` accepts packages on a stream that never connected, for it tests `exit_`
only; ProcessNotify.c:90 speaks of 40 waits of 250 ms and the loop makes 11;
ServiceProgramTask never joins `thWorker`, so its end is `std::terminate` unless
`main` returns first; without its stop event the service may report two things at
once; the handlers of `Socket/grpcImp` drop an event that is not ok and with it the
handler, so a stream's handler is never deleted (server.h:375, 419), and
server_async.cpp:86 ends the server for it; two threads may join the writer of a client
stream at the same time.

The modules of the Windows tools and the driver carry what they found as exceptions in
their properties:

- *KernelDemo*: gProcessIdMap is used without the lock that KBobMap.h:6 asks for, so
  `EntriesMatch` stops at `damaged`; an answer may be written into another creation's
  entry (`StrayAnswerOnlyWhenLate`); GetLog (LogMgr.c) copies from a process id as
  if it were an address.
- *api_hook.cpp:968*: the entry of MoveFileW has CopyFileW's slot and code. CopyFileW
  then moves the file, and stays detoured after `unhook` (`UnhookRestores`,
  `CallsReachTheirOwn`). IFileOperation's CopyItems is attached and not listed; a drop
  target registered during `unhook` stays attached, and its `push_back` may move the list under the loop
  or meet that of `hookIFileDialog` (876); a detach that fails (112), which a transaction of the
  application's thread is enough for, leaves the function hooked, and `unhook` goes on and logs it as a success.
  `GetOpenedFilePath` takes the characters after a single path for names unless two NULs follow it;
  `hookIFileDialog` lacks a `return`.
- *ApiTest and tools*: the leaks in the `known` sets of `OsApiCalls` and `ToolCalls`, for
  example the name of the session found (OsApi_Win32.cpp, GetCurrentUserSessionId), the impersonation
  of CreateProcessAsSessionId, thread handles of GetMainThreadId, the dialogs' shell
  items; `LoadFile` closes INVALID_HANDLE_VALUE; `UnhookProcess` runs twice for a hook;
  the window callback of GetWindowHandle compares a process id with a pointer.
- *PEParse*: FindDllExport compares a prefix, which the order of the table makes
  harmless for names that are there (`ExportFound`); `IsDriver32` takes a library without
  an OriginalFirstThunk, which shares its place with Characteristics, for the end of the
  list, and does not see a kernel import after it; a name that no section holds is compared at
  NULL; the last test of `IsPE` leaves `e_lfanew` and SizeOfOptionalHeader out, and a section table
  may reach past the end; a negative `e_lfanew` gets past the test of PEFileParse.h:44 in a 32-bit build,
  where the sum wraps, and in a file of more than 2 GB, where the classification takes it
  as signed (`AcceptedIsReadable`).
- *grpcImp clients*: the destructor of `PersistentConnect` does not join its thread.

## 7. Not modelled

- *Logging, formatting, printing* (flog.h, log.hpp, OutputLog, the field printers of
  ELFParse, ParseImportTable32 of PEParse): no property is about them. PEFileParse.c is
  two tables of exported names by ordinal that nothing reads.
- *ez::rwlock* has empty bodies, *safelist* is one lock around one call of `std::list`,
  *safemap* and *buffer* do nothing or do not compile; *subscriber* has no user and
  locks no mutex. There is no behaviour to state a property of.
- *What the hooks decide about files, and `ReadFile_Mine`*, which `hook()` does not attach; a second
  thread of the application; Detours itself, and what exactly two overlapping `push_back` leave of the list.
- *The imports and names that `IsDriver32` reads* at the addresses the section table gives, which nothing
  compares with the size of the file: `reads` has the headers and the section table alone.
- *The bytes the injection tools write*: `ToolCalls` has what they open, map and
  close.
- *Functions of OsApi that are one call of the system with formatting* (security
  descriptors, version strings, file times), *GrpcBaseService*, which nothing uses, and
  threads that cannot be started.
- *Two creations on one damaged list*: its state is undefined, and `ProcessNotify` says no
  more than that.
- *Demos, vendored and generated code* (detours.h, the protocol buffer files, CMake's
  compiler checks).

Worth doing next: safety invariants of `GrpcClients` and `WorkThread`, which have none yet, and what
two clients and one server promise each other as an abstract specification that
`AsyncServer` implements.
