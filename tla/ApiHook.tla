-------------------------------- MODULE ApiHook --------------------------------
(***************************************************************************)
(* hook() and unhook() of detours_hook_dll/api_hook.cpp, against a thread   *)
(* of the application that calls the hooked functions all the while.  Each  *)
(* X_Mine has a slot X_Origin, through which it calls on: the function      *)
(* itself, as long as nothing is attached, and then the trampoline that     *)
(* leads past the patched entry.  Detours has one transaction at a time in  *)
(* a process: that of a thread which finds another's under way does not     *)
(* begin, and what it attaches, detaches and commits fails; hook() and      *)
(* unhook() go on all the same.                                             *)
(***************************************************************************)
EXTENDS Naturals, Sequences

CONSTANTS MayFail,   \* bound: the functions that may fail to be attached or detached
          MaxFailures, \* bound: how often one does, or a transaction finds another's
          Called,    \* bound: the functions that the application calls
          Unheld,    \* functions of libraries that nobody but hook() has loaded
          Realloc    \* whether push_back may move the elements of apis

VARIABLES code,   \* for each function, what its entry runs: "itself" or some X_Mine
          slot,   \* X_Origin for each X: NULL, or a function, at its entry or past it
          apis,   \* the list of what to detach
          i, end, \* where the loop over apis is, and where it was to end when it began
          phase,  \* how far hook() and unhook() are
          once,   \* nobody has registered a drop target since the hook
          call,   \* the call of the application that is under way
          died,   \* the slot, NULL, or the list through which the process died, or "no"
          doing,  \* for each thread, whether it is in a transaction or in push_back
          pending,\* whose transaction Detours has under way
          failures,\* how many there have been
          kept    \* history: what could not be detached, or was lost from the list

entries == <<code, slot>>
loop == <<apis, i, end>>
detours == <<doing, pending, failures>>
hookVars == <<entries, loop, phase, once, call, died, detours, kept>>

Thread == {"hook", "app"}   \* the one of hook() and unhook(), and the application's

-------------------------------------------------------------------------------
Api(proc, as) == [proc |-> proc, as |-> as]
Own(proc) == Api(proc, proc)

\* The entries of apis that hook() puts in; MoveFileW's has CopyFileW's slot and code.
Listed == <<
    Own("GetOpenFileNameW"), Own("GetOpenFileNameA"), Own("DragQueryFileW"),
    Own("DragQueryFileA"), Own("GetClipboardData"), Own("CreateProcessW"),
    Own("CopyFileW"), Api("MoveFileW", "CopyFileW"), Own("CreateFileMappingW"),
    Own("RegisterDragDrop"), Own("DoDragDrop"), Own("CoCreateInstance"),
    Own("OleGetClipboard"), Own("SHBrowseForFolderW"), Own("SHBrowseForFolderA")>>

Method == {"IFileOperation_CopyItems", "IFileDialog_Show", "IDropTarget_Drop",
           "IDropTarget_DragEnter"}
Proc == {Listed[n].proc : n \in DOMAIN Listed} \cup Method

NULL == [to |-> "nothing", past |-> FALSE]
Entry(f) == [to |-> f, past |-> FALSE]
Past(f) == [to |-> f, past |-> TRUE]

-------------------------------------------------------------------------------
\* The slots an X_Mine calls through, in order, and whether it looks at each first.
Through(s) == [slot |-> s, asks |-> FALSE]
Asking(s) == [slot |-> s, asks |-> TRUE]

Forwarding == [m \in Proc |-> <<Through(m)>>]
GetOpenFileNameW_Mine == <<Asking("GetOpenFileNameW")>>
GetClipboardDataUnasked ==
    <<Through("GetClipboardData"), Through("GetClipboardData"), Through("DragQueryFileW")>>
GetClipboardData_Mine ==
    <<Through("GetClipboardData"), Through("GetClipboardData"), Asking("DragQueryFileW")>>
DoDragDrop_Mine == <<>>
IDropTarget_Mine == <<Through("DragQueryFileW")>>

Mine == [Forwarding EXCEPT !["GetOpenFileNameW"] = GetOpenFileNameW_Mine,
                           !["GetClipboardData"] = GetClipboardData_Mine,
                           !["DoDragDrop"] = DoDragDrop_Mine,
                           !["IDropTarget_Drop"] = IDropTarget_Mine,
                           !["IDropTarget_DragEnter"] = IDropTarget_Mine]

-------------------------------------------------------------------------------
NoCall == [api |-> "nothing", mine |-> "nothing", todo |-> <<>>, reached |-> {},
           registering |-> 0]

Init ==
    /\ code = [f \in Proc |-> "itself"] /\ slot = [m \in Proc |-> NULL]
    /\ apis = <<>> /\ i = 1 /\ end = 0
    /\ phase = "before" /\ once = TRUE /\ call = NoCall /\ died = "no"
    /\ doing = [t \in Thread |-> "nothing"] /\ pending = "nobody" /\ failures = 0
    /\ kept = {}

Alive == died = "no"
Idle(t) == doing[t] = "nothing"
Untouched(f) == code[f] = "itself"

-------------------------------------------------------------------------------
(* Transactions of Detours                                                    *)

Failure == failures < MaxFailures /\ failures' = failures + 1

\* DetourTransactionBegin, the result of which is ignored.
Begin(t) ==
    /\ doing' = [doing EXCEPT ![t] = "transaction"]
    /\ \/ pending = "nobody" /\ pending' = t /\ UNCHANGED failures
       \/ /\ pending # "nobody" /\ UNCHANGED pending
          /\ Failure

Commit(t) == pending' = IF pending = t THEN "nobody" ELSE pending

\* DetourAttach of as_Mine to f, which the slot has already.  Of a library unheld, the
\* patched code goes with the FreeLibrary that follows.
Attach(t, f, as) ==
    \/ /\ pending = t
       /\ code' = [code EXCEPT ![f] = IF f \in Unheld \ Method THEN @ ELSE as]
       /\ slot' = [slot EXCEPT ![as] = Past(f)]
       /\ UNCHANGED failures
    \/ /\ \/ pending # t /\ UNCHANGED failures
          \/ pending = t /\ f \in MayFail /\ Failure
       /\ UNCHANGED entries

\* DetourDetach: only what is attached through this slot comes off, unless its library
\* is gone, and the slot gets the function.
Detach(t, as) ==
    LET f == slot[as].to
    IN  \/ /\ pending = t /\ slot[as].past
           /\ code' = [code EXCEPT ![f] = "itself"]
           /\ slot' = [slot EXCEPT ![as] = Entry(f)]
           /\ UNCHANGED <<kept, failures>>
        \/ /\ \/ (pending # t \/ ~slot[as].past \/ Untouched(f)) /\ UNCHANGED failures
              \/ pending = t /\ slot[as].past /\ f \in MayFail /\ Failure
           /\ kept' = IF slot[as].past /\ ~Untouched(f) THEN kept \cup {f} ELSE kept
           /\ UNCHANGED entries

-------------------------------------------------------------------------------
(* push_back, which no lock keeps from another                                *)

Pushes == {"push", "lost push"}

\* Of two that overlap the list may keep both, either or neither, or be broken.
StartPush(t) ==
    IF \E other \in Thread \ {t} : doing[other] \in Pushes
      THEN \/ doing' \in [Thread -> Pushes] /\ UNCHANGED died
           \/ doing' = [doing EXCEPT ![t] = "push"] /\ died' = "apis"
      ELSE doing' = [doing EXCEPT ![t] = "push"] /\ UNCHANGED died

EndPush(t, f) ==
    /\ doing[t] \in Pushes
    /\ doing' = [doing EXCEPT ![t] = "nothing"]
    /\ \/ doing[t] = "push" /\ apis' = Append(apis, Own(f)) /\ UNCHANGED kept
       \/ doing[t] = "lost push" /\ kept' = kept \cup {f} /\ UNCHANGED apis

-------------------------------------------------------------------------------
(* hook() and unhook()                                                        *)

BeginLoop(list) == i' = 1 /\ end' = Len(list)

Hook ==
    /\ Alive /\ phase = "before"
    /\ apis' = Listed /\ BeginLoop(apis') /\ phase' = "attaching"
    /\ UNCHANGED <<entries, once, call, died, detours, kept>>

\* DetourTargetProc up to its transaction, if LoadLibrary and GetProcAddress succeed.
HookNext ==
    /\ Alive /\ phase = "attaching" /\ i <= end /\ Idle("hook")
    /\ LET api == apis[i]
       IN  \/ /\ slot' = [slot EXCEPT ![api.as] = Entry(api.proc)]
              /\ Begin("hook") /\ UNCHANGED i
           \/ /\ api.proc \in MayFail
              /\ slot' \in {slot, [slot EXCEPT ![api.as] = NULL]}
              /\ i' = i + 1 /\ Failure /\ UNCHANGED <<doing, pending>>
    /\ UNCHANGED <<code, apis, end, phase, once, call, died, kept>>

DetourTargetProc ==
    /\ Alive /\ phase = "attaching" /\ i <= end /\ ~Idle("hook")
    /\ Attach("hook", apis[i].proc, apis[i].as) /\ Commit("hook")
    /\ doing' = [doing EXCEPT !["hook"] = "nothing"] /\ i' = i + 1
    /\ UNCHANGED <<apis, end, phase, once, call, died, kept>>

\* The method found in the object is attached, and not put in the list.
hookIFileOperation ==
    /\ Alive /\ phase = "attaching" /\ i > end
    /\ \/ /\ Idle("hook") /\ UNCHANGED <<code, phase>>
          /\ slot' = [slot EXCEPT !["IFileOperation_CopyItems"] = Entry("IFileOperation_CopyItems")]
          /\ Begin("hook")
       \/ /\ ~Idle("hook") /\ phase' = "operation hooked"
          /\ Attach("hook", "IFileOperation_CopyItems", "IFileOperation_CopyItems")
          /\ Commit("hook") /\ doing' = [doing EXCEPT !["hook"] = "nothing"]
       \/ /\ Idle("hook") /\ phase' = "operation hooked"      \* no object
          /\ UNCHANGED <<entries, detours>>
    /\ UNCHANGED <<loop, once, call, died, kept>>

\* The object is had through CoCreateInstance's slot; the method is put in the list,
\* attached or not.
FindIFileDialog ==
    /\ Alive /\ phase = "operation hooked" /\ Idle("hook")
    /\ \/ /\ slot["CoCreateInstance"] # NULL /\ UNCHANGED <<phase, died>>
          /\ slot' = [slot EXCEPT !["IFileDialog_Show"] = Entry("IFileDialog_Show")]
          /\ Begin("hook")
       \/ /\ slot["CoCreateInstance"] # NULL /\ phase' = "hooked"   \* no object
          /\ UNCHANGED <<slot, died, detours>>
       \/ /\ slot["CoCreateInstance"] = NULL /\ died' = "CoCreateInstance"
          /\ UNCHANGED <<slot, phase, detours>>
    /\ UNCHANGED <<code, loop, once, call, kept>>

hookIFileDialog ==
    /\ Alive /\ phase = "operation hooked"
    /\ \/ /\ doing["hook"] = "transaction" /\ UNCHANGED <<apis, phase, kept>>
          /\ Attach("hook", "IFileDialog_Show", "IFileDialog_Show") /\ Commit("hook")
          /\ StartPush("hook")
       \/ /\ EndPush("hook", "IFileDialog_Show") /\ phase' = "hooked"
          /\ UNCHANGED <<entries, pending, failures, died>>
    /\ UNCHANGED <<i, end, once, call>>

\* The loop's end is read while the application's push_back may be moving the list.
Unhook ==
    /\ Alive /\ phase = "hooked"
    /\ BeginLoop(apis) /\ phase' = "detaching"
    /\ UNCHANGED died \/ (Realloc /\ doing["app"] \in Pushes /\ died' = "apis")
    /\ UNCHANGED <<entries, apis, once, call, detours, kept>>

\* UnDetourTargetProc up to its transaction, which a slot that is NULL does not get.
UnhookNext ==
    /\ Alive /\ phase = "detaching" /\ Idle("hook")
    /\ \/ i <= end /\ slot[apis[i].as] # NULL /\ Begin("hook") /\ UNCHANGED <<i, phase>>
       \/ i <= end /\ slot[apis[i].as] = NULL /\ i' = i + 1 /\ UNCHANGED <<phase, detours>>
       \/ i > end /\ phase' = "unhooked" /\ UNCHANGED <<i, detours>>
    /\ UNCHANGED <<entries, apis, end, once, call, died, kept>>

\* The loop of unhook, ended by the first entry that does not come off.
UnDetourUntilFailure ==
    /\ Alive /\ phase = "detaching" /\ ~Idle("hook")
    /\ Detach("hook", apis[i].as) /\ Commit("hook")
    /\ doing' = [doing EXCEPT !["hook"] = "nothing"]
    /\ i' = IF slot'[apis[i].as] = slot[apis[i].as] THEN end + 1 ELSE i + 1
    /\ UNCHANGED <<apis, end, phase, once, call, died>>

UnDetourTargetProc ==
    /\ Alive /\ phase = "detaching" /\ ~Idle("hook")
    /\ Detach("hook", apis[i].as) /\ Commit("hook")
    /\ doing' = [doing EXCEPT !["hook"] = "nothing"] /\ i' = i + 1
    /\ UNCHANGED <<apis, end, phase, once, call, died>>

-------------------------------------------------------------------------------
(* The application                                                            *)

\* It calls a function whose entry leads to some X_Mine.  One that is untouched just
\* runs.
Call(f) ==
    /\ Alive /\ call = NoCall /\ ~Untouched(f)
    /\ call' = [api |-> f, mine |-> code[f], todo |-> Mine[code[f]], reached |-> {},
                registering |-> IF code[f] = "RegisterDragDrop" /\ once THEN 1 ELSE 0]
    /\ UNCHANGED <<entries, loop, phase, once, died, detours, kept>>

\* The first RegisterDragDrop attaches the two methods of its drop target and puts
\* them in the list, whatever the other thread is doing to Detours and to the list.
Registered == IF call.registering = 1 THEN "IDropTarget_Drop" ELSE "IDropTarget_DragEnter"
Looping ==
    /\ phase \in {"attaching", "detaching"}
    /\ i < end \/ (i = end /\ Idle("hook"))

FindDropTarget ==
    /\ Alive /\ call.registering # 0 /\ Idle("app")
    /\ slot' = [slot EXCEPT ![Registered] = Entry(Registered)] /\ Begin("app")
    /\ UNCHANGED <<code, loop, phase, once, call, died, kept>>

HookDropTarget ==
    /\ Alive /\ doing["app"] = "transaction"
    /\ Attach("app", Registered, Registered) /\ Commit("app")
    /\ StartPush("app")
    /\ UNCHANGED <<loop, phase, once, call, kept>>

RegisterDragDrop_Mine ==
    /\ Alive /\ EndPush("app", Registered)
    /\ UNCHANGED died \/ (Realloc /\ Looping /\ died' = "apis")
    /\ IF call.registering = 1
         THEN call' = [call EXCEPT !.registering = 2] /\ UNCHANGED once
         ELSE call' = [call EXCEPT !.registering = 0] /\ once' = FALSE
    /\ UNCHANGED <<entries, i, end, phase, pending, failures>>

\* What the X_Mine under way calls next; GetClipboardData_Mine may stop in between.
CallOn ==
    /\ Alive /\ call # NoCall /\ call.registering = 0 /\ call.todo # <<>>
    /\ LET step == Head(call.todo)
           to == slot[step.slot]
           rest == [call EXCEPT !.todo = Tail(call.todo)]
       IN  \/ /\ to # NULL
              /\ call' = IF step.slot = call.mine
                           THEN [rest EXCEPT !.reached = @ \cup {to.to}] ELSE rest
              /\ UNCHANGED died
           \/ to = NULL /\ step.asks /\ call' = rest /\ UNCHANGED died
           \/ to = NULL /\ ~step.asks /\ died' = step.slot /\ UNCHANGED call
    /\ UNCHANGED <<entries, loop, phase, once, detours, kept>>

Returning ==
    /\ Alive /\ call # NoCall /\ call.registering = 0
    /\ call.todo = <<>> \/ (call.api = "GetClipboardData" /\ call.reached # {})

CallReturns ==
    /\ Returning
    /\ call' = NoCall
    /\ UNCHANGED <<entries, loop, phase, once, died, detours, kept>>

Next ==
    \/ Hook \/ HookNext \/ DetourTargetProc
    \/ hookIFileOperation \/ FindIFileDialog \/ hookIFileDialog
    \/ Unhook \/ UnhookNext \/ UnDetourTargetProc
    \/ \E f \in Called : Call(f)
    \/ FindDropTarget \/ HookDropTarget \/ RegisterDragDrop_Mine
    \/ CallOn \/ CallReturns

Spec == Init /\ [][Next]_hookVars

-------------------------------------------------------------------------------
Slots == {NULL} \cup {Entry(f) : f \in Proc} \cup {Past(f) : f \in Proc}
Steps == [slot : Proc, asks : BOOLEAN]

TypeOK ==
    /\ code \in [Proc -> Proc \cup {"itself"}] /\ slot \in [Proc -> Slots]
    /\ apis \in Seq([proc : Proc, as : Proc]) /\ i \in Nat /\ end \in Nat
    /\ phase \in {"before", "attaching", "operation hooked", "hooked", "detaching", "unhooked"}
    /\ once \in BOOLEAN
    /\ \/ call = NoCall
       \/ call \in [api : Proc, mine : Proc, todo : Seq(Steps), reached : SUBSET Proc,
                    registering : 0..2]
    /\ died \in Proc \cup {"no", "apis"}
    /\ doing \in [Thread -> {"nothing", "transaction"} \cup Pushes]
    /\ pending \in Thread \cup {"nobody"} /\ failures \in Nat /\ kept \subseteq Proc

\* What the hooks refuse on purpose.
Refused == {"DoDragDrop", "IDropTarget_Drop", "IDropTarget_DragEnter"}

\* While the hooks come and go, a call of the application still reaches the function
\* it calls and no other, or is refused, and never goes through a slot that is NULL;
\* but CopyFileW leads to MoveFileW, which has its slot and may leave it NULL, and a
\* drop and hook() itself go through slots that nobody has looked at.
CallsReachTheirOwn ==
    /\ call.reached \subseteq {call.api} \cup IF call.api = "CopyFileW" THEN {"MoveFileW"} ELSE {}
    /\ Returning => call.reached # {} \/ call.api \in Refused
    /\ died = "DragQueryFileW" => call.api \in {"IDropTarget_Drop", "IDropTarget_DragEnter"}
    /\ died \in {"no", "apis", "DragQueryFileW", "CoCreateInstance"}
                  \cup IF "MoveFileW" \in MayFail THEN {"CopyFileW"} ELSE {}

\* After unhook() every function is as it was, however many of the hooks had failed,
\* but for what Detours refused to detach, the method that is not in the list, CopyFileW,
\* the slot of which was given to MoveFileW, and the methods of a drop target that came
\* to the list later, or are about to.  Unless the application has registered a drop
\* target, Detours refuses no more than it may, and nothing is lost from the list.
UnhookRestores ==
    /\ phase = "unhooked" =>
         \A f \in Proc :
            \/ Untouched(f)
            \/ f \in kept \cup {"IFileOperation_CopyItems", "CopyFileW"}
            \/ \E n \in DOMAIN apis : n > end /\ apis[n].proc = f
            \/ doing["app"] \in Pushes /\ f = Registered
    /\ once /\ call.registering = 0 => kept \subseteq MayFail
================================================================================
