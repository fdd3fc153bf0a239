------------------------------- MODULE MsgQueue -------------------------------
(***************************************************************************)
(* ez_msg_queue (myutils/ez_msg_queue): a mailslot and a thread that reads  *)
(* it and passes each message to a handler, until exit_ is set or a read    *)
(* fails with anything but a timeout.                                       *)
(***************************************************************************)
EXTENDS Naturals, Sequences

CONSTANTS MaxPushes  \* bound: the messages pushed

VARIABLES slot,     \* the messages in the mailslot: "fits", or "long"er than the buffer
          open,     \* mail_slot_handle_
          exit,     \* exit_
          loop,     \* work_thread_: "none", "start", "test", "read", "handle", or "ended"
          owner,    \* "outside", "inside" the object's life, "joining", or "gone"
          pushes    \* CreateFileA handles of push_msg_2_this, which none closes

vars == <<slot, open, exit, loop, owner, pushes>>

Init ==
    /\ slot = <<>> /\ open = FALSE
    /\ exit = FALSE
    /\ loop = "none"
    /\ owner = "outside"
    /\ pushes = 0

\* The constructor throws when there is no mailslot.
Construct ==
    /\ owner = "outside"
    /\ \/ owner' = "inside" /\ open' = TRUE /\ loop' = "start"
       \/ owner' = "gone" /\ UNCHANGED <<open, loop>>
    /\ UNCHANGED <<slot, exit, pushes>>

Push(message) ==
    /\ open /\ owner = "inside" /\ pushes < MaxPushes
    /\ pushes' = pushes + 1
    /\ slot' \in {slot, Append(slot, message)}   \* WriteFile may fail
    /\ UNCHANGED <<open, exit, loop, owner>>

BeginDestruct ==
    /\ owner = "inside" /\ owner' = "joining"
    /\ exit' = TRUE
    /\ UNCHANGED <<slot, open, loop, pushes>>

EndDestruct ==
    /\ owner = "joining" /\ loop = "ended"
    /\ owner' = "gone" /\ open' = FALSE /\ slot' = <<>>
    /\ UNCHANGED <<exit, loop, pushes>>

-------------------------------------------------------------------------------
LoopTo(next) == loop' = next /\ UNCHANGED <<open, exit, owner, pushes>>

\* malloc may fail.
Allocate == loop = "start" /\ LoopTo("test") /\ UNCHANGED slot
AllocateFails == loop = "start" /\ LoopTo("ended") /\ UNCHANGED slot

Test == loop = "test" /\ LoopTo(IF exit THEN "ended" ELSE "read") /\ UNCHANGED slot

\* ReadFile of a message longer than the buffer fails, and ends the loop.
ReadMessage ==
    /\ loop = "read" /\ slot # <<>>
    /\ IF Head(slot) = "fits" THEN LoopTo("handle") /\ slot' = Tail(slot)
                              ELSE LoopTo("ended") /\ UNCHANGED slot

\* After ERROR_SEM_TIMEOUT, another read and no test of exit_.
ReadAgain == loop = "read" /\ slot = <<>> /\ LoopTo("read") /\ UNCHANGED slot
ReadTimeout == loop = "read" /\ slot = <<>> /\ LoopTo("test") /\ UNCHANGED slot

\* The handler returns, or throws: then the loop ends.
Handle == loop = "handle" /\ (LoopTo("test") \/ LoopTo("ended")) /\ UNCHANGED slot

WorkLoop == Allocate \/ AllocateFails \/ Test \/ ReadMessage \/ ReadTimeout \/ Handle

Next ==
    \/ Construct \/ BeginDestruct \/ EndDestruct
    \/ \E message \in {"fits", "long"} : Push(message)
    \/ WorkLoop

Spec == Init /\ [][Next]_vars
FairSpec == Spec /\ WF_vars(WorkLoop) /\ WF_vars(EndDestruct)

-------------------------------------------------------------------------------
\* The destructor returns, with an empty mailslot as with a full one: nothing wakes
\* the reader up for it, only the timeout of the read lets it see exit_.
DestructorEnds == owner = "joining" ~> owner = "gone"

===============================================================================
