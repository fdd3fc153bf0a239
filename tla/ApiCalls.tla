------------------------------- MODULE ApiCalls -------------------------------
(***************************************************************************)
(* The shape most functions of the Windows tools have: a body that opens    *)
(* one thing after the other and breaks off at the first failure, and a     *)
(* tail that closes what its variables hold.  Code gives each function's    *)
(* body in the form of CallSteps; this module runs them, with every call of *)
(* the system free to fail, and keeps the account of what is open.  A       *)
(* function hands what it opened to its caller through a variable of the    *)
(* same name.                                                               *)
(***************************************************************************)
EXTENDS Integers, Sequences

CONSTANTS Code  \* for each function's name, a record built with CallSteps' Function

VARIABLES stack,    \* the calls under way, innermost first, each with its next step
          open,     \* what is open
          set,      \* the variables that are not NULL
          lost,     \* what was opened again while it was open: the first is out of reach
          twice,    \* what was closed although it was not open
          result    \* the last outermost call and whether it succeeded

calls == <<stack, open, set, lost, twice, result>>

NoResult == [call |-> "nothing", ok |-> FALSE]

Init ==
    /\ stack = <<>>
    /\ open = {} /\ set = {} /\ lost = {} /\ twice = {}
    /\ result = NoResult

\* Each outermost call is accounted for on its own.
Begin(f) ==
    /\ stack = <<>>
    /\ stack' = <<[call |-> f, pc |-> 1]>>
    /\ open' = {} /\ set' = {} /\ lost' = {} /\ twice' = {}
    /\ result' = NoResult

-------------------------------------------------------------------------------
Body(frame) == Code[frame.call].body
Step == Body(stack[1])[stack[1].pc]
Over == stack[1].pc = 0 \/ stack[1].pc > Len(Body(stack[1]))
Stepping == stack # <<>> /\ ~Over

\* The innermost of the calls moves on by one of the offsets, or breaks off.
Advance(frames, moves) ==
    \E m \in moves :
        stack' = [frames EXCEPT ![1].pc = IF m = 0 THEN 0 ELSE @ + m]

\* Closing what those of the variables that are not NULL hold.
Close(variables) ==
    /\ open' = open \ (variables \cap set)
    /\ twice' = twice \cup ((variables \cap set) \ open)

Succeed ==
    /\ Stepping /\ Step.runs = "nothing"
    /\ open' = (open \ Step.closes) \cup Step.gets
    /\ twice' = twice \cup ((Step.closes \cap set) \ open)
    /\ lost' = lost \cup (Step.gets \cap open)
    /\ set' = (set \ Step.clears) \cup Step.gets
    /\ Advance(stack, Step.next)
    /\ UNCHANGED result

Fail ==
    /\ Stepping /\ Step.runs = "nothing"
    /\ Close(Step.undo)
    /\ set' = (set \ Step.undo) \cup Step.junk
    /\ Advance(stack, Step.fails)
    /\ UNCHANGED <<lost, result>>

Enter ==
    /\ Stepping /\ Step.runs # "nothing"
    /\ stack' = <<[call |-> Step.runs, pc |-> 1]>> \o stack
    /\ UNCHANGED <<open, set, lost, twice, result>>

\* A function that returns as soon as something fails, before its tail.
ClosingOnSuccess(f, ok) == IF ok THEN f.tail ELSE {}

\* What the end of a function closes.
Closing(f, ok) == f.tail \cup IF ok THEN {} ELSE f.abandon

\* A function's variables are gone when it returns, but for those its caller knows.
LeaveVariables(f, ok) == set \ Closing(f, ok)

Return ==
    /\ stack # <<>> /\ Over
    /\ LET call == stack[1].call
           ok == stack[1].pc # 0
           f == Code[call]
           outer == Tail(stack)
       IN  /\ Close(Closing(f, ok))
           /\ set' = LeaveVariables(f, ok)
           /\ IF outer = <<>>
                THEN stack' = <<>> /\ result' = [call |-> call, ok |-> ok]
                ELSE /\ LET s == Body(outer[1])[outer[1].pc]
                        IN  Advance(outer, IF ok THEN s.next ELSE s.fails)
                     /\ UNCHANGED result
    /\ UNCHANGED lost

Next == Succeed \/ Fail \/ Enter \/ Return \/ \E f \in DOMAIN Code : Begin(f)

Spec == Init /\ [][Next]_calls

-------------------------------------------------------------------------------
\* A function leaves open only what it hands to its caller, and that only when it
\* succeeds, whichever of the calls below it fails, and loses nothing on the way; and
\* it closes nothing that is not open: what a failing function closed its caller's
\* tail leaves alone.  What a function is known to get wrong is in its code's known.
OpenedAndClosedOnce ==
    result # NoResult =>
        LET f == Code[result.call]
        IN  /\ open \cup lost \subseteq (IF result.ok THEN f.gives ELSE {}) \cup f.known
            /\ twice \subseteq f.known

===============================================================================
