------------------------------ MODULE CallLedger ------------------------------
(***************************************************************************)
(* An account of what the functions that ApiCalls runs open and close, kept *)
(* function by function and variable by variable, without a stack of calls  *)
(* and without looking at two variables together.  For each step of a       *)
(* function the Ledger has what may have become of a variable when the step *)
(* is reached, next to what it was when the function was called.            *)
(***************************************************************************)
EXTENDS Integers, Sequences

CONSTANTS Code,     \* the functions, as for ApiCalls
          Ledger    \* Ledger[<<f, pc, v>>] is a set of pairs of marks

\* Which of the four sets of ApiCalls a variable is in.
Marks == [open : BOOLEAN, set : BOOLEAN, lost : BOOLEAN, twice : BOOLEAN]
Clear == [open |-> FALSE, set |-> FALSE, lost |-> FALSE, twice |-> FALSE]

Body(f) == Code[f].body
StepsOf(f) == {Body(f)[n] : n \in DOMAIN Body(f)}
Variables == UNION {UNION {s.gets \cup s.junk : s \in StepsOf(f)} : f \in DOMAIN Code}

\* A body is left at 0 when it fails, and else behind its last step.
To(pc, move) == IF move = 0 THEN 0 ELSE pc + move
End(f, ok) == IF ok THEN Len(Body(f)) + 1 ELSE 0

\* A function has pages for the variables that it, or a function it calls, does
\* something to.  To the others nothing happens.
Has(f, v) == <<f, 1, v>> \in DOMAIN Ledger
Lines(f, pc, v) == IF Has(f, v) THEN Ledger[<<f, pc, v>>] ELSE {<<k, k>> : k \in Marks}

-------------------------------------------------------------------------------
\* What becomes of a variable when a step succeeds or fails, or a function returns.
Succeeded(step, v, k) ==
    [open  |-> (k.open /\ v \notin step.closes) \/ v \in step.gets,
     set   |-> (k.set /\ v \notin step.clears) \/ v \in step.gets,
     lost  |-> k.lost \/ (v \in step.gets /\ k.open),
     twice |-> k.twice \/ (v \in step.closes /\ k.set /\ ~k.open)]

Closed(variables, v, k) ==
    [open  |-> k.open /\ ~(v \in variables /\ k.set),
     set   |-> k.set /\ v \notin variables,
     lost  |-> k.lost,
     twice |-> k.twice \/ (v \in variables /\ k.set /\ ~k.open)]

Failed(step, v, k) == [Closed(step.undo, v, k) EXCEPT !.set = @ \/ v \in step.junk]

Left(f, ok, v, k) == Closed(Code[f].tail \cup IF ok THEN {} ELSE Code[f].abandon, v, k)

-------------------------------------------------------------------------------
\* A function may be called with nothing open.
Opened(f, v) == <<Clear, Clear>> \in Ledger[<<f, 1, v>>]

\* A line is carried on to each step that may be the next.
CarriedTo(f, pc, moves, v, line) == \A m \in moves : line \in Ledger[<<f, To(pc, m), v>>]

\* A call begins a page of the function it calls, and goes on with where that ends.
Posted(f, pc, v, e, k) ==
    LET step == Body(f)[pc]
        g == step.runs
    IN  IF g = "nothing"
          THEN /\ CarriedTo(f, pc, step.next, v, <<e, Succeeded(step, v, k)>>)
               /\ CarriedTo(f, pc, step.fails, v, <<e, Failed(step, v, k)>>)
          ELSE /\ <<k, k>> \in Lines(g, 1, v)
               /\ \A ok \in BOOLEAN : \A line \in Lines(g, End(g, ok), v) :
                    line[1] = k =>
                      CarriedTo(f, pc, IF ok THEN step.next ELSE step.fails, v,
                                <<e, Left(g, ok, v, line[2])>>)

Balanced(f, v) ==
    \A pc \in DOMAIN Body(f) : \A line \in Ledger[<<f, pc, v>>] :
        Posted(f, pc, v, line[1], line[2])

\* What is open or lost in the end, or was closed when it was not open, is given to
\* the caller or known.
Settled(f, v) ==
    \A ok \in BOOLEAN : \A line \in Ledger[<<f, End(f, ok), v>>] :
        line[1] = Clear =>
            LET left == Left(f, ok, v, line[2])
            IN  /\ left.open \/ left.lost =>
                      v \in Code[f].known \cup IF ok THEN Code[f].gives ELSE {}
                /\ left.twice => v \in Code[f].known

-------------------------------------------------------------------------------
\* A body is a sequence, its calls are of functions there are, and its moves end in it.
WellFormed ==
    \A f \in DOMAIN Code :
        /\ Len(Body(f)) \in Nat /\ DOMAIN Body(f) = 1..Len(Body(f))
        /\ \A s \in StepsOf(f) : s.runs \in DOMAIN Code \cup {"nothing"}
        /\ \A pc \in DOMAIN Body(f) : \A m \in Body(f)[pc].next \cup Body(f)[pc].fails :
              m \in Int /\ To(pc, m) \in 0..(Len(Body(f)) + 1)

\* What a function does something to it has pages for.
Mentions(f, v) ==
    \/ v \in Code[f].tail \cup Code[f].abandon
    \/ \E s \in StepsOf(f) :
          \/ v \in s.gets \cup s.closes \cup s.clears \cup s.undo \cup s.junk
          \/ s.runs # "nothing" /\ Has(s.runs, v)

Kept ==
    /\ WellFormed
    /\ \A f \in DOMAIN Code, v \in Variables :
          /\ Mentions(f, v) => Has(f, v)
          /\ Has(f, v) =>
              /\ \A pc \in 0..(Len(Body(f)) + 1) : Ledger[<<f, pc, v>>] \subseteq Marks \X Marks
              /\ Opened(f, v) /\ Balanced(f, v) /\ Settled(f, v)
===============================================================================
