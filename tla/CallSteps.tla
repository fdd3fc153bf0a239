------------------------------ MODULE CallSteps ------------------------------
(***************************************************************************)
(* How the body of a function that opens and closes things is written down  *)
(* for ApiCalls: a sequence of steps, and what its tail closes.             *)
(***************************************************************************)
EXTENDS Integers, Sequences

\* A step calls the system, or with runs another function, and succeeds or fails.  A
\* success opens gets, closes what the variables in closes hold, and sets those in
\* clears to NULL; a failure closes undo and sets it to NULL, and leaves junk in a
\* variable that is then not NULL although nothing is open.  Either then moves on by
\* one of the offsets given; a failure that moves by 0 leaves the body.
Do == [gets |-> {}, closes |-> {}, clears |-> {}, undo |-> {}, junk |-> {},
       runs |-> "nothing", next |-> {1}, fails |-> {0}]

Gets(r) == [Do EXCEPT !.gets = {r}]
Closes(r) == [Do EXCEPT !.closes = {r}, !.fails = {}]
Drops(r) == [Closes(r) EXCEPT !.clears = {r}]
Runs(f) == [Do EXCEPT !.runs = f]

Always(s) == [s EXCEPT !.fails = {}]         \* it cannot fail
OrElse(s) == [s EXCEPT !.fails = {1}]        \* nobody asks whether it failed
Jumps(s, moves) == [s EXCEPT !.next = moves]
Else(s, moves) == [s EXCEPT !.fails = moves]

\* tail: what the end of the function closes whether it succeeds or not, without
\* setting it to NULL, and abandon: what it closes and sets to NULL if it fails; both
\* only if not NULL.  gives: what the caller gets on success.  known: what the code is
\* known to leave open, or to close without its being open, on some path.
Function(body, tail, gives, known) ==
    [body |-> body, tail |-> tail, abandon |-> {}, gives |-> gives, known |-> known]

===============================================================================
