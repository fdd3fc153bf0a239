------------------------------- MODULE SignalFlag -------------------------------
(***************************************************************************)
(* The two flags of ez::signal (myutils/include/ez/signal.hpp): sg_, the    *)
(* signal is set, and re_, a wait resets it.  Each operation below runs     *)
(* under mu_; the modules that use a signal decide who is woken.            *)
(***************************************************************************)
Flags == [sg : BOOLEAN, re : BOOLEAN]

\* The constructor, and reset().
Clear == [sg |-> FALSE, re |-> TRUE]

\* notify_one and notify_all; the latter latches the signal.
SetOne(s) == [s EXCEPT !.sg = TRUE]
SetAll(s) == [sg |-> TRUE, re |-> FALSE]

\* The end of a wait that saw the signal.
ConsumeNothing(s) == s
Consume(s) == IF s.re THEN [s EXCEPT !.sg = FALSE] ELSE s
=================================================================================
