-------------------------------- MODULE EzQueue --------------------------------
(***************************************************************************)
(* ez::queue<T> of myutils/include/ez/queue.hpp: a FIFO that refuses an     *)
(* item when it holds max_size_ of them.  Every operation holds mutex_ from *)
(* its test to its update, so an operation is a function of the contents.   *)
(***************************************************************************)
EXTENDS Naturals, Sequences

\* push_back returns FALSE and leaves the queue alone when it is full.
PushBack(q, item, max) ==
    IF Len(q) >= max THEN [ok |-> FALSE, queue |-> q]
                     ELSE [ok |-> TRUE, queue |-> Append(q, item)]

\* pop_front returns FALSE when the queue is empty; its caller's item is
\* then left as it was, which "item" keeps.
PopFront(q, item) ==
    IF q = <<>> THEN [ok |-> FALSE, item |-> item, queue |-> q]
                ELSE [ok |-> TRUE, item |-> Head(q), queue |-> Tail(q)]
================================================================================
