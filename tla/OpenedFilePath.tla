--------------------------- MODULE OpenedFilePath ---------------------------
(***************************************************************************)
(* GetOpenedFilePath (detours_hook_dll/api_hook.cpp): the paths that a file *)
(* dialog has put into its caller's buffer, which are a directory and then  *)
(* names, each after a NUL, or one path.  A word stands for a run of        *)
(* characters: a buffer is a sequence of characters of which only NUL and   *)
(* not NUL matter.                                                          *)
(***************************************************************************)
EXTENDS Integers, Sequences, FiniteSetsExt

CONSTANTS Buffers  \* sequences over {0, 1}, with 0 for NUL; 1..BufLen are the buffer's

VARIABLES buffer, index, path, reads, ended

pathVars == <<buffer, index, path, reads, ended>>

bufLen == Len(buffer)

\* wcslen from an index that counts from 0; what is beyond the buffer is not NUL.
NulFrom(n) == {m \in n..(bufLen - 1) : buffer[m + 1] = 0} \cup {bufLen}
Wcslen(n) == Min(NulFrom(n)) - n

\* The words of the path are where they begin in the buffer and how long they are.
Init ==
    /\ buffer \in Buffers
    /\ index = Wcslen(0)
    /\ path = <<[at |-> 0, len |-> Wcslen(0)]>>
    /\ reads = 0..Wcslen(0)
    /\ ended = FALSE

EndOfBuffer == index >= bufLen - 1
\* The end of one path, not of a list of names.
OneNul == buffer[index + 1] = 0

TwoNuls == buffer[index + 1] = 0 /\ buffer[index + 2] = 0

Stop ==
    /\ ~ended /\ ended' = TRUE
    /\ \/ EndOfBuffer /\ UNCHANGED reads
       \/ ~EndOfBuffer /\ TwoNuls /\ reads' = reads \cup {index, index + 1}
    /\ UNCHANGED <<buffer, index, path>>

AppendName ==
    /\ ~ended /\ ~EndOfBuffer /\ ~TwoNuls
    /\ path' = Append(path, [at |-> index + 1, len |-> Wcslen(index + 1)])
    /\ reads' = reads \cup index..(index + 1 + Wcslen(index + 1))
    /\ index' = index + Wcslen(index + 1) + 1
    /\ UNCHANGED <<buffer, ended>>

Next == Stop \/ AppendName

Spec == Init /\ [][Next]_pathVars

-------------------------------------------------------------------------------
\* Where the list ends: at the first two NULs together, or with the buffer.
ListEnd ==
    Min({n \in 0..(bufLen - 1) : buffer[n + 1] = 0 /\ (n + 1 = bufLen \/ buffer[n + 2] = 0)})

\* Whatever the number and the lengths of the names, and however closely they fill
\* the buffer, the path has each word up to the end of the list once and in order,
\* and nothing outside of the buffer is read.
EveryNameOnce ==
    ended =>
        /\ {n \in 0..(ListEnd - 1) : buffer[n + 1] # 0}
             = UNION {path[i].at..(path[i].at + path[i].len - 1) : i \in DOMAIN path}
        /\ \A i \in DOMAIN path :
               i > 1 => /\ path[i].len > 0
                        /\ path[i].at = path[i - 1].at + path[i - 1].len + 1
        /\ reads \subseteq 0..(bufLen - 1)

===============================================================================
