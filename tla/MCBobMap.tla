------------------------------- MODULE MCBobMap -------------------------------
(* BobMap with two lists and five keys, two of which pIsEqual takes for equal; *)
(* two of the names share a list, one key has no real key.                     *)
EXTENDS BobMap, TLC

CONSTANTS a, aa, b, c, nokey, A, B, C, N, x, y

FiveKeys == {a, aa, b, c, nokey}
OneNoRealKey == {nokey}
Names == {A, B, C, N}
Named == (a :> A) @@ (aa :> A) @@ (b :> B) @@ (c :> C) @@ (nokey :> N)
Hashes == (a :> 1) @@ (aa :> 1) @@ (b :> 3) @@ (c :> 4) @@ (nokey :> 0)
TwoData == {x, y}
===============================================================================
