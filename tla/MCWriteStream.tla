----------------------------- MODULE MCWriteStream -----------------------------
(* WriteStream with three packages from two callers and three gRPC threads.    *)
EXTENDS WriteStream

CONSTANTS p1, p2, p3, r1, r2, main, c1, c2, c3

ThreePackages == {p1, p2, p3}
TwoRequesters == {r1, r2}
ThreeCallbacks == {c1, c2, c3}
================================================================================
