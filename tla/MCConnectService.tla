--------------------------- MODULE MCConnectService ---------------------------
(* ConnectService with two or three streams, and with a status_ that begins    *)
(* as nothing the code tests for, or as anything.                              *)
EXTENDS ConnectService

CONSTANTS c1, c2, c3

TwoConnections == {c1, c2}
ThreeConnections == {c1, c2, c3}
Harmless == {"created", "other"}
===============================================================================
