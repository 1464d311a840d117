---------------------------- MODULE MCThreadPool ----------------------------
(* Instances of ThreadPool for TLC.                                        *)
EXTENDS ThreadPool

CONSTANTS w1, w2, w3, a, b, a1, a2

(* Two roots of different priority; the first one spawns a batch of two.   *)
TwoRoots    == {a, b}
BatchOfTwo  == [t \in Tasks |-> IF t = a THEN {a1, a2} ELSE {}]
ByPacket    == [t \in Tasks |-> IF t = b THEN 2 ELSE 1]
=============================================================================
