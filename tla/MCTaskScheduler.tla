-------------------------- MODULE MCTaskScheduler --------------------------
(* Small instances of TaskScheduler: two templates, two packets.            *)
EXTENDS TaskScheduler, TLC

CONSTANTS p1, p2, w1, w2, c1, npu, dsp

PacketIdx == p1 :> 0 @@ p2 :> 1

(* 0 -> 1, 0 -> 2, {1, 2} -> 4: two workers race to make node 4 ready, and *)
(* node 4 names its predecessor 1 twice.  Node 3 hangs off node 2 beside   *)
(* the output: it may be left to run when the output is done.              *)
Diamond ==
    0 :> <<1, 2>> @@ 1 :> <<4, 4>> @@ 2 :> <<3, 4>> @@ 3 :> << >> @@ 4 :> << >>

(* A chain, and a branch off the input that ends beside the output: it may *)
(* still be in flight, or not have begun, when the output is done.         *)
SideBranch == 0 :> <<1, 2>> @@ 1 :> <<3>> @@ 2 :> << >> @@ 3 :> << >>

OneContext == c1 :> npu
BranchesOnNpu == [n \in Nodes |-> IF n \in {1, 2} THEN npu ELSE NoResource]
(* Node 2 asks for a type nobody registered.                               *)
UnregisteredDsp ==
    [n \in Nodes |-> CASE n = 1 -> npu [] n = 2 -> dsp [] OTHER -> NoResource]

WorkerSymmetry == Permutations(Workers)
=============================================================================
