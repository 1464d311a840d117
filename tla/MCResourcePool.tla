--------------------------- MODULE MCResourcePool ---------------------------
(* Instances of ResourcePool for TLC.                                      *)
EXTENDS ResourcePool, TLC

CONSTANTS t1, t2, t3, c1

OneContext     == {{c1}}
ThreadSymmetry == Permutations(Threads)
=============================================================================
