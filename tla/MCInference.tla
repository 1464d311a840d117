---------------------------- MODULE MCInference -----------------------------
(* The inference applications for TLC: two contexts of one class, or one of
   each of the two classes of the tracking applications. *)
EXTENDS Inference

MCInstances ==
  [yolox310p |-> 2, fusion310p |-> 2, yoloxOrin |-> 2, fusionOrin |-> 2,
   deepsort310p |-> 1, deepsortOrin |-> 1]

Interchangeable == Permutations(Workers) \union Permutations(Packets)
=============================================================================
