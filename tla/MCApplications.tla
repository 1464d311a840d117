--------------------------- MODULE MCApplications ---------------------------
(* Instances of Applications for TLC.  The names of a user's own template  *)
(* are interchangeable.                                                    *)
EXTENDS Applications

CONSTANTS name1, name2, name3, name4

NameSymmetry == Permutations({name1, name2, name3, name4})

(* The quick sort sorts, and moves the indices along, for every list of up *)
(* to five scores with ties.                                               *)
ASSUME SortSorts ==
    \A n \in 0 .. 5 : \A scores \in [1 .. n -> 1 .. 3] :
        IsSorting(scores, SortByScore(scores))
=============================================================================
