------------------------------ MODULE Matching ------------------------------
(* A call of min_cost_matching with the solver inside it, on every distance
   matrix of the given shapes: the solver assigns as many pairs as the shape
   allows, and those at the limit or beyond are taken out again. *)
EXTENDS LinearAssignment, Munkres

CONSTANT Entries       \* per shape, the sets its distances are taken from

(* The limits of the trackers are below one and the matrices far smaller than
   INFTY_COST, so that one pair beyond the limit outweighs all others. *)
ASSUME MatchingAssumption ==
  /\ MaxDistance \in Nat
  /\ \A shape \in Shapes : /\ \A entries \in Entries[shape] : entries \subseteq Int
                           /\ Min({shape[1], shape[2]}) * MaxDistance < INFTY_COST

VARIABLE distance      \* what the metric, or the overlap, says of each pair

matchingVars == <<distance, solverVars>>

(* With no tracks or no detections the call returns at once: a shape has both. *)
MatchingInit ==
  \E shape \in Shapes : \E entries \in Entries[shape] :
    /\ rows = shape[1] /\ columns = shape[2]
    /\ distance \in [Cells(rows, columns) -> entries]
    /\ cost = Limited(distance)
    /\ SolverInit

MatchingNext == (SolverNext \/ SolverDone) /\ UNCHANGED distance

MatchingSpec == MatchingInit /\ [][MatchingNext]_matchingVars

Returned == step = 0

MutantMatches == Solution
matches == Accepted(cost, Solution)

(* Although the solver must pair every track or every detection, what comes back
   is a best choice among the pairs within the limit, as many as possible and of
   those the ones of least distance: no pair beyond the limit takes the place of
   a possible one, none is matched, and what is lost of the best choice are only
   pairs exactly at the limit, which the call does not replace before the solver
   but refuses after it.  (With a negative distance the solver does not promise
   the least cost.) *)
MatchedBest ==
  Returned /\ (\A cell \in DOMAIN distance : distance[cell] >= 0) =>
    LET within == {M \in Matchings(rows, columns) : \A cell \in M : distance[cell] <= MaxDistance}
        most == Max({Cardinality(M) : M \in within})
        largest == {M \in within : Cardinality(M) = most}
        least == Min({Total(distance, M) : M \in largest})
    IN \E M \in largest : /\ Total(distance, M) = least
                          /\ matches = {cell \in M : distance[cell] # MaxDistance}
=============================================================================
