----------------------------- MODULE MCTracking -----------------------------
(* For TLC: behaviours of the tracker, and calls of min_cost_matching with the
   solver it uses on small matrices.  The tracker takes from the matching what
   OutcomesAssumption says of it, so that the two run side by side and not inside
   one another. *)
EXTENDS Tracking, Matching

VARIABLE part

MCShapes == {<<1, 1>>, <<1, 2>>, <<2, 1>>, <<2, 2>>, <<2, 3>>, <<3, 2>>, <<3, 3>>}

(* Below, at and beyond a limit of four, and negative. *)
MCEntries ==
  [shape \in MCShapes |-> IF shape = <<3, 3>> THEN {0 .. 2, {0, 3, 5}}
                          ELSE {-1 .. 2, {0, 1, 3, 4, 5}}]
MCCosts == [shape \in MCShapes |-> (-1 .. 5) \union {INFTY_COST}]

vars == <<part, trackingVars, matchingVars>>

Init ==
  /\ part \in {"tracker", "solver"}
  /\ TrackingInit /\ MatchingInit
  /\ part = "tracker" => distance = [cell \in Cells(1, 1) |-> 0]

Next ==
  \/ /\ part = "tracker" /\ (TrackingNext \/ TrackingDone)
     /\ UNCHANGED <<part, matchingVars>>
  \/ /\ part = "solver" /\ MatchingNext
     /\ UNCHANGED <<part, trackingVars>>

Spec == Init /\ [][Next]_vars
=============================================================================
