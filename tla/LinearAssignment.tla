-------------------------- MODULE LinearAssignment --------------------------
(* min_cost_matching around the solver: what it gives the solver, and which
   pairs of the assignment that comes back are matches. *)
EXTENDS Assignment

CONSTANT MaxDistance   \* the limit min_cost_matching is called with

INFTY_COST == 10000

(* A cost above the limit, or not a number, becomes INFTY_COST. *)
Limited(cost) == [cell \in DOMAIN cost |-> IF cost[cell] > MaxDistance THEN INFTY_COST ELSE cost[cell]]

(* Of the assignment, the pairs below the limit are matches. *)
Accepted(cost, A) == {cell \in A : cost[cell] < MaxDistance}

(* Every matching, of any size. *)
Matchings(rows, columns) ==
  {{<<f[j], j>> : j \in {k \in 1 .. columns : f[k] # 0}} :
     f \in {g \in [1 .. columns -> 0 .. rows] :
              \A j, k \in 1 .. columns : j # k => g[j] = 0 \/ g[j] # g[k]}}
=============================================================================
