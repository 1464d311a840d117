----------------------------- MODULE Assignment -----------------------------
(* What an assignment solver promises: a matching of rows to columns, as large
   as the shape allows, of least total cost. *)
EXTENDS Integers, FiniteSets, FiniteSetsExt, Functions

Cells(rows, columns) == (1 .. rows) \X (1 .. columns)

Assignments(rows, columns) ==
  IF rows <= columns
  THEN {{<<i, f[i]>> : i \in 1 .. rows} : f \in Injection(1 .. rows, 1 .. columns)}
  ELSE {{<<f[j], j>> : j \in 1 .. columns} : f \in Injection(1 .. columns, 1 .. rows)}

Total(cost, A) == MapThenSumSet(LAMBDA cell : cost[cell], A)

MinimumAssignments(cost, rows, columns) ==
  LET all == Assignments(rows, columns)
      least == Min({Total(cost, A) : A \in all})
  IN {A \in all : Total(cost, A) = least}
=============================================================================
