------------------------------ MODULE Munkres -------------------------------
(* The solver of utils/munkres.h, one step of solve() after another, on every
   cost matrix of the given shapes.  The entries are integers: the code works
   on doubles and takes what is within epsilon of zero for zero.  They are
   finite, as solveHungarian makes them, so replace_infinites changes nothing. *)
EXTENDS Assignment, Sequences, SequencesExt

CONSTANTS Shapes, Costs   \* the shapes <<rows, columns>> tried, and per shape the entries

(* solveHungarian does not ask for a matrix with a side of zero. *)
ASSUME SolverAssumption ==
  \A shape \in Shapes : /\ shape \in (Nat \ {0}) \X (Nat \ {0})
                        /\ Costs[shape] \subseteq Int

VARIABLES
  cost, rows, columns,  \* the matrix solve() was called with
  matrix,               \* the square working copy
  mask_matrix,          \* per cell: "NORMAL", "STAR" or "PRIME"
  row_mask, col_mask,   \* the covered rows and columns
  path,                 \* step 4: the alternating primes and stars so far
  step                  \* the step to come: minimize (-2, -1), 1 to 5, 0 when done

solverVars == <<cost, rows, columns, matrix, mask_matrix, row_mask, col_mask, path, step>>
input == <<cost, rows, columns>>

size == IF rows >= columns THEN rows ELSE columns
Index == 1 .. size
Grid == Cells(size, size)
Uncovered == {cell \in Grid : cell[1] \notin row_mask /\ cell[2] \notin col_mask}
Stars == {cell \in Grid : mask_matrix[cell] = "STAR"}
RowMajor == [k \in 1 .. size * size |-> <<((k - 1) \div size) + 1, ((k - 1) % size) + 1>>]
Before(a, b) == a[1] < b[1] \/ (a[1] = b[1] /\ a[2] <= b[2])
First(S) == CHOOSE a \in S : \A b \in S : Before(a, b)

------------------------------------------------------------------------------
(* A matrix that is not square is filled up with its largest entry. *)
Padded ==
  LET mmax == Max(Range(cost)) IN
  [cell \in Grid |-> IF cell \in DOMAIN cost THEN cost[cell] ELSE mmax]

(* Only a least value above zero is subtracted. *)
MinimizeAlongDirection(over_columns) ==
  LET line(k) == {matrix[IF over_columns THEN <<i, k>> ELSE <<k, i>>] : i \in Index}
      least == [k \in Index |-> Max({0, Min(line(k))})]
  IN [cell \in Grid |-> matrix[cell] - least[cell[IF over_columns THEN 2 ELSE 1]]]

SolverInit ==
  \E shape \in Shapes :
    /\ rows = shape[1] /\ columns = shape[2]
    /\ cost \in [Cells(rows, columns) -> Costs[shape]]
    /\ matrix = Padded
    /\ mask_matrix = [cell \in Grid |-> "NORMAL"]
    /\ row_mask = {} /\ col_mask = {} /\ path = << >> /\ step = -2

(* First along the columns when there are at least as many rows, then along
   the other direction. *)
Minimize ==
  /\ step \in {-2, -1}
  /\ matrix' = MinimizeAlongDirection((rows >= columns) = (step = -2))
  /\ step' = IF step = -2 THEN -1 ELSE 1
  /\ UNCHANGED <<input, mask_matrix, row_mask, col_mask, path>>

(* Step 1 stars zeros in row order, at most one per row and column. *)
StarZeros ==
  LET Add(starred, cell) ==
        IF matrix[cell] = 0 /\ \A s \in starred : s[1] # cell[1] /\ s[2] # cell[2]
        THEN starred \union {cell} ELSE starred
  IN FoldLeft(Add, {}, RowMajor)

Step1 ==
  /\ step = 1
  /\ LET starred == StarZeros IN
     mask_matrix' = [cell \in Grid |-> IF cell \in starred THEN "STAR" ELSE "NORMAL"]
  /\ step' = 2
  /\ UNCHANGED <<input, matrix, row_mask, col_mask, path>>

(* Step 2 covers the columns with a star; with all of them covered it is done. *)
Step2 ==
  /\ step = 2
  /\ col_mask' = {cell[2] : cell \in Stars}
  /\ step' = IF Cardinality(col_mask') >= size THEN 0 ELSE 3
  /\ UNCHANGED <<input, matrix, mask_matrix, row_mask, path>>

(* One turn of the loop of step 3: the first uncovered zero is primed. *)
Step3 ==
  /\ step = 3
  /\ LET zeros == {cell \in Uncovered : matrix[cell] = 0} IN
     IF zeros = {} THEN step' = 5 /\ UNCHANGED <<mask_matrix, row_mask, col_mask, path>>
     ELSE LET z == First(zeros)  stars == {s \in Stars : s[1] = z[1]} IN
          /\ mask_matrix' = [mask_matrix EXCEPT ![z] = "PRIME"]
          /\ IF stars = {} THEN step' = 4 /\ path' = <<z>> /\ UNCHANGED <<row_mask, col_mask>>
             ELSE /\ row_mask' = row_mask \union {z[1]}
                  /\ col_mask' = col_mask \ {First(stars)[2]}
                  /\ UNCHANGED <<step, path>>
  /\ UNCHANGED <<input, matrix>>

(* Step 4: from the prime that ends the path to the star of its column and the
   prime of that star's row; when there is no such star, the path is turned. *)
ExtendPath ==
  /\ step = 4
  /\ \E s \in Stars :
       /\ s[2] = Last(path)[2]
       /\ path' = path \o <<s, First({p \in Grid : p[1] = s[1] /\ mask_matrix[p] = "PRIME"})>>
  /\ UNCHANGED <<input, matrix, mask_matrix, row_mask, col_mask, step>>

MutantAugment ==
  /\ step = 4 /\ \A s \in Stars : s[2] # Last(path)[2]
  /\ mask_matrix' = [cell \in Grid |->
       IF (cell \in Stars) # (cell \in ToSet(path)) THEN "STAR" ELSE "NORMAL"]
  /\ col_mask' = {} /\ path' = << >> /\ step' = 2
  /\ UNCHANGED <<input, matrix, row_mask>>

Augment ==
  /\ step = 4 /\ \A s \in Stars : s[2] # Last(path)[2]
  /\ mask_matrix' = [cell \in Grid |->
       IF (cell \in Stars) # (cell \in ToSet(path)) THEN "STAR" ELSE "NORMAL"]
  /\ row_mask' = {} /\ col_mask' = {} /\ path' = << >> /\ step' = 2
  /\ UNCHANGED <<input, matrix>>

(* Step 5: the least uncovered entry, added to the covered rows and taken off
   the uncovered columns. *)
Shifted(h) ==
  [cell \in Grid |-> matrix[cell] + (IF cell[1] \in row_mask THEN h ELSE 0)
                                  - (IF cell[2] \notin col_mask THEN h ELSE 0)]

Step5 ==
  /\ step = 5
  /\ matrix' = IF Uncovered = {} THEN matrix
               ELSE Shifted(Min({matrix[cell] : cell \in Uncovered}))
  /\ step' = 3
  /\ UNCHANGED <<input, mask_matrix, row_mask, col_mask, path>>

SolverNext == Minimize \/ Step1 \/ Step2 \/ Step3 \/ ExtendPath \/ Augment \/ Step5

(* The pairs solveHungarian returns: the stars inside the original shape. *)
Solution == Stars \cap Cells(rows, columns)

SolverDone == step = 0 /\ UNCHANGED solverVars

(* A call of solve(). *)
SolverSpec == SolverInit /\ [][SolverNext \/ SolverDone]_solverVars

(* How far the solver is from its end: rows without a star, then rows not yet
   covered, then its place in the round that covers the next one. *)
Rank ==
  LET place ==
        CASE step = -2 -> 2 * size + 8
          [] step = -1 -> 2 * size + 7
          [] step = 1  -> 2 * size + 6
          [] step = 2  -> 2 * size + 5
          [] step = 3  -> 2 * size + (IF \E z \in Uncovered : matrix[z] = 0 THEN 2 ELSE 4)
          [] step = 5  -> 2 * size + 3
          [] step = 4  -> 2 * size + 1 - Len(path)
          [] step = 0  -> 0
  IN ((size - Cardinality(Stars)) * (size + 1) + size - Cardinality(row_mask))
       * (2 * size + 9) + place

(* The solver comes to an end on every matrix, also of unequal sides: every step
   brings it nearer.  What it returns is an assignment, and one of least total
   cost when no entry is negative.  (A negative entry, which the cosine distance
   of equal features can be by a rounding error, is not reduced to zero, and the
   matching found can then be worse by that much.) *)
SolvesToOptimum ==
  [][/\ 0 <= Rank' /\ Rank' < Rank
     /\ step' = 0 =>
          Solution' \in IF \A cell \in DOMAIN cost : cost[cell] >= 0
                       THEN MinimumAssignments(cost, rows, columns)
                       ELSE Assignments(rows, columns)]_solverVars
=============================================================================
