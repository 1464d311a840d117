---------------------------- MODULE Postprocess -----------------------------
(***************************************************************************)
(* The algorithms of PostprocessNode: sorting the candidates by score with *)
(* a quick sort that moves a hole, and suppressing overlapping boxes, over *)
(* all classes (deepsort_track) or class by class (yolox_detection).       *)
(* Boxes are positions of the candidate list; geometry is the relation     *)
(* "overlap above the threshold", a set of pairs.                          *)
(***************************************************************************)
EXTENDS Integers, SequencesExt

Suppressed == -1

Lowest(S)  == CHOOSE x \in S : \A y \in S : x <= y
Highest(S) == CHOOSE x \in S : \A y \in S : y <= x

(* The two inner loops: the hole moves from low to high and back.          *)
ScanHigh(v, low, high, key) == Highest({low} \cup {h \in low .. high : v[h] > key})
ScanLow(v, low, high, key)  == Lowest({high} \cup {l \in low .. high : v[l] < key})

Put(a, place, score, index) == [v  |-> [a.v EXCEPT ![place] = score],
                                ix |-> [a.ix EXCEPT ![place] = index]]
Moved(a, to, from) == Put(a, to, a.v[from], a.ix[from])

(* One round of the outer loop: the hole goes to high and back to low.     *)
Narrowed(s, key) ==
    IF s.low >= s.high THEN s
    ELSE LET h == ScanHigh(s.array.v, s.low, s.high, key)
             b == Moved(s.array, s.low, h)
             l == ScanLow(b.v, s.low, h, key)
         IN  [array |-> Moved(b, h, l), low |-> l, high |-> h]

(* Each round brings low and high closer, so that there are no more rounds *)
(* than places between them.                                               *)
MoveHole(a, low, high, key) ==
    LET round[n \in 0 .. high - low] ==
            IF n = 0 THEN [array |-> a, low |-> low, high |-> high]
            ELSE Narrowed(round[n - 1], key)
    IN  round[high - low]

(* QuickSortIndiceInverse on scores v and indices ix, in descending order: *)
(* what one call does, with inner for its two calls of itself.  A call     *)
(* that is nested deeper has a smaller part of the array.                  *)
Arrays(n) == [v : [1 .. n -> Int], ix : [1 .. n -> Int]]
Jobs(n)   == [array : Arrays(n), left : 1 .. n + 1, right : 0 .. n]
Job(a, left, right) == [array |-> a, left |-> left, right |-> right]

Partitioned(a, left, right) ==
    LET m == MoveHole(a, left, right, a.v[left])
    IN  [low |-> m.low, array |-> Put(m.array, m.low, a.v[left], a.ix[left])]

Sorted(job, inner) ==
    IF job.left >= job.right THEN job.array
    ELSE LET p == Partitioned(job.array, job.left, job.right)
         IN  inner[Job(inner[Job(p.array, job.left, p.low - 1)], p.low + 1, job.right)]

QuickSort(a, left, right) ==
    LET n == Len(a.v)
        sort[depth \in 0 .. n] ==
            IF depth = 0 THEN [job \in Jobs(n) |-> job.array]
            ELSE [job \in Jobs(n) |-> Sorted(job, sort[depth - 1])]
    IN  sort[n][Job(a, left, right)]

SortByScore(scores) ==
    QuickSort([v |-> scores, ix |-> [i \in DOMAIN scores |-> i]], 1, Len(scores))

(* One round of the outer loop of the suppression: position first against  *)
(* the later positions.  order holds box numbers or Suppressed.            *)
SuppressFrom(first, order, overlap, boxes) ==
    IF order[first] \notin boxes THEN order
    ELSE [s \in DOMAIN order |->
             IF s > first /\ order[s] \in boxes /\ {order[first], order[s]} \in overlap
             THEN Suppressed ELSE order[s]]

NmsAmong(order, overlap, boxes) ==
    LET upto[n \in 0 .. Len(order)] ==
            IF n = 0 THEN order ELSE SuppressFrom(n, upto[n - 1], overlap, boxes)
    IN  upto[Len(order)]

ApplyGlobalNms(order, overlap) == NmsAmong(order, overlap, DOMAIN order)

ApplyNmsForClass(order, overlap, classes, class) ==
    NmsAmong(order, overlap, {b \in DOMAIN classes : classes[b] = class})

(* Each class in turn.                                                     *)
ApplyNmsFilter(order, overlap, classes) ==
    LET unique == SetToSeq(ToSet(classes))
        upto[n \in 0 .. Len(unique)] ==
            IF n = 0 THEN order
            ELSE ApplyNmsForClass(upto[n - 1], overlap, classes, unique[n])
    IN  upto[Len(unique)]

-----------------------------------------------------------------------------
(* References to compare with.                                             *)

IsSorting(scores, a) ==
    /\ ToSet(a.ix) = DOMAIN scores
    /\ \A i \in DOMAIN scores : a.v[i] = scores[a.ix[i]]
    /\ \A i, j \in DOMAIN scores : i < j => a.v[i] >= a.v[j]
=============================================================================
