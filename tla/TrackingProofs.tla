--------------------------- MODULE TrackingProofs ---------------------------
(* Proofs about Tracking: the reorder buffer and the tracks of the tracking
   consumers, for a video of any length, any limit of active packets, any order
   of completion and any frames that fail; and, in the second half, about
   Munkres: the solver, for matrices of any shape and any integer entries. *)
EXTENDS Tracking, Munkres, Loops, FiniteSetTheorems, TLAPS

(* What InOrder needs to be inductive: the types of what it compares, that the
   stage survives the updates of `frame`, and that the frame in work is the one
   expected, taken out of the buffer. *)
Working == frame.stage \in {"cascade", "update"}

OrderInv ==
  /\ "stage" \in DOMAIN frame
  /\ frame.stage \in {"idle", "reorder", "cascade", "update"}
  /\ frame = Idle <=> frame.stage = "idle"
  /\ expected_frame_id_ \in Nat
  /\ reorder_buffer_ \subseteq Int
  /\ Working => expected_frame_id_ \notin reorder_buffer_
  /\ InOrder

(* Nothing has arrived and nothing is expected but frame 0. *)
LEMMA InitOrder ==
  ASSUME TrackingInit
  PROVE  OrderInv
  BY DEF TrackingInit, OrderInv, InOrder, Idle, Working

(* What a level of the cascade and the second round leave alone. *)
LEMMA MatchingOrder ==
  ASSUME OrderInv, CascadeLevel \/ IouMatching
  PROVE  OrderInv'
<1>1. UNCHANGED consumerVars
  BY DEF CascadeLevel, IouMatching
<1>2. frame.stage = "cascade" /\ "stage" \in DOMAIN frame' /\ frame'.stage \in {"cascade", "update"}
  <2>1. CASE CascadeLevel
    BY <2>1 DEF CascadeLevel, OrderInv
  <2>2. CASE IouMatching
    BY <2>2 DEF IouMatching
  <2> QED
    BY <2>1, <2>2
<1> QED
  BY <1>1, <1>2 DEF OrderInv, InOrder, Working, consumerVars, Idle

(* A frame comes into the buffer; it is not one already written. *)
LEMMA ConsumeOrder ==
  ASSUME OrderInv, NEW f \in 0 .. Frames - 1, Consume(f)
  PROVE  OrderInv'
<1>1. frame.stage = "idle" /\ frame'.stage = "reorder" /\ "stage" \in DOMAIN frame'
  BY DEF Consume, OrderInv, Idle
<1>2. /\ f \in Nat /\ f \notin arrived
      /\ arrived' = arrived \union {f} /\ reorder_buffer_' = reorder_buffer_ \union {f}
      /\ UNCHANGED <<written, expected_frame_id_>>
  BY TrackingAssumption DEF Consume, InGraph
<1>3. f >= expected_frame_id_
  BY <1>1, <1>2 DEF OrderInv, InOrder
<1>4. InOrder'
  BY <1>1, <1>2, <1>3 DEF OrderInv, InOrder, Idle
<1> QED
  BY <1>1, <1>2, <1>4 DEF OrderInv, Idle, Working

(* consume returns when the expected frame is not there. *)
LEMMA ReturnOrder ==
  ASSUME OrderInv, ConsumeReturns
  PROVE  OrderInv'
  BY DEF OrderInv, InOrder, ConsumeReturns, NextInBuffer, consumerVars, Idle, Working

(* The expected frame leaves the buffer for the tracker. *)
LEMMA ProcessOrder ==
  ASSUME OrderInv, ProcessSequentialFrame
  PROVE  OrderInv'
<1>1. frame.stage = "reorder" /\ frame'.stage = "cascade" /\ "stage" \in DOMAIN frame'
  BY DEF ProcessSequentialFrame
<1>2. /\ expected_frame_id_ \in reorder_buffer_
      /\ reorder_buffer_' = reorder_buffer_ \ {expected_frame_id_}
      /\ UNCHANGED <<arrived, written, expected_frame_id_>>
  BY DEF ProcessSequentialFrame, NextInBuffer
<1>3. InOrder'
  BY <1>1, <1>2 DEF OrderInv, InOrder, Idle
<1> QED
  BY <1>1, <1>2, <1>3 DEF OrderInv, Idle, Working

(* It is written, and the next one is expected. *)
LEMMA UpdateOrder ==
  ASSUME OrderInv, UpdateTracks
  PROVE  OrderInv'
<1>1. frame.stage = "update" /\ frame'.stage = "reorder" /\ "stage" \in DOMAIN frame'
  BY DEF UpdateTracks
<1>2. /\ written' = Append(written, expected_frame_id_)
      /\ expected_frame_id_' = expected_frame_id_ + 1
      /\ UNCHANGED <<arrived, reorder_buffer_>>
  BY DEF UpdateTracks
<1>3. expected_frame_id_ \in Nat /\ expected_frame_id_ \notin reorder_buffer_
      /\ reorder_buffer_ \subseteq Int
  BY <1>1 DEF OrderInv, Working
<1>4. written' = [i \in 1 .. expected_frame_id_' |-> i - 1]
  BY <1>2, <1>3 DEF OrderInv, InOrder
<1>5. arrived' = (0 .. expected_frame_id_' - 1) \union reorder_buffer_'
  BY <1>1, <1>2, <1>3 DEF OrderInv, InOrder
<1>6. \A f \in reorder_buffer_' : f >= expected_frame_id_'
  BY <1>2, <1>3 DEF OrderInv, InOrder
<1> QED
  BY <1>1, <1>2, <1>3, <1>4, <1>5, <1>6 DEF OrderInv, InOrder, Idle, Working

(* Every step of the consumer keeps the invariant. *)
LEMMA StepOrder ==
  ASSUME OrderInv, [TrackingNext \/ TrackingDone]_trackingVars
  PROVE  OrderInv'
<1>1. CASE \E f \in 0 .. Frames - 1 : Consume(f)
  BY <1>1, ConsumeOrder
<1>2. CASE \E f \in 0 .. Frames - 1 : Drop(f)
  BY <1>2 DEF Drop, OrderInv, InOrder, Working
<1>3. CASE ConsumeReturns
  BY <1>3, ReturnOrder
<1>4. CASE ProcessSequentialFrame
  BY <1>4, ProcessOrder
<1>5. CASE CascadeLevel \/ IouMatching
  BY <1>5, MatchingOrder
<1>6. CASE UpdateTracks
  BY <1>6, UpdateOrder
<1>7. CASE TrackingDone \/ UNCHANGED trackingVars
  BY <1>7 DEF TrackingDone, trackingVars, consumerVars, OrderInv, InOrder, Working
<1> QED
  BY <1>1, <1>2, <1>3, <1>4, <1>5, <1>6, <1>7 DEF TrackingNext, Tracker

(* The tracker and the writer get the frames in order, without gap and each
   once, and a frame waits in the buffer exactly while an earlier one is
   missing (ResultConsumer::consume). *)
THEOREM OrderCorrect == TrackingSpec => []InOrder
<1>1. TrackingInit => OrderInv
  BY InitOrder
<1>2. OrderInv /\ [TrackingNext \/ TrackingDone]_trackingVars => OrderInv'
  BY StepOrder
<1>3. OrderInv => InOrder
  BY DEF OrderInv
<1> QED
  BY <1>1, <1>2, <1>3, PTL DEF TrackingSpec
------------------------------------------------------------------------------
(* Choosing from a sequence.  Within(s, S) takes the elements of s that are in S,
   in the order of s: e says where each comes from. *)
Picks(r, e, n, s, S) ==
  /\ e \in [1 .. Len(r) -> 1 .. n]
  /\ \A k \in 1 .. Len(r) : r[k] = s[e[k]] /\ s[e[k]] \in S
  /\ \A j, k \in 1 .. Len(r) : j < k => e[j] < e[k]
  /\ \A i \in 1 .. n : s[i] \in S => \E k \in 1 .. Len(r) : e[k] = i

(* By induction over the length of s. *)
LEMMA WithinPicks ==
  ASSUME NEW T, NEW s \in Seq(T), NEW S
  PROVE  Within(s, S) \in Seq(T) /\ \E e : Picks(Within(s, S), e, Len(s), s, S)
<1> DEFINE Round(g, n) == IF s[n] \in S THEN Append(g[n - 1], s[n]) ELSE g[n - 1]
           Runs(g) == g = [n \in 0 .. Len(s) |-> IF n = 0 THEN << >> ELSE Round(g, n)]
           upto == CHOOSE g : Runs(g)
<1>1. Within(s, S) = upto[Len(s)]
  BY DEF Within
<1>2. \E g : Runs(g)
  <2>1. PICK Q : Q = Seq(T)
    OBVIOUS
  <2>2. PICK N \in Nat : N = Len(s)
    OBVIOUS
  <2>3. PICK base \in Q : base = << >>
    <3>1. << >> \in Q
      BY <2>1
    <3> QED
      BY <3>1
  <2>4. PICK turn \in [1 .. N -> [Q -> Q]] :
           \A n \in 1 .. N, q \in Q : turn[n][q] = IF s[n] \in S THEN Append(q, s[n]) ELSE q
    <3> DEFINE st == [n \in 1 .. N |-> [q \in Q |-> IF s[n] \in S THEN Append(q, s[n]) ELSE q]]
    <3>1. st \in [1 .. N -> [Q -> Q]]
      BY <2>1, <2>2
    <3> QED
      BY <3>1
  <2> HIDE DEF Runs, upto
  <2>5. PICK f \in [0 .. N -> Q] : f[0] = base /\ \A n \in 1 .. N : f[n] = turn[n][f[n - 1]]
    BY Iteration, SMTT(60)
  <2>6. ASSUME NEW n \in 0 .. N PROVE f[n] = IF n = 0 THEN base ELSE Round(f, n)
    <3>1. CASE n = 0
      BY <2>5, <3>1
    <3>2. CASE n # 0
      <4>1. n \in 1 .. N /\ n - 1 \in 0 .. N
        BY <3>2
      <4> QED
        BY <2>4, <2>5, <3>2, <4>1
    <3> QED
      BY <3>1, <3>2
  <2>7. f = [n \in 0 .. N |-> IF n = 0 THEN base ELSE Round(f, n)]
    BY <2>6
  <2> QED
    BY <2>2, <2>3, <2>7 DEF Runs
<1>3. Runs(upto)
  <2> HIDE DEF Runs
  <2> QED
    BY <1>2
<1> HIDE DEF upto
<1> DEFINE P == {n \in Nat : n <= Len(s) =>
                   upto[n] \in Seq(T) /\ \E e : Picks(upto[n], e, n, s, S)}
<1>4. 0 \in P
  <2>1. upto[0] = << >>
    BY <1>3
  <2>2. Picks(<< >>, << >>, 0, s, S)
    BY DEF Picks
  <2>3. upto[0] \in Seq(T) /\ \E e : Picks(upto[0], e, 0, s, S)
    BY <2>1, <2>2
  <2> QED
    BY <2>3
<1>5. ASSUME NEW n \in Nat, n \in P PROVE n + 1 \in P
  <2> SUFFICES ASSUME n + 1 <= Len(s)
               PROVE  upto[n + 1] \in Seq(T) /\ \E e : Picks(upto[n + 1], e, n + 1, s, S)
    OBVIOUS
  <2>1. upto[n] \in Seq(T)
    BY <1>5
  <2>2. PICK e : Picks(upto[n], e, n, s, S)
    BY <1>5
  <2>4. upto[n + 1] = IF s[n + 1] \in S THEN Append(upto[n], s[n + 1]) ELSE upto[n]
    <3>1. n + 1 \in 0 .. Len(s) /\ n + 1 # 0 /\ (n + 1) - 1 = n
      OBVIOUS
    <3>2. upto[n + 1] = Round(upto, n + 1)
      BY <1>3, <3>1
    <3> QED
      BY <3>1, <3>2
  <2> DEFINE r == upto[n]
             m == Len(r)
  <2> HIDE DEF P, Runs
  <2>5. CASE s[n + 1] \notin S
    <3>1. upto[n + 1] = r /\ \A i \in 1 .. n + 1 : s[i] \in S => i \in 1 .. n
      BY <2>4, <2>5
    <3> HIDE DEF r
    <3>2. e \in [1 .. Len(r) -> 1 .. n]
      BY <2>2 DEF Picks, r
    <3>3. e \in [1 .. Len(r) -> 1 .. n + 1]
      BY <3>2
    <3>4. Picks(r, e, n + 1, s, S)
      BY <2>2, <3>1, <3>3 DEF Picks, r
    <3> QED
      BY <2>1, <3>1, <3>4 DEF r
  <2>6. CASE s[n + 1] \in S
    <3>1. s[n + 1] \in T /\ upto[n + 1] = Append(r, s[n + 1])
      BY <2>4, <2>6
    <3> DEFINE q == Append(r, s[n + 1])
               d == [k \in 1 .. m + 1 |-> IF k = m + 1 THEN n + 1 ELSE e[k]]
    <3>2. q \in Seq(T) /\ Len(q) = m + 1 /\ q[m + 1] = s[n + 1] /\ \A k \in 1 .. m : q[k] = r[k]
      BY <2>1, <3>1
    <3>3. m \in Nat
      BY <2>1
    <3>4. /\ e \in [1 .. m -> 1 .. n]
          /\ \A k \in 1 .. m : r[k] = s[e[k]] /\ s[e[k]] \in S
          /\ \A j, k \in 1 .. m : j < k => e[j] < e[k]
      BY <2>2 DEF Picks
    <3>5. d \in [1 .. m + 1 -> 1 .. n + 1]
      BY <3>3, <3>4
    <3> HIDE DEF r, m
    <3>0. d[m + 1] = n + 1 /\ \A k \in 1 .. m : d[k] = e[k] /\ d[k] \in 1 .. n
      BY <3>3, <3>4
    <3> HIDE DEF d, q
    <3>6. \A k \in 1 .. m + 1 : q[k] = s[d[k]] /\ s[d[k]] \in S
      <4> SUFFICES ASSUME NEW k \in 1 .. m + 1 PROVE q[k] = s[d[k]] /\ s[d[k]] \in S
        OBVIOUS
      <4>1. CASE k = m + 1
        BY <2>6, <3>0, <3>2, <4>1
      <4>2. CASE k \in 1 .. m
        BY <3>0, <3>2, <3>4, <4>2
      <4> QED
        BY <3>3, <4>1, <4>2
    <3>7. \A j, k \in 1 .. m + 1 : j < k => d[j] < d[k]
      <4> SUFFICES ASSUME NEW j \in 1 .. m + 1, NEW k \in 1 .. m + 1, j < k PROVE d[j] < d[k]
        OBVIOUS
      <4>1. j \in 1 .. m /\ (k = m + 1 \/ k \in 1 .. m)
        BY <3>3
      <4> QED
        BY <3>0, <3>4, <4>1
    <3>8. \A i \in 1 .. n + 1 : s[i] \in S => \E k \in 1 .. m + 1 : d[k] = i
      <4> SUFFICES ASSUME NEW i \in 1 .. n + 1, s[i] \in S PROVE \E k \in 1 .. m + 1 : d[k] = i
        OBVIOUS
      <4>1. CASE i = n + 1
        BY <3>0, <3>3, <4>1
      <4>2. CASE i \in 1 .. n
        <5>1. PICK k \in 1 .. m : e[k] = i
          BY <2>2, <4>2 DEF Picks, r, m
        <5> QED
          BY <3>0, <3>3, <5>1
      <4> QED
        BY <4>1, <4>2
    <3>9. Picks(q, d, n + 1, s, S)
      BY <3>2, <3>5, <3>6, <3>7, <3>8 DEF Picks
    <3> QED
      BY <3>1, <3>2, <3>9 DEF q, r
  <2> QED
    BY <2>5, <2>6
<1>6. Len(s) \in P
  <2> HIDE DEF P
  <2>1. Len(s) \in Nat
    OBVIOUS
  <2> QED
    BY <1>4, <1>5, <2>1, Induction
<1> QED
  BY <1>1, <1>6

(* What the choice contains, and that an index sequence without repetition stays
   one. *)
LEMMA WithinFacts ==
  ASSUME NEW T, NEW s \in Seq(T), NEW S
  PROVE  /\ Within(s, S) \in Seq(T)
         /\ ToSet(Within(s, S)) = ToSet(s) \intersect S
         /\ IsInjective(s) => IsInjective(Within(s, S))
<1> DEFINE r == Within(s, S)
<1>1. r \in Seq(T) /\ \E e : Picks(r, e, Len(s), s, S)
  BY WithinPicks
<1>2. PICK e : Picks(r, e, Len(s), s, S)
  BY <1>1
<1> HIDE DEF r
<1>3. DOMAIN s = 1 .. Len(s) /\ DOMAIN r = 1 .. Len(r)
  BY <1>1
<1>4. ToSet(r) = ToSet(s) \intersect S
  <2>1. ASSUME NEW x \in ToSet(r) PROVE x \in ToSet(s) \intersect S
    BY <1>2, <1>3, <2>1 DEF ToSet, Picks
  <2>2. ASSUME NEW x \in ToSet(s) \intersect S PROVE x \in ToSet(r)
    <3>1. PICK i \in 1 .. Len(s) : s[i] = x
      BY <1>3 DEF ToSet
    <3>2. PICK k \in 1 .. Len(r) : e[k] = i
      BY <1>2, <2>2, <3>1 DEF Picks
    <3>3. r[k] = x
      BY <1>2, <3>1, <3>2 DEF Picks
    <3> QED
      BY <1>3, <3>3 DEF ToSet
  <2> QED
    BY <2>1, <2>2
<1>5. ASSUME IsInjective(s) PROVE IsInjective(r)
  <2> SUFFICES ASSUME NEW j \in 1 .. Len(r), NEW k \in 1 .. Len(r), r[j] = r[k] PROVE j = k
    BY <1>3 DEF IsInjective
  <2>1. e[j] \in 1 .. Len(s) /\ e[k] \in 1 .. Len(s) /\ s[e[j]] = s[e[k]]
    BY <1>2 DEF Picks
  <2>2. e[j] = e[k]
    BY <1>3, <1>5, <2>1 DEF IsInjective
  <2>3. ~ (j < k) /\ ~ (k < j)
    BY <1>2, <2>1, <2>2 DEF Picks
  <2> QED
    BY <1>1, <2>3
<1> QED
  BY <1>1, <1>4, <1>5 DEF r

(* The same for what was not used. *)
LEMMA WithoutFacts ==
  ASSUME NEW T, NEW s \in Seq(T), NEW used
  PROVE  /\ Without(s, used) \in Seq(T)
         /\ ToSet(Without(s, used)) = ToSet(s) \ used
         /\ IsInjective(s) => IsInjective(Without(s, used))
  BY WithinFacts DEF Without

(* All the indices up to n. *)
LEMMA UptoFacts ==
  ASSUME NEW n \in Nat
  PROVE  Upto(n) \in Seq(1 .. n) /\ ToSet(Upto(n)) = 1 .. n /\ IsInjective(Upto(n))
  BY DEF Upto, ToSet, IsInjective

(* min_cost_matching, whatever the costs: matches are pairs of the indices it was
   given, each used at most once, and what is left of them is returned. *)
LEMMA MatchingFacts ==
  ASSUME NEW R, NEW C, NEW indices \in Seq(R), NEW detections \in Seq(C),
         IsInjective(indices), IsInjective(detections),
         NEW result \in MinCostMatching(indices, detections)
  PROVE  /\ \A m \in result.matches : m = <<m[1], m[2]>> /\ m[1] \in ToSet(indices) /\ m[2] \in ToSet(detections)
         /\ \A m, n \in result.matches : m[1] = n[1] <=> m[2] = n[2]
         /\ result.unmatched_tracks \in Seq(R)
         /\ ToSet(result.unmatched_tracks) = ToSet(indices) \ {m[1] : m \in result.matches}
         /\ result.unmatched_detections \in Seq(C)
         /\ ToSet(result.unmatched_detections) = ToSet(detections) \ {m[2] : m \in result.matches}
         /\ IsInjective(result.unmatched_detections)
<1> DEFINE used(M) == {indices[m[1]] : m \in M}
           taken(M) == {detections[m[2]] : m \in M}
<1>1. PICK M \in Matchings(Len(indices), Len(detections)) :
        result = [matches |-> {<<indices[m[1]], detections[m[2]]>> : m \in M},
                  unmatched_tracks |-> Without(indices, used(M)),
                  unmatched_detections |-> Without(detections, taken(M))]
  BY Zenon DEF MinCostMatching
<1>2. PICK f \in [1 .. Len(detections) -> 0 .. Len(indices)] :
        /\ M = {<<f[j], j>> : j \in {k \in 1 .. Len(detections) : f[k] # 0}}
        /\ \A j, k \in 1 .. Len(detections) : j # k => f[j] = 0 \/ f[j] # f[k]
  BY <1>1 DEF Matchings
<1> DEFINE on == {k \in 1 .. Len(detections) : f[k] # 0}
<1>3. /\ result.matches = {<<indices[f[j]], detections[j]>> : j \in on}
      /\ used(M) = {indices[f[j]] : j \in on}
      /\ taken(M) = {detections[j] : j \in on}
  <2>1. /\ \A m \in M : \E j \in on : m = <<f[j], j>>
        /\ \A j \in on : <<f[j], j>> \in M
    BY <1>2
  <2>2. result.matches = {<<indices[m[1]], detections[m[2]]>> : m \in M}
    BY <1>1
  <2> HIDE DEF on
  <2>3. ASSUME NEW m \in M
        PROVE  \E j \in on : indices[m[1]] = indices[f[j]] /\ detections[m[2]] = detections[j]
    BY <2>1
  <2>4. ASSUME NEW j \in on
        PROVE  \E m \in M : indices[m[1]] = indices[f[j]] /\ detections[m[2]] = detections[j]
    <3>1. <<f[j], j>> \in M
      BY <2>1
    <3> QED
      BY <3>1
  <2>5. {indices[m[1]] : m \in M} = {indices[f[j]] : j \in on}
    BY <2>3, <2>4
  <2>6. {detections[m[2]] : m \in M} = {detections[j] : j \in on}
    BY <2>3, <2>4, SMTT(60)
  <2>7. {<<indices[m[1]], detections[m[2]]>> : m \in M} = {<<indices[f[j]], detections[j]>> : j \in on}
    <3>1. \A m \in M : \E j \in on : <<indices[m[1]], detections[m[2]]>> = <<indices[f[j]], detections[j]>>
      BY <2>3
    <3>2. \A j \in on : \E m \in M : <<indices[m[1]], detections[m[2]]>> = <<indices[f[j]], detections[j]>>
      BY <2>4
    <3> DEFINE found(m) == <<indices[m[1]], detections[m[2]]>>
               chosen(j) == <<indices[f[j]], detections[j]>>
    <3>3. (\A m \in M : \E j \in on : found(m) = chosen(j)) /\ (\A j \in on : \E m \in M : found(m) = chosen(j))
      BY <3>1, <3>2
    <3> HIDE DEF found, chosen
    <3>4. {found(m) : m \in M} = {chosen(j) : j \in on}
      BY <3>3
    <3> QED
      BY <3>4 DEF found, chosen
  <2> QED
    BY <2>2, <2>5, <2>6, <2>7
<1>4. DOMAIN indices = 1 .. Len(indices) /\ DOMAIN detections = 1 .. Len(detections)
  OBVIOUS
<1>5. \A j \in on : j \in DOMAIN detections /\ f[j] \in DOMAIN indices
  BY <1>2, <1>4
<1>6. \A j, k \in on : f[j] = f[k] => j = k
  BY <1>2
<1> HIDE DEF on
<1>7. \A j, k \in on : indices[f[j]] = indices[f[k]] <=> detections[j] = detections[k]
  BY <1>5, <1>6 DEF IsInjective
<1>8. used(M) = {m[1] : m \in result.matches} /\ taken(M) = {m[2] : m \in result.matches}
  <2> HIDE DEF used, taken
  <2>1. ASSUME NEW m \in result.matches PROVE \E j \in on : m[1] = indices[f[j]] /\ m[2] = detections[j]
    BY <1>3
  <2>2. ASSUME NEW j \in on PROVE \E m \in result.matches : m[1] = indices[f[j]] /\ m[2] = detections[j]
    <3>1. <<indices[f[j]], detections[j]>> \in result.matches
      BY <1>3
    <3> QED
      BY <3>1
  <2>3. {indices[f[j]] : j \in on} = {m[1] : m \in result.matches}
    BY <2>1, <2>2
  <2>4. {detections[j] : j \in on} = {m[2] : m \in result.matches}
    BY <2>1, <2>2
  <2> QED
    BY <1>3, <2>3, <2>4
<1>9. \A m, n \in result.matches : m[1] = n[1] <=> m[2] = n[2]
  BY <1>3, <1>7
<1>10. \A m \in result.matches : m = <<m[1], m[2]>> /\ m[1] \in ToSet(indices) /\ m[2] \in ToSet(detections)
  BY <1>3, <1>5 DEF ToSet
<1> HIDE DEF used, taken
<1>11. /\ result.unmatched_tracks = Without(indices, used(M))
       /\ result.unmatched_detections = Without(detections, taken(M))
  BY <1>1
<1> QED
  BY <1>8, <1>9, <1>10, <1>11, WithoutFacts

------------------------------------------------------------------------------
(* The tracker.  The types of its tracks and of the frame in work. *)
Track == [id : Nat, hits : Nat, age : Nat, time_since_update : Nat,
          state : {"Tentative", "Confirmed", "Deleted"}, feature : Nat \X Nat]

Pairs == SUBSET (Nat \X Nat)
Indices == Seq(Nat)

CascadeFrame == [stage : {"cascade"}, detections : Nat, level : Nat,
                 matches : Pairs, unmatched_detections : Indices]

UpdateFrame == [stage : {"update"}, detections : Nat, matches : Pairs,
                unmatched_tracks_a : Indices, unmatched_tracks_b : Indices,
                unmatched_detections : Indices]

FrameInWork == [stage : {"idle", "reorder"}] \union CascadeFrame \union UpdateFrame

TypeInv ==
  /\ tracks_ \in Seq(Track) /\ next_id_ \in Nat /\ expected_frame_id_ \in Nat
  /\ frame \in FrameInWork

(* The ids are given out in order and each once. *)
IdInv ==
  /\ \A i \in DOMAIN tracks_ : tracks_[i].id < next_id_
  /\ \A i, j \in DOMAIN tracks_ : tracks_[i].id = tracks_[j].id => i = j

(* A track between frames, and while the frame it has been predicted into is in
   work. *)
Alive(t) ==
  \/ /\ t.state = "Tentative" /\ t.time_since_update = 0
     /\ t.hits = t.age /\ t.hits > 0 /\ t.hits < n_init_
  \/ /\ t.state = "Confirmed" /\ t.time_since_update <= max_age_
     /\ t.hits >= n_init_ /\ t.age >= n_init_

Waiting(t) ==
  \/ /\ t.state = "Tentative" /\ t.time_since_update = 1
     /\ t.hits + 1 = t.age /\ t.hits > 0 /\ t.hits < n_init_
  \/ /\ t.state = "Confirmed" /\ t.time_since_update \in 1 .. max_age_ + 1
     /\ t.hits >= n_init_ /\ t.age > n_init_

LifeInv == \A i \in DOMAIN tracks_ : IF Working THEN Waiting(tracks_[i]) ELSE Alive(tracks_[i])

(* The gallery: copies of the birth feature, one per frame since the track was
   confirmed, up to the budget. *)
Copies(feature, life) == [k \in 1 .. Min({nn_budget_, life}) |-> feature]

GalleryInv ==
  /\ DOMAIN samples = {tracks_[i].id : i \in {j \in DOMAIN tracks_ : IsConfirmed(tracks_[j])}}
  /\ \A i \in DOMAIN tracks_ :
       IsConfirmed(tracks_[i]) =>
         samples[tracks_[i].id] =
           Copies(tracks_[i].feature, tracks_[i].age + (IF Working THEN 0 ELSE 1) - n_init_)

(* The matches so far are between tracks and detections of this frame.  Those of
   the cascade are of confirmed tracks, of the levels that are done: no later
   level meets them again.  When update goes on, every track without a match is
   on one of the two lists of unmatched tracks, in the way that has it marked as
   missed, and no track with one is on the second. *)
MatchInv ==
  /\ Working => /\ \A m \in frame.matches : m[1] \in DOMAIN tracks_ /\ m[2] \in 1 .. frame.detections
                /\ UsedOnce
  /\ frame.stage = "cascade" =>
       \A m \in frame.matches :
         IsConfirmed(tracks_[m[1]]) /\ tracks_[m[1]].time_since_update <= frame.level
  /\ frame.stage = "update" =>
       /\ ToSet(frame.unmatched_tracks_b) \intersect MatchedTracks = {}
       /\ \A i \in DOMAIN tracks_ \ MatchedTracks :
            \/ i \in ToSet(frame.unmatched_tracks_b)
            \/ i \in ToSet(frame.unmatched_tracks_a) /\ tracks_[i].time_since_update > 1

TrackInv == TypeInv /\ IdInv /\ LifeInv /\ GalleryInv /\ MatchInv

(* What the stage says of the record. *)
LEMMA FrameFacts ==
  ASSUME TypeInv
  PROVE  /\ frame.stage \in {"idle", "reorder", "cascade", "update"}
         /\ frame.stage \in {"idle", "reorder"} => frame \in [stage : {"idle", "reorder"}]
         /\ frame.stage = "cascade" =>
              /\ frame \in CascadeFrame /\ frame.detections \in Nat /\ frame.level \in Nat
              /\ frame.matches \in Pairs /\ frame.unmatched_detections \in Seq(Nat)
         /\ frame.stage = "update" =>
              /\ frame \in UpdateFrame /\ frame.detections \in Nat /\ frame.matches \in Pairs
              /\ frame.unmatched_tracks_a \in Seq(Nat) /\ frame.unmatched_tracks_b \in Seq(Nat)
              /\ frame.unmatched_detections \in Seq(Nat)
<1>1. CASE frame \in [stage : {"idle", "reorder"}]
  BY <1>1
<1>2. CASE frame \in CascadeFrame
  BY <1>2 DEF CascadeFrame, Indices
<1>3. CASE frame \in UpdateFrame
  BY <1>3 DEF UpdateFrame, Indices
<1> QED
  BY <1>1, <1>2, <1>3 DEF TypeInv, FrameInWork

(* There is no track yet. *)
LEMMA InitTrack ==
  ASSUME TrackingInit
  PROVE  TrackInv
<1>1. /\ tracks_ = << >> /\ next_id_ = 1 /\ samples = << >> /\ expected_frame_id_ = 0
      /\ frame = [stage |-> "idle"]
  BY DEF TrackingInit, Idle
<1>2. DOMAIN tracks_ = {} /\ DOMAIN samples = {}
  BY <1>1
<1> QED
  BY <1>1, <1>2 DEF TrackInv, TypeInv, IdInv, LifeInv, GalleryInv, MatchInv, Working, FrameInWork

(* The reorder buffer's own steps leave the tracker alone. *)
LEMMA QuietTrack ==
  ASSUME TrackInv, frame.stage \in {"idle", "reorder"},
         frame' \in [stage : {"idle", "reorder"}], UNCHANGED trackerVars,
         expected_frame_id_' = expected_frame_id_
  PROVE  TrackInv'
  BY DEF TrackInv, TypeInv, IdInv, LifeInv, GalleryInv, MatchInv, Working, FrameInWork, trackerVars

(* A prediction, on the fields. *)
LEMMA PredictedFacts ==
  ASSUME NEW t \in Track
  PROVE  /\ Predicted(t) \in Track
         /\ Predicted(t).id = t.id /\ Predicted(t).feature = t.feature
         /\ Predicted(t).state = t.state /\ Predicted(t).age = t.age + 1
         /\ Alive(t) => Waiting(Predicted(t))
<1> DEFINE u == [t EXCEPT !.age = @ + 1]
           p == [u EXCEPT !.time_since_update = t.time_since_update + 1]
<1>1. /\ u \in Track /\ u.time_since_update = t.time_since_update /\ u.age = t.age + 1
      /\ u.id = t.id /\ u.feature = t.feature /\ u.state = t.state /\ u.hits = t.hits
  BY DEF Track
<1>2. Predicted(t) = p
  BY DEF Predicted, Track
<1> HIDE DEF u
<1>3. /\ p \in Track /\ p.time_since_update = t.time_since_update + 1 /\ p.age = u.age
      /\ p.id = u.id /\ p.feature = u.feature /\ p.state = u.state /\ p.hits = u.hits
  BY <1>1 DEF Track
<1> HIDE DEF p
<1>4. t.hits \in Nat /\ t.age \in Nat /\ t.time_since_update \in Nat
  BY DEF Track
<1>5. Alive(t) => Waiting(p)
  BY <1>1, <1>3, <1>4, TrackingAssumption DEF Alive, Waiting
<1> QED
  BY <1>1, <1>2, <1>3, <1>5

(* Every track is predicted, and no detection has been used. *)
LEMMA ProcessTrack ==
  ASSUME TrackInv, ProcessSequentialFrame
  PROVE  TrackInv'
<1>1. /\ frame.stage = "reorder" /\ UNCHANGED <<next_id_, samples, expected_frame_id_>>
      /\ tracks_' = [i \in DOMAIN tracks_ |-> Predicted(tracks_[i])]
  BY DEF ProcessSequentialFrame
<1>2. PICK n \in Nat :
        frame' = [stage |-> "cascade", detections |-> n, level |-> 0,
                  matches |-> {}, unmatched_detections |-> Upto(n)]
  <2>1. 0 .. MaxDetections \subseteq Nat
    BY TrackingAssumption
  <2>2. \E n \in 0 .. MaxDetections :
          frame' = [stage |-> "cascade", detections |-> n, level |-> 0,
                    matches |-> {}, unmatched_detections |-> Upto(n)]
    BY DEF ProcessSequentialFrame
  <2> QED
    BY <2>1, <2>2
<1>3. /\ tracks_ \in Seq(Track) /\ DOMAIN tracks_ = 1 .. Len(tracks_)
      /\ \A i \in DOMAIN tracks_ : tracks_[i] \in Track
  BY DEF TrackInv, TypeInv
<1>4. ASSUME NEW i \in DOMAIN tracks_
      PROVE  /\ Predicted(tracks_[i]) \in Track
             /\ Predicted(tracks_[i]).id = tracks_[i].id
             /\ Predicted(tracks_[i]).feature = tracks_[i].feature
             /\ Predicted(tracks_[i]).state = tracks_[i].state
             /\ Predicted(tracks_[i]).age = tracks_[i].age + 1
             /\ Alive(tracks_[i]) => Waiting(Predicted(tracks_[i]))
  BY <1>3, PredictedFacts
<1>5. DOMAIN tracks_' = DOMAIN tracks_ /\ \A i \in DOMAIN tracks_ : tracks_'[i] = Predicted(tracks_[i])
  BY <1>1
<1>6. TypeInv'
  <2>1. tracks_' \in Seq(Track)
    BY <1>1, <1>3, <1>4
  <2>2. Upto(n) \in Seq(Nat)
    BY DEF Upto
  <2> QED
    BY <1>1, <1>2, <2>1, <2>2 DEF TrackInv, TypeInv, FrameInWork, CascadeFrame, Pairs, Indices
<1>7. IdInv'
  BY <1>1, <1>4, <1>5 DEF TrackInv, IdInv
<1>8. ~ Working /\ Working'
  BY <1>1, <1>2 DEF Working
<1>9. LifeInv'
  BY <1>4, <1>5, <1>8 DEF TrackInv, LifeInv
<1>10. GalleryInv'
  <2>1. DOMAIN samples' = {tracks_'[i].id : i \in {j \in DOMAIN tracks_' : IsConfirmed(tracks_'[j])}}
    BY <1>1, <1>4, <1>5 DEF TrackInv, GalleryInv, IsConfirmed
  <2>2. ASSUME NEW i \in DOMAIN tracks_, IsConfirmed(tracks_'[i])
        PROVE  samples'[tracks_'[i].id] = Copies(tracks_'[i].feature, tracks_'[i].age + 0 - n_init_)
    <3>1. tracks_[i].age + 1 - n_init_ = tracks_'[i].age + 0 - n_init_
      <4>1. tracks_[i].age \in Nat /\ n_init_ \in Nat
        BY <1>3, TrackingAssumption DEF Track
      <4>2. tracks_'[i].age = tracks_[i].age + 1
        BY <1>4, <1>5
      <4> QED
        BY <4>1, <4>2
    <3> QED
      BY <1>1, <1>4, <1>5, <1>8, <2>2, <3>1 DEF TrackInv, GalleryInv, IsConfirmed
  <2> QED
    BY <1>5, <1>8, <2>1, <2>2 DEF GalleryInv
<1>11. MatchInv'
  BY <1>2, UptoFacts DEF MatchInv, UsedOnce
<1> QED
  BY <1>6, <1>7, <1>9, <1>10, <1>11 DEF TrackInv
(* The lists of track indices update works with. *)
LEMMA IndexFacts ==
  ASSUME TypeInv
  PROVE  /\ DOMAIN tracks_ = 1 .. Len(tracks_) /\ DOMAIN tracks_ \subseteq Nat
         /\ Confirmed \in Seq(Nat) /\ IsInjective(Confirmed)
         /\ ToSet(Confirmed) = {i \in DOMAIN tracks_ : IsConfirmed(tracks_[i])}
         /\ Unconfirmed \in Seq(Nat) /\ IsInjective(Unconfirmed)
         /\ ToSet(Unconfirmed) = {i \in DOMAIN tracks_ : ~ IsConfirmed(tracks_[i])}
<1> DEFINE n == Len(tracks_)
<1>1. n \in Nat /\ DOMAIN tracks_ = 1 .. n
  BY DEF TypeInv
<1> HIDE DEF n
<1>2. Upto(n) \in Seq(Nat) /\ ToSet(Upto(n)) = 1 .. n /\ IsInjective(Upto(n))
  <2>1. Upto(n) \in Seq(Nat)
    BY <1>1 DEF Upto
  <2> QED
    BY <1>1, <2>1, UptoFacts
<1>3. ASSUME NEW S, S \subseteq 1 .. n
      PROVE  /\ Within(Upto(n), S) \in Seq(Nat) /\ IsInjective(Within(Upto(n), S))
             /\ ToSet(Within(Upto(n), S)) = S
  <2>1. PICK u \in Seq(Nat) : u = Upto(n)
    BY <1>2
  <2>2. /\ Within(u, S) \in Seq(Nat) /\ ToSet(Within(u, S)) = ToSet(u) \intersect S
        /\ IsInjective(u) => IsInjective(Within(u, S))
    BY WithinFacts
  <2> QED
    BY <1>2, <1>3, <2>1, <2>2
<1>4. /\ Confirmed = Within(Upto(n), {i \in DOMAIN tracks_ : IsConfirmed(tracks_[i])})
      /\ Unconfirmed = Within(Upto(n), {i \in DOMAIN tracks_ : ~ IsConfirmed(tracks_[i])})
  BY DEF Confirmed, Unconfirmed, n
<1> QED
  BY <1>1, <1>3, <1>4, SMTT(60) DEF n

(* A level of the cascade: its tracks have no match yet, because those that have
   were seen more lately, and the metric knows all of them. *)
LEMMA CascadeTrack ==
  ASSUME TrackInv, CascadeLevel
  PROVE  TrackInv'
<1> DEFINE level == Within(Confirmed, MissedFor(frame.level + 1))
           targets == {tracks_[i].id : i \in ToSet(level)}
           left == frame.unmatched_detections
<1>1. /\ frame.stage = "cascade" /\ UNCHANGED <<tracks_, next_id_, expected_frame_id_>>
      /\ samples' = [id \in DOMAIN samples \union targets |->
                       IF id \in DOMAIN samples THEN samples[id] ELSE << >>]
  BY DEF CascadeLevel, consumerVars
<1>2. PICK result \in MinCostMatching(level, left) :
        frame' = [frame EXCEPT !.level = @ + 1,
                               !.matches = @ \union result.matches,
                               !.unmatched_detections = result.unmatched_detections]
  BY DEF CascadeLevel, Leftover
<1>3. /\ frame \in CascadeFrame /\ frame.detections \in Nat /\ frame.level \in Nat
      /\ frame.matches \in Pairs /\ frame.unmatched_detections \in Seq(Nat)
  BY <1>1, FrameFacts DEF TrackInv
<1>4. /\ frame.detections \in Nat /\ frame.level \in Nat /\ left \in Seq(Nat) /\ IsInjective(left)
      /\ UsedOnce /\ Working
  BY <1>1, <1>3 DEF TrackInv, MatchInv, UsedOnce, Working
<1>5. /\ level \in Seq(Nat) /\ IsInjective(level)
      /\ ToSet(level) = {i \in DOMAIN tracks_ :
                           IsConfirmed(tracks_[i]) /\ tracks_[i].time_since_update = frame.level + 1}
  BY IndexFacts, WithinFacts DEF TrackInv, MissedFor
<1> HIDE DEF level, left
<1>6. /\ \A m \in result.matches : m = <<m[1], m[2]>> /\ m[1] \in ToSet(level) /\ m[2] \in ToSet(left)
      /\ \A m, n \in result.matches : m[1] = n[1] <=> m[2] = n[2]
      /\ result.unmatched_detections \in Seq(Nat)
      /\ ToSet(result.unmatched_detections) = ToSet(left) \ {m[2] : m \in result.matches}
      /\ IsInjective(result.unmatched_detections)
  BY <1>4, <1>5, MatchingFacts
<1>7. /\ frame'.stage = "cascade" /\ frame'.detections = frame.detections
      /\ frame'.level = frame.level + 1
      /\ frame'.matches = frame.matches \union result.matches
      /\ frame'.unmatched_detections = result.unmatched_detections
      /\ frame' \in CascadeFrame
  <2> DEFINE f == [frame EXCEPT !.level = @ + 1]
             g == [f EXCEPT !.matches = frame.matches \union result.matches]
             h == [g EXCEPT !.unmatched_detections = result.unmatched_detections]
  <2>1. frame.matches \union result.matches \in Pairs
    <3>1. ToSet(level) \subseteq Nat /\ ToSet(left) \subseteq Nat
      BY <1>4, <1>5, SMTT(60) DEF ToSet
    <3>2. result.matches \subseteq Nat \X Nat
      BY <1>6, <3>1
    <3> QED
      BY <1>3, <3>2 DEF Pairs
  <2>2. /\ f \in CascadeFrame /\ f.stage = "cascade" /\ f.detections = frame.detections
        /\ f.level = frame.level + 1
    BY <1>3 DEF CascadeFrame
  <2>3. frame' = h
    BY <1>2, <1>3 DEF CascadeFrame
  <2> HIDE DEF f
  <2>4. /\ g \in CascadeFrame /\ g.stage = "cascade" /\ g.detections = f.detections
        /\ g.level = f.level /\ g.matches = frame.matches \union result.matches
    BY <2>1, <2>2 DEF CascadeFrame
  <2> HIDE DEF g
  <2>5. /\ h \in CascadeFrame /\ h.stage = "cascade" /\ h.detections = g.detections
        /\ h.level = g.level /\ h.matches = g.matches
        /\ h.unmatched_detections = result.unmatched_detections
    BY <1>6, <2>4 DEF CascadeFrame, Indices
  <2> QED
    BY <2>2, <2>3, <2>4, <2>5
<1>8. TypeInv'
  BY <1>1, <1>7 DEF TrackInv, TypeInv, FrameInWork
<1>9. Working' /\ IdInv' /\ LifeInv'
  BY <1>1, <1>4, <1>7 DEF TrackInv, IdInv, LifeInv, Working
<1>10. GalleryInv'
  <2>1. targets \subseteq DOMAIN samples
    BY <1>5 DEF TrackInv, GalleryInv
  <2>2. DOMAIN samples' = DOMAIN samples /\ \A id \in DOMAIN samples : samples'[id] = samples[id]
    BY <1>1, <2>1
  <2> HIDE DEF targets
  <2> QED
    BY <1>1, <1>4, <1>9, <2>2 DEF TrackInv, GalleryInv
<1>11. MatchInv'
  <2>1. ASSUME NEW m \in frame.matches, NEW n \in result.matches PROVE m[1] # n[1]
    <3>1. tracks_[m[1]].time_since_update <= frame.level
      BY <1>1 DEF TrackInv, MatchInv
    <3>2. tracks_[n[1]].time_since_update = frame.level + 1
      BY <1>5, <1>6
    <3> QED
      BY <1>3, <3>1, <3>2
  <2>2. ASSUME NEW m \in frame.matches, NEW n \in result.matches PROVE m[2] # n[2]
    <3>1. m[2] \notin ToSet(left)
      BY <1>1, <1>4 DEF UsedOnce, left
    <3> QED
      BY <1>6, <3>1
  <2>3. \A m, n \in frame.matches \union result.matches : m[1] = n[1] <=> m[2] = n[2]
    BY <1>1, <1>4, <1>6, <2>1, <2>2 DEF UsedOnce
  <2>4. /\ ToSet(left) \intersect {m[2] : m \in frame.matches} = {}
        /\ ToSet(left) \union {m[2] : m \in frame.matches} = 1 .. frame.detections
    BY <1>1, <1>4 DEF UsedOnce, left
  <2>5. {m[2] : m \in frame.matches \union result.matches}
          = {m[2] : m \in frame.matches} \union {m[2] : m \in result.matches}
    OBVIOUS
  <2>6. /\ ToSet(result.unmatched_detections)
             \intersect {m[2] : m \in frame.matches \union result.matches} = {}
        /\ ToSet(result.unmatched_detections)
             \union {m[2] : m \in frame.matches \union result.matches} = 1 .. frame.detections
    <3>1. {m[2] : m \in result.matches} \subseteq ToSet(left)
      BY <1>6
    <3> QED
      BY <1>6, <2>4, <2>5, <3>1
  <2>7. UsedOnce'
    BY <1>6, <1>7, <2>3, <2>6 DEF UsedOnce
  <2>8. \A m \in result.matches : m[1] \in DOMAIN tracks_ /\ m[2] \in 1 .. frame.detections
    BY <1>5, <1>6, <2>4
  <2>9. \A m \in frame'.matches : m[1] \in DOMAIN tracks_' /\ m[2] \in 1 .. frame'.detections
    BY <1>1, <1>4, <1>7, <2>8 DEF TrackInv, MatchInv
  <2>10. \A m \in result.matches :
           IsConfirmed(tracks_[m[1]]) /\ tracks_[m[1]].time_since_update <= frame.level + 1
    BY <1>4, <1>5, <1>6
  <2>11. \A m \in frame.matches :
           IsConfirmed(tracks_[m[1]]) /\ tracks_[m[1]].time_since_update <= frame.level + 1
    <3> SUFFICES ASSUME NEW m \in frame.matches
                 PROVE IsConfirmed(tracks_[m[1]]) /\ tracks_[m[1]].time_since_update <= frame.level + 1
      OBVIOUS
    <3>1. /\ m[1] \in DOMAIN tracks_
          /\ IsConfirmed(tracks_[m[1]]) /\ tracks_[m[1]].time_since_update <= frame.level
      BY <1>1, <1>4 DEF TrackInv, MatchInv
    <3>2. tracks_[m[1]].time_since_update \in Nat
      <4>1. tracks_ \in Seq(Track)
        BY DEF TrackInv, TypeInv
      <4>2. tracks_[m[1]] \in Track
        BY <3>1, <4>1
      <4> QED
        BY <4>2 DEF Track
    <3> QED
      BY <1>4, <3>1, <3>2
  <2> QED
    BY <1>1, <1>7, <2>7, <2>9, <2>10, <2>11 DEF MatchInv, IsConfirmed
<1> QED
  BY <1>8, <1>9, <1>10, <1>11 DEF TrackInv
(* Two index sequences without repetition and in nothing alike, one after the
   other. *)
LEMMA ConcatFacts ==
  ASSUME NEW p \in Seq(Nat), NEW q \in Seq(Nat), IsInjective(p), IsInjective(q),
         ToSet(p) \intersect ToSet(q) = {}
  PROVE  p \o q \in Seq(Nat) /\ IsInjective(p \o q) /\ ToSet(p \o q) = ToSet(p) \union ToSet(q)
<1> DEFINE r == p \o q
           a == Len(p)
           b == Len(q)
<1>1. r \in Seq(Nat) /\ Len(r) = a + b /\ a \in Nat /\ b \in Nat
  OBVIOUS
<1>2. DOMAIN p = 1 .. a /\ DOMAIN q = 1 .. b /\ DOMAIN r = 1 .. a + b
  BY <1>1
<1>3. /\ \A i \in 1 .. a : r[i] = p[i]
      /\ \A i \in a + 1 .. a + b : r[i] = q[i - a] /\ i - a \in 1 .. b
      /\ \A i \in 1 .. b : r[i + a] = q[i] /\ i + a \in a + 1 .. a + b
  OBVIOUS
<1> HIDE DEF r, a, b
<1>4. \A i \in 1 .. a + b : i \in 1 .. a \/ i \in a + 1 .. a + b
  BY <1>1
<1>5. ToSet(r) = ToSet(p) \union ToSet(q)
  <2>1. ASSUME NEW i \in 1 .. a + b PROVE r[i] \in ToSet(p) \union ToSet(q)
    BY <1>2, <1>3, <1>4 DEF ToSet
  <2>2. ASSUME NEW i \in 1 .. a PROVE p[i] \in ToSet(r)
    <3>1. i \in 1 .. a + b /\ r[i] = p[i]
      BY <1>1, <1>3
    <3> QED
      BY <1>2, <3>1 DEF ToSet
  <2>3. ASSUME NEW i \in 1 .. b PROVE q[i] \in ToSet(r)
    <3>1. i + a \in 1 .. a + b /\ r[i + a] = q[i]
      BY <1>1, <1>3
    <3> QED
      BY <1>2, <3>1 DEF ToSet
  <2> QED
    BY <1>2, <2>1, <2>2, <2>3 DEF ToSet
<1>6. ASSUME NEW i \in 1 .. a + b, NEW j \in 1 .. a + b, r[i] = r[j] PROVE i = j
  <2>1. CASE i \in 1 .. a /\ j \in 1 .. a
    BY <1>2, <1>3, <1>6, <2>1 DEF IsInjective
  <2>2. CASE i \in a + 1 .. a + b /\ j \in a + 1 .. a + b
    <3>1. i - a = j - a
      BY <1>2, <1>3, <1>6, <2>2 DEF IsInjective
    <3> QED
      BY <1>1, <3>1
  <2>3. CASE i \in 1 .. a /\ j \in a + 1 .. a + b
    <3>1. p[i] \in ToSet(p) /\ q[j - a] \in ToSet(q) /\ p[i] = q[j - a]
      BY <1>2, <1>3, <1>6, <2>3 DEF ToSet
    <3> QED
      BY <3>1
  <2>4. CASE j \in 1 .. a /\ i \in a + 1 .. a + b
    <3>1. p[j] \in ToSet(p) /\ q[i - a] \in ToSet(q) /\ p[j] = q[i - a]
      BY <1>2, <1>3, <1>6, <2>4 DEF ToSet
    <3> QED
      BY <3>1
  <2> QED
    BY <1>4, <2>1, <2>2, <2>3, <2>4
<1> QED
  BY <1>1, <1>2, <1>5, <1>6 DEF IsInjective, r

(* The second round: its candidates have no match yet, and whatever has none
   after it is on the list where update looks for it. *)
LEMMA IouTrack ==
  ASSUME TrackInv, IouMatching
  PROVE  TrackInv'
<1> DEFINE first == Within(UnmatchedA, MissedFor(1))
           candidates == first \o Unconfirmed
           left == frame.unmatched_detections
<1>1. frame.stage = "cascade" /\ UNCHANGED <<tracks_, next_id_, samples, expected_frame_id_>>
  BY DEF IouMatching, consumerVars, trackerVars
<1>2. PICK result \in MinCostMatching(candidates, left) :
        frame' = [stage |-> "update", detections |-> frame.detections,
                  matches |-> frame.matches \union result.matches,
                  unmatched_tracks_a |-> UnmatchedA,
                  unmatched_tracks_b |-> result.unmatched_tracks,
                  unmatched_detections |-> result.unmatched_detections]
  BY DEF IouMatching, Leftover
<1>3. /\ frame.detections \in Nat /\ frame.matches \in Pairs /\ left \in Seq(Nat)
  BY <1>1, FrameFacts DEF TrackInv
<1>4. IsInjective(left) /\ UsedOnce /\ Working
  BY <1>1 DEF TrackInv, MatchInv, UsedOnce, Working
<1>5. /\ UnmatchedA \in Seq(Nat) /\ IsInjective(UnmatchedA)
      /\ ToSet(UnmatchedA) = {i \in DOMAIN tracks_ : IsConfirmed(tracks_[i])} \ MatchedTracks
  BY IndexFacts, WithoutFacts DEF TrackInv, UnmatchedA
<1>6. /\ first \in Seq(Nat) /\ IsInjective(first)
      /\ ToSet(first) = {i \in ToSet(UnmatchedA) : tracks_[i].time_since_update = 1}
  <2>1. /\ Within(UnmatchedA, MissedFor(1)) \in Seq(Nat)
        /\ IsInjective(Within(UnmatchedA, MissedFor(1)))
        /\ ToSet(Within(UnmatchedA, MissedFor(1))) = ToSet(UnmatchedA) \intersect MissedFor(1)
    BY <1>5, WithinFacts
  <2> QED
    BY <1>5, <2>1 DEF MissedFor
<1>7. /\ candidates \in Seq(Nat) /\ IsInjective(candidates)
      /\ ToSet(candidates) = ToSet(first) \union ToSet(Unconfirmed)
  <2>1. /\ Unconfirmed \in Seq(Nat) /\ IsInjective(Unconfirmed)
        /\ ToSet(Unconfirmed) = {i \in DOMAIN tracks_ : ~ IsConfirmed(tracks_[i])}
    BY IndexFacts DEF TrackInv
  <2>2. ToSet(first) \intersect ToSet(Unconfirmed) = {}
    BY <1>5, <1>6, <2>1
  <2> HIDE DEF first
  <2> QED
    BY <1>6, <2>1, <2>2, ConcatFacts
<1>8. ToSet(Unconfirmed) = {i \in DOMAIN tracks_ : ~ IsConfirmed(tracks_[i])}
  BY IndexFacts DEF TrackInv
<1>9. ToSet(candidates) \subseteq (DOMAIN tracks_) \ MatchedTracks
  <2>1. \A m \in frame.matches : IsConfirmed(tracks_[m[1]])
    BY <1>1 DEF TrackInv, MatchInv
  <2> QED
    BY <1>5, <1>6, <1>7, <1>8, <2>1 DEF MatchedTracks
<1> HIDE DEF candidates, left, first
<1>10. /\ \A m \in result.matches : m = <<m[1], m[2]>> /\ m[1] \in ToSet(candidates) /\ m[2] \in ToSet(left)
       /\ \A m, n \in result.matches : m[1] = n[1] <=> m[2] = n[2]
       /\ result.unmatched_tracks \in Seq(Nat)
       /\ ToSet(result.unmatched_tracks) = ToSet(candidates) \ {m[1] : m \in result.matches}
       /\ result.unmatched_detections \in Seq(Nat)
       /\ ToSet(result.unmatched_detections) = ToSet(left) \ {m[2] : m \in result.matches}
       /\ IsInjective(result.unmatched_detections)
  BY <1>3, <1>4, <1>7, MatchingFacts
<1>11. frame'.matches \in Pairs
  <2>1. ToSet(candidates) \subseteq Nat /\ ToSet(left) \subseteq Nat
    BY <1>3, <1>7 DEF ToSet
  <2>2. result.matches \subseteq Nat \X Nat
    BY <1>10, <2>1
  <2> QED
    BY <1>2, <1>3, <2>2 DEF Pairs
<1>12. /\ frame'.stage = "update" /\ frame'.detections = frame.detections
       /\ frame'.matches = frame.matches \union result.matches
       /\ frame'.unmatched_tracks_a = UnmatchedA
       /\ frame'.unmatched_tracks_b = result.unmatched_tracks
       /\ frame'.unmatched_detections = result.unmatched_detections
  BY <1>2
<1>13. TypeInv'
  <2>1. frame' \in UpdateFrame
    BY <1>2, <1>3, <1>5, <1>10, <1>11, <1>12 DEF UpdateFrame, Indices
  <2> QED
    BY <1>1, <2>1 DEF TrackInv, TypeInv, FrameInWork
<1>14. Working' /\ IdInv' /\ LifeInv' /\ GalleryInv'
  BY <1>1, <1>4, <1>12 DEF TrackInv, IdInv, LifeInv, GalleryInv, Working
<1>15. MatchInv'
  <2>1. ASSUME NEW m \in frame.matches, NEW n \in result.matches PROVE m[1] # n[1]
    BY <1>9, <1>10 DEF MatchedTracks
  <2>2. ASSUME NEW m \in frame.matches, NEW n \in result.matches PROVE m[2] # n[2]
    <3>1. m[2] \notin ToSet(left)
      BY <1>1, <1>4 DEF UsedOnce, left
    <3> QED
      BY <1>10, <3>1
  <2>3. \A m, n \in frame.matches \union result.matches : m[1] = n[1] <=> m[2] = n[2]
    BY <1>1, <1>4, <1>10, <2>1, <2>2 DEF UsedOnce
  <2>4. /\ ToSet(left) \intersect {m[2] : m \in frame.matches} = {}
        /\ ToSet(left) \union {m[2] : m \in frame.matches} = 1 .. frame.detections
    BY <1>1, <1>4 DEF UsedOnce, left
  <2>5. {m[2] : m \in frame.matches \union result.matches}
          = {m[2] : m \in frame.matches} \union {m[2] : m \in result.matches}
    OBVIOUS
  <2>6. /\ ToSet(result.unmatched_detections)
             \intersect {m[2] : m \in frame.matches \union result.matches} = {}
        /\ ToSet(result.unmatched_detections)
             \union {m[2] : m \in frame.matches \union result.matches} = 1 .. frame.detections
    <3>1. {m[2] : m \in result.matches} \subseteq ToSet(left)
      BY <1>10
    <3> QED
      BY <1>10, <2>4, <2>5, <3>1
  <2>7. UsedOnce'
    BY <1>10, <1>12, <2>3, <2>6 DEF UsedOnce
  <2>8. \A m \in result.matches : m[1] \in DOMAIN tracks_ /\ m[2] \in 1 .. frame.detections
    BY <1>9, <1>10, <2>4
  <2>9. \A m \in frame'.matches : m[1] \in DOMAIN tracks_' /\ m[2] \in 1 .. frame'.detections
    BY <1>1, <1>4, <1>12, <2>8 DEF TrackInv, MatchInv
  <2>10. MatchedTracks' = MatchedTracks \union {m[1] : m \in result.matches}
    BY <1>12 DEF MatchedTracks
  <2>11. ToSet(result.unmatched_tracks) \intersect MatchedTracks' = {}
    BY <1>9, <1>10, <2>10
  <2>12. ASSUME NEW i \in DOMAIN tracks_, i \notin MatchedTracks'
         PROVE  \/ i \in ToSet(result.unmatched_tracks)
                \/ i \in ToSet(UnmatchedA) /\ tracks_[i].time_since_update > 1
    <3>1. CASE ~ IsConfirmed(tracks_[i])
      BY <1>7, <1>8, <1>10, <2>10, <2>12, <3>1
    <3>2. CASE IsConfirmed(tracks_[i])
      <4>1. i \in ToSet(UnmatchedA)
        BY <1>5, <2>10, <2>12, <3>2
      <4>2. tracks_[i].time_since_update \in 1 .. max_age_ + 1
        BY <1>4, <3>2 DEF TrackInv, LifeInv, Waiting, IsConfirmed
      <4>3. CASE tracks_[i].time_since_update = 1
        BY <1>6, <1>7, <1>10, <2>10, <2>12, <4>1, <4>3
      <4> QED
        BY <4>1, <4>2, <4>3, TrackingAssumption
    <3> QED
      BY <3>1, <3>2
  <2> QED
    BY <1>1, <1>12, <2>7, <2>9, <2>11, <2>12 DEF MatchInv
<1> QED
  BY <1>13, <1>14, <1>15 DEF TrackInv
(* Track::update and mark_missed, on the fields. *)
LEMMA UpdatedFacts ==
  ASSUME NEW t \in Track
  PROVE  /\ Updated(t) \in Track
         /\ Updated(t).id = t.id /\ Updated(t).feature = t.feature /\ Updated(t).age = t.age
         /\ Updated(t).time_since_update = 0
         /\ Waiting(t) => /\ Alive(Updated(t))
                          /\ IsConfirmed(t) => IsConfirmed(Updated(t))
                          /\ IsConfirmed(Updated(t)) => IsConfirmed(t) \/ t.age = n_init_
<1> DEFINE now == IF t.state = "Tentative" /\ t.hits + 1 >= n_init_ THEN "Confirmed" ELSE t.state
           u == [t EXCEPT !.hits = @ + 1]
           v == [u EXCEPT !.time_since_update = 0]
           w == [v EXCEPT !.state = now]
<1>1. now \in {"Tentative", "Confirmed", "Deleted"}
  BY DEF Track
<1>2. /\ u \in Track /\ u.hits = t.hits + 1 /\ u.id = t.id /\ u.feature = t.feature
      /\ u.age = t.age
  BY DEF Track
<1>3. Updated(t) = w
  BY DEF Updated, Track
<1> HIDE DEF u, now
<1>4. /\ v \in Track /\ v.hits = u.hits /\ v.id = u.id /\ v.feature = u.feature
      /\ v.age = u.age /\ v.time_since_update = 0
  BY <1>2 DEF Track
<1> HIDE DEF v
<1>5. /\ w \in Track /\ w.hits = v.hits /\ w.id = v.id /\ w.feature = v.feature
      /\ w.age = v.age /\ w.time_since_update = v.time_since_update /\ w.state = now
  BY <1>1, <1>4 DEF Track
<1> HIDE DEF w
<1>6. /\ w.hits = t.hits + 1 /\ w.age = t.age /\ w.time_since_update = 0 /\ w.state = now
      /\ t.hits \in Nat /\ t.age \in Nat
  BY <1>2, <1>4, <1>5 DEF Track
<1>7. ASSUME Waiting(t)
      PROVE  /\ Alive(w)
             /\ IsConfirmed(t) => IsConfirmed(w)
             /\ IsConfirmed(w) => IsConfirmed(t) \/ t.age = n_init_
  BY <1>6, <1>7, TrackingAssumption DEF Waiting, Alive, IsConfirmed, now
<1> QED
  BY <1>2, <1>3, <1>4, <1>5, <1>7

(* A missed track is deleted, or confirmed and not too old. *)
LEMMA MissedFacts ==
  ASSUME NEW t \in Track
  PROVE  /\ Missed(t) \in Track
         /\ Missed(t).id = t.id /\ Missed(t).feature = t.feature /\ Missed(t).age = t.age
         /\ Waiting(t) /\ Missed(t).state # "Deleted" => /\ Alive(Missed(t))
                                                         /\ IsConfirmed(t)
<1> DEFINE now == IF t.state = "Tentative" \/ t.time_since_update > max_age_ THEN "Deleted" ELSE t.state
           w == [t EXCEPT !.state = now]
<1>1. now \in {"Tentative", "Confirmed", "Deleted"}
  BY DEF Track
<1>2. Missed(t) = w
  BY DEF Missed, Track
<1> HIDE DEF now
<1>3. /\ w \in Track /\ w.hits = t.hits /\ w.id = t.id /\ w.feature = t.feature
      /\ w.age = t.age /\ w.time_since_update = t.time_since_update /\ w.state = now
  BY <1>1 DEF Track
<1> HIDE DEF w
<1>4. t.hits \in Nat /\ t.age \in Nat /\ t.time_since_update \in Nat
  BY DEF Track
<1>5. ASSUME Waiting(t), now # "Deleted" PROVE Alive(w) /\ IsConfirmed(t)
  BY <1>3, <1>4, <1>5, TrackingAssumption DEF Waiting, Alive, IsConfirmed, now
<1> QED
  BY <1>2, <1>3, <1>5

(* The smaller of two numbers. *)
LEMMA MinFacts ==
  ASSUME NEW a \in Int, NEW b \in Int
  PROVE  Min({a, b}) = IF a <= b THEN a ELSE b
  BY DEF Min

(* One sample more, up to the budget. *)
LEMMA AppendedFacts ==
  ASSUME NEW x, NEW life \in Nat
  PROVE  /\ Appended(Copies(x, life), x) = Copies(x, life + 1)
         /\ <<x>> = Copies(x, 1)
<1> DEFINE b == nn_budget_
           n == IF b <= life THEN b ELSE life
           old == Copies(x, life)
           all == Append(old, x)
<1>1. b \in Nat /\ b > 0
  BY TrackingAssumption
<1>2. old = [k \in 1 .. n |-> x] /\ n \in Nat
  BY <1>1, MinFacts DEF Copies
<1>3. Copies(x, life + 1) = [k \in 1 .. (IF b <= life + 1 THEN b ELSE life + 1) |-> x]
  BY <1>1, MinFacts DEF Copies
<1>4. Copies(x, 1) = <<x>>
  <2>1. Copies(x, 1) = [k \in 1 .. 1 |-> x]
    BY <1>1, MinFacts DEF Copies
  <2> QED
    BY <2>1
<1> HIDE DEF old
<1>5. all \in Seq({x}) /\ Len(all) = n + 1 /\ \A k \in 1 .. n + 1 : all[k] = x
  BY <1>2
<1> HIDE DEF all
<1>6. Appended(old, x) = IF Len(all) <= b THEN all ELSE SubSeq(all, Len(all) - b + 1, Len(all))
  BY DEF Appended, all
<1>7. CASE n + 1 <= b
  <2>1. all = [k \in 1 .. n + 1 |-> x]
    BY <1>5
  <2> QED
    BY <1>1, <1>3, <1>4, <1>5, <1>6, <1>7, <2>1 DEF old
<1>8. CASE ~ (n + 1 <= b)
  <2>1. n = b
    BY <1>1, <1>8
  <2>2. SubSeq(all, 2, b + 1) = [k \in 1 .. b |-> x]
    <3> DEFINE c == SubSeq(all, 2, b + 1)
    <3>1. c = [k \in 1 .. b |-> all[k + 1]]
      BY <1>1, <1>5, <2>1
    <3>2. \A k \in 1 .. b : all[k + 1] = x
      BY <1>1, <1>5, <2>1
    <3> HIDE DEF c
    <3>3. c = [k \in 1 .. b |-> x]
      BY <3>1, <3>2
    <3> QED
      BY <3>3 DEF c
  <2>3. Len(all) = b + 1 /\ ~ (Len(all) <= b) /\ Len(all) - b + 1 = 2
    BY <1>1, <1>5, <2>1
  <2>4. b <= life + 1
    BY <1>1, <2>1
  <2> QED
    BY <1>3, <1>4, <1>6, <2>2, <2>3, <2>4 DEF old
<1> QED
  BY <1>7, <1>8
(* What the rest of update makes of the tracks: those that stay, each from one
   that was there, then those that are born. *)
Stays(t, old) ==
  /\ t.id = old.id /\ t.feature = old.feature /\ t.age = old.age
  /\ Alive(t)
  /\ IsConfirmed(old) => IsConfirmed(t)
  /\ IsConfirmed(t) => IsConfirmed(old) \/ old.age = n_init_

Outcome(kept, e, born) ==
  /\ kept \in Seq(Track) /\ born \in Seq(Track)
  /\ e \in [1 .. Len(kept) -> DOMAIN tracks_]
  /\ \A j, k \in 1 .. Len(kept) : e[j] = e[k] => j = k
  /\ \A k \in 1 .. Len(kept) : Stays(kept[k], tracks_[e[k]])
  /\ \A i \in 1 .. Len(born) :
       born[i].id = next_id_ + i - 1 /\ Alive(born[i]) /\ ~ IsConfirmed(born[i])
  /\ tracks_' = kept \o born /\ next_id_' = next_id_ + Len(born)
  /\ samples' = PartialFit(kept \o born)

(* A track without a match is missed and one with a match is not, whichever list it
   is on. *)
LEMMA UpdateOutcome ==
  ASSUME TrackInv, UpdateTracks
  PROVE  \E kept, e, born : Outcome(kept, e, born)
<1> DEFINE matched == [i \in DOMAIN tracks_ |->
                        IF i \in MatchedTracks THEN Updated(tracks_[i]) ELSE tracks_[i]]
           missed == {i \in ToSet(frame.unmatched_tracks_a) : matched[i].time_since_update > 1}
                     \union ToSet(frame.unmatched_tracks_b)
           marked == [i \in DOMAIN matched |-> IF i \in missed THEN Missed(matched[i]) ELSE matched[i]]
           staying == {t \in ToSet(marked) : t.state # "Deleted"}
           kept == Within(marked, staying)
           left == frame.unmatched_detections
           born == [i \in DOMAIN left |->
                      NewTrack(BirthId(i, Len(kept)), <<expected_frame_id_, left[i]>>)]
<1>1. /\ frame.stage = "update" /\ Working
      /\ tracks_' = kept \o born /\ next_id_' = next_id_ + Len(born)
      /\ samples' = PartialFit(kept \o born)
  BY DEF UpdateTracks, Working
<1>2. /\ left \in Seq(Nat) /\ expected_frame_id_ \in Nat /\ next_id_ \in Nat
      /\ tracks_ \in Seq(Track) /\ DOMAIN tracks_ = 1 .. Len(tracks_) /\ Len(tracks_) \in Nat
  <2>1. left \in Seq(Nat)
    BY <1>1, FrameFacts DEF TrackInv
  <2>2. expected_frame_id_ \in Nat /\ next_id_ \in Nat /\ tracks_ \in Seq(Track)
    BY DEF TrackInv, TypeInv
  <2> QED
    BY <2>1, <2>2
<1>3. ASSUME NEW i \in DOMAIN tracks_
      PROVE  tracks_[i] \in Track /\ Waiting(tracks_[i])
  <2>1. tracks_[i] \in Track
    BY <1>2
  <2>2. Waiting(tracks_[i])
    BY <1>1 DEF TrackInv, LifeInv
  <2> QED
    BY <2>1, <2>2
<1>4. ASSUME NEW i \in DOMAIN tracks_ PROVE i \in missed <=> i \notin MatchedTracks
  <2>1. CASE i \in MatchedTracks
    <3>1. matched[i].time_since_update = 0
      BY <1>3, <2>1, UpdatedFacts
    <3>2. i \notin ToSet(frame.unmatched_tracks_b)
      BY <1>1, <2>1 DEF TrackInv, MatchInv
    <3> HIDE DEF matched
    <3> QED
      BY <2>1, <3>1, <3>2
  <2>2. CASE i \notin MatchedTracks
    <3>1. matched[i] = tracks_[i]
      BY <2>2
    <3>2. \/ i \in ToSet(frame.unmatched_tracks_b)
          \/ i \in ToSet(frame.unmatched_tracks_a) /\ tracks_[i].time_since_update > 1
      BY <1>1, <2>2 DEF TrackInv, MatchInv
    <3> HIDE DEF matched
    <3> QED
      BY <2>2, <3>1, <3>2
  <2> QED
    BY <2>1, <2>2
<1>5. ASSUME NEW i \in DOMAIN tracks_
      PROVE  marked[i] = IF i \in MatchedTracks THEN Updated(tracks_[i]) ELSE Missed(tracks_[i])
  <2>1. marked[i] = IF i \in missed THEN Missed(matched[i]) ELSE matched[i]
    OBVIOUS
  <2>2. matched[i] = IF i \in MatchedTracks THEN Updated(tracks_[i]) ELSE tracks_[i]
    OBVIOUS
  <2> HIDE DEF marked, missed, matched
  <2> QED
    BY <1>4, <2>1, <2>2
<1>6. DOMAIN marked = 1 .. Len(tracks_)
  BY <1>2
<1>7. marked = [i \in 1 .. Len(tracks_) |-> marked[i]]
  BY <1>2
<1> HIDE DEF marked, missed, matched
<1>8. ASSUME NEW i \in DOMAIN tracks_
      PROVE  marked[i] \in Track /\ (marked[i].state # "Deleted" => Stays(marked[i], tracks_[i]))
  <2>1. CASE i \in MatchedTracks
    BY <1>3, <1>5, <2>1, UpdatedFacts DEF Stays
  <2>2. CASE i \notin MatchedTracks
    <3>1. ASSUME Missed(tracks_[i]).state # "Deleted" PROVE IsConfirmed(Missed(tracks_[i])) = IsConfirmed(tracks_[i])
      BY <3>1, <1>3, MissedFacts DEF Alive, IsConfirmed, Missed, Track
    <3> QED
      BY <1>3, <1>5, <2>2, <3>1, MissedFacts DEF Stays
  <2> QED
    BY <2>1, <2>2
<1>9. marked \in Seq(Track) /\ Len(marked) = Len(tracks_)
  BY <1>2, <1>7, <1>8
<1>10. kept \in Seq(Track) /\ \E e : Picks(kept, e, Len(marked), marked, staying)
  BY <1>9, WithinPicks
<1>11. PICK e : Picks(kept, e, Len(marked), marked, staying)
  BY <1>10
<1>12. /\ e \in [1 .. Len(kept) -> DOMAIN tracks_]
       /\ \A k \in 1 .. Len(kept) : kept[k] = marked[e[k]] /\ kept[k] \in staying
       /\ \A j, k \in 1 .. Len(kept) : j < k => e[j] < e[k]
  BY <1>2, <1>9, <1>11 DEF Picks
<1>13. \A k \in 1 .. Len(kept) : kept[k].state # "Deleted"
  BY <1>12
<1> HIDE DEF kept, staying
<1>14. \A k \in 1 .. Len(kept) : Stays(kept[k], tracks_[e[k]])
  BY <1>8, <1>12, <1>13
<1>15. ASSUME NEW j \in 1 .. Len(kept), NEW k \in 1 .. Len(kept), e[j] = e[k] PROVE j = k
  <2>1. e[j] \in Nat /\ e[k] \in Nat
    <3>1. DOMAIN tracks_ \subseteq Nat
      BY <1>2
    <3> QED
      BY <1>12, <3>1
  <2>2. ~ (j < k) /\ ~ (k < j)
    BY <1>12, <1>15, <2>1
  <2> QED
    BY <1>10, <2>2
<1>16. ASSUME NEW i \in 1 .. Len(left)
       PROVE  /\ NewTrack(BirthId(i, Len(kept)), <<expected_frame_id_, left[i]>>) \in Track
              /\ NewTrack(BirthId(i, Len(kept)), <<expected_frame_id_, left[i]>>).id = next_id_ + i - 1
              /\ Alive(NewTrack(BirthId(i, Len(kept)), <<expected_frame_id_, left[i]>>))
              /\ ~ IsConfirmed(NewTrack(BirthId(i, Len(kept)), <<expected_frame_id_, left[i]>>))
  <2>1. left[i] \in Nat
    BY <1>2
  <2>2. PICK next \in Nat : next = next_id_
    BY <1>2
  <2>3. next + i - 1 \in Nat
    OBVIOUS
  <2> QED
    BY <1>2, <2>1, <2>2, <2>3, TrackingAssumption, SMTT(60) DEF NewTrack, BirthId, Track, Alive, IsConfirmed
<1>17. DOMAIN left = 1 .. Len(left) /\ Len(left) \in Nat
  BY <1>2
<1>18. /\ born \in Seq(Track) /\ Len(born) = Len(left)
       /\ \A i \in 1 .. Len(born) :
            born[i].id = next_id_ + i - 1 /\ Alive(born[i]) /\ ~ IsConfirmed(born[i])
  <2> HIDE DEF left
  <2> QED
    BY <1>16, <1>17
<1> HIDE DEF born
<1>19. Outcome(kept, e, born)
  BY <1>1, <1>10, <1>12, <1>14, <1>15, <1>18 DEF Outcome
<1> QED
  BY <1>19
(* The tracks afterwards, one by one. *)
LEMMA OutcomeFacts ==
  ASSUME TrackInv, NEW kept, NEW e, NEW born, Outcome(kept, e, born)
  PROVE  /\ tracks_' \in Seq(Track) /\ next_id_' \in Nat
         /\ Len(kept) \in Nat /\ Len(born) \in Nat
         /\ DOMAIN tracks_' = 1 .. Len(kept) + Len(born)
         /\ \A i \in 1 .. Len(kept) :
              tracks_'[i] = kept[i] /\ e[i] \in DOMAIN tracks_ /\ Stays(tracks_'[i], tracks_[e[i]])
         /\ \A i \in Len(kept) + 1 .. Len(kept) + Len(born) :
              /\ tracks_'[i].id = next_id_ + (i - Len(kept)) - 1
              /\ Alive(tracks_'[i]) /\ ~ IsConfirmed(tracks_'[i])
<1> DEFINE a == Len(kept)
           b == Len(born)
<1>1. kept \in Seq(Track) /\ born \in Seq(Track) /\ tracks_' = kept \o born
  BY DEF Outcome
<1>2. a \in Nat /\ b \in Nat /\ tracks_' \in Seq(Track) /\ Len(tracks_') = a + b
  BY <1>1
<1>3. DOMAIN tracks_' = 1 .. a + b
  BY <1>2
<1>4. /\ \A i \in 1 .. a : tracks_'[i] = kept[i]
      /\ \A i \in a + 1 .. a + b : tracks_'[i] = born[i - a] /\ i - a \in 1 .. b
  BY <1>1
<1>5. next_id_' \in Nat
  BY <1>2 DEF TrackInv, TypeInv, Outcome
<1> HIDE DEF a, b
<1>6. \A i \in 1 .. a : e[i] \in DOMAIN tracks_ /\ Stays(kept[i], tracks_[e[i]])
  BY DEF Outcome, a
<1>7. \A i \in 1 .. b : born[i].id = next_id_ + i - 1 /\ Alive(born[i]) /\ ~ IsConfirmed(born[i])
  BY DEF Outcome, b
<1>8. \A i \in a + 1 .. a + b :
        /\ tracks_'[i].id = next_id_ + (i - a) - 1
        /\ Alive(tracks_'[i]) /\ ~ IsConfirmed(tracks_'[i])
  BY <1>4, <1>7
<1> QED
  BY <1>2, <1>3, <1>4, <1>5, <1>6, <1>8 DEF a, b

(* No two of them share an id, and none is one still to be given. *)
LEMMA OutcomeIds ==
  ASSUME TrackInv, NEW kept, NEW e, NEW born, Outcome(kept, e, born)
  PROVE  /\ \A i \in DOMAIN tracks_' : tracks_'[i].id < next_id_'
         /\ \A i, j \in DOMAIN tracks_' : tracks_'[i].id = tracks_'[j].id => i = j
<1> DEFINE a == Len(kept)
           b == Len(born)
<1>1. /\ a \in Nat /\ b \in Nat /\ next_id_ \in Nat /\ next_id_' = next_id_ + b
      /\ DOMAIN tracks_' = 1 .. a + b
  BY OutcomeFacts DEF TrackInv, TypeInv, Outcome
<1>2. /\ \A i \in 1 .. a : e[i] \in DOMAIN tracks_ /\ tracks_'[i].id = tracks_[e[i]].id
      /\ \A i \in a + 1 .. a + b : tracks_'[i].id = next_id_ + (i - a) - 1
      /\ \A i, j \in 1 .. a : e[i] = e[j] => i = j
  <2>1. \A i \in 1 .. a : e[i] \in DOMAIN tracks_ /\ Stays(tracks_'[i], tracks_[e[i]])
    BY OutcomeFacts
  <2>2. \A i \in a + 1 .. a + b : tracks_'[i].id = next_id_ + (i - a) - 1
    BY OutcomeFacts
  <2>3. \A i, j \in 1 .. a : e[i] = e[j] => i = j
    BY DEF Outcome
  <2> HIDE DEF a, b
  <2> QED
    BY <2>1, <2>2, <2>3 DEF Stays
<1>3. \A i \in 1 .. a : tracks_'[i].id < next_id_ /\ tracks_'[i].id \in Nat
  <2> SUFFICES ASSUME NEW i \in 1 .. a
               PROVE  tracks_'[i].id < next_id_ /\ tracks_'[i].id \in Nat
    OBVIOUS
  <2>1. tracks_[e[i]].id < next_id_
    BY <1>2 DEF TrackInv, IdInv
  <2>2. tracks_[e[i]] \in Track
    <3>1. tracks_ \in Seq(Track)
      BY DEF TrackInv, TypeInv
    <3> QED
      BY <1>2, <3>1
  <2>3. tracks_[e[i]].id \in Nat
    BY <2>2 DEF Track
  <2> QED
    BY <1>2, <2>1, <2>3
<1> HIDE DEF a, b
<1>4. \A i \in 1 .. a + b : i \in 1 .. a \/ i \in a + 1 .. a + b
  BY <1>1
<1>5. ASSUME NEW i \in DOMAIN tracks_' PROVE tracks_'[i].id < next_id_'
  <2>1. CASE i \in 1 .. a
    BY <1>1, <1>3, <2>1
  <2>2. CASE i \in a + 1 .. a + b
    <3>1. tracks_'[i].id = next_id_ + (i - a) - 1
      BY <1>2, <2>2
    <3> QED
      BY <1>1, <2>2, <3>1
  <2> QED
    BY <1>1, <1>4, <2>1, <2>2
<1>6. ASSUME NEW i \in DOMAIN tracks_', NEW j \in DOMAIN tracks_', tracks_'[i].id = tracks_'[j].id
      PROVE  i = j
  <2>1. CASE i \in 1 .. a /\ j \in 1 .. a
    <3>1. e[i] = e[j]
      BY <1>2, <1>6, <2>1 DEF TrackInv, IdInv
    <3> QED
      BY <1>2, <2>1, <3>1
  <2>2. CASE i \in a + 1 .. a + b /\ j \in a + 1 .. a + b
    <3>1. tracks_'[i].id = next_id_ + (i - a) - 1 /\ tracks_'[j].id = next_id_ + (j - a) - 1
      BY <1>2, <2>2
    <3>2. next_id_ + (i - a) - 1 = next_id_ + (j - a) - 1
      BY <1>6, <3>1
    <3> QED
      BY <1>1, <2>2, <3>2
  <2>3. CASE i \in 1 .. a /\ j \in a + 1 .. a + b
    <3>1. tracks_'[j].id = next_id_ + (j - a) - 1
      BY <1>2, <2>3
    <3> QED
      BY <1>1, <1>3, <1>6, <2>3, <3>1, SMTT(60)
  <2>4. CASE j \in 1 .. a /\ i \in a + 1 .. a + b
    <3>1. tracks_'[i].id = next_id_ + (i - a) - 1
      BY <1>2, <2>4
    <3>2. next_id_ + (i - a) - 1 < next_id_
      BY <1>3, <1>6, <2>4, <3>1
    <3> QED
      BY <1>1, <2>4, <3>2
  <2> QED
    BY <1>1, <1>4, <2>1, <2>2, <2>3, <2>4
<1> QED
  BY <1>5, <1>6

(* update is done: the tracks are between frames again, the gallery follows. *)
LEMMA UpdateTrack ==
  ASSUME TrackInv, UpdateTracks
  PROVE  TrackInv'
<1>1. PICK kept, e, born : Outcome(kept, e, born)
  BY UpdateOutcome
<1> DEFINE a == Len(kept)
           b == Len(born)
<1>2. /\ frame.stage = "update" /\ Working /\ ~ Working'
      /\ frame' = [stage |-> "reorder"] /\ expected_frame_id_' = expected_frame_id_ + 1
  BY DEF UpdateTracks, Working
<1>3. TypeInv'
  BY <1>1, <1>2, OutcomeFacts DEF TrackInv, TypeInv, FrameInWork
<1>4. IdInv'
  BY <1>1, OutcomeIds DEF IdInv
<1>5. /\ a \in Nat /\ b \in Nat /\ DOMAIN tracks_' = 1 .. a + b
      /\ \A i \in 1 .. a : e[i] \in DOMAIN tracks_ /\ Stays(tracks_'[i], tracks_[e[i]])
      /\ \A i \in a + 1 .. a + b : Alive(tracks_'[i]) /\ ~ IsConfirmed(tracks_'[i])
  BY <1>1, OutcomeFacts
<1> HIDE DEF a, b
<1>6. \A i \in 1 .. a + b : i \in 1 .. a \/ i \in a + 1 .. a + b
  BY <1>5
<1>7. LifeInv'
  BY <1>2, <1>5, <1>6 DEF LifeInv, Stays
<1>8. GalleryInv'
  <2> DEFINE active == {i \in DOMAIN tracks_' : IsConfirmed(tracks_'[i])}
             Row(id) == CHOOSE i \in active : tracks_'[i].id = id
  <2>1. samples' = [id \in {tracks_'[i].id : i \in active} |->
                      IF id \in DOMAIN samples
                      THEN Appended(samples[id], tracks_'[Row(id)].feature)
                      ELSE <<tracks_'[Row(id)].feature>>]
    <3>1. PICK all : all = kept \o born
      OBVIOUS
    <3>2. tracks_' = all /\ samples' = PartialFit(all)
      BY <1>1, <3>1 DEF Outcome
    <3>3. samples' = PartialFit(tracks_')
      BY <3>2
    <3> QED
      BY <3>3, Zenon DEF PartialFit
  <2>2. ASSUME NEW i \in active PROVE Row(tracks_'[i].id) = i
    BY <1>4 DEF IdInv
  <2> HIDE DEF Row
  <2>3. DOMAIN samples' = {tracks_'[i].id : i \in active}
    BY <2>1
  <2>4. ASSUME NEW i \in active
        PROVE  samples'[tracks_'[i].id] = IF tracks_'[i].id \in DOMAIN samples
                                          THEN Appended(samples[tracks_'[i].id], tracks_'[i].feature)
                                          ELSE <<tracks_'[i].feature>>
    BY <2>1, <2>2, <2>4
  <2>5. ASSUME NEW i \in active
        PROVE  samples'[tracks_'[i].id] =
                 Copies(tracks_'[i].feature, tracks_'[i].age + 1 - n_init_)
    <3> DEFINE old == tracks_[e[i]]
    <3>1. i \in 1 .. a /\ e[i] \in DOMAIN tracks_
      BY <1>5, <1>6
    <3>2. /\ tracks_'[i].id = old.id /\ tracks_'[i].feature = old.feature /\ tracks_'[i].age = old.age
          /\ IsConfirmed(old) \/ old.age = n_init_
      BY <1>5, <3>1 DEF Stays
    <3>3. old \in Track /\ Waiting(old)
      <4>1. tracks_ \in Seq(Track)
        BY DEF TrackInv, TypeInv
      <4> QED
        BY <1>2, <3>1, <4>1 DEF TrackInv, LifeInv
    <3>4. old.age \in Nat /\ n_init_ \in Nat
      BY <3>3, TrackingAssumption DEF Track
    <3>5. CASE IsConfirmed(old)
      <4>1. old.id \in DOMAIN samples /\ samples[old.id] = Copies(old.feature, old.age + 0 - n_init_)
        BY <1>2, <3>1, <3>5 DEF TrackInv, GalleryInv
      <4>2. old.age > n_init_
        BY <3>3, <3>5 DEF Waiting, IsConfirmed
      <4>3. PICK life \in Nat : life = old.age + 0 - n_init_ /\ life + 1 = old.age + 1 - n_init_
        BY <3>4, <4>2
      <4> HIDE DEF old
      <4> QED
        BY <2>4, <3>2, <4>1, <4>3, AppendedFacts
    <3>6. CASE ~ IsConfirmed(old)
      <4>1. old.id \notin DOMAIN samples
        BY <3>1, <3>6 DEF TrackInv, GalleryInv, IdInv
      <4>2. old.age + 1 - n_init_ = 1
        BY <3>2, <3>4, <3>6
      <4>3. Copies(old.feature, 1) = <<old.feature>>
        BY AppendedFacts
      <4> HIDE DEF old
      <4> QED
        BY <2>4, <3>2, <4>1, <4>2, <4>3
    <3> QED
      BY <3>5, <3>6
  <2> QED
    BY <1>2, <2>3, <2>5 DEF GalleryInv
<1>9. MatchInv'
  BY <1>2 DEF MatchInv, Working
<1> QED
  BY <1>3, <1>4, <1>7, <1>8, <1>9 DEF TrackInv
(* What a step may do to the ids. *)
IdsKept ==
  /\ \A i, j \in DOMAIN tracks_' : tracks_'[i].id = tracks_'[j].id => i = j
  /\ \A i \in DOMAIN tracks_' :
       \/ \E j \in DOMAIN tracks_ :
            tracks_[j].id = tracks_'[i].id /\ tracks_[j].feature = tracks_'[i].feature
       \/ tracks_'[i].id >= next_id_

(* Every step of the consumer keeps the invariant. *)
LEMMA StepTrack ==
  ASSUME TrackInv, [TrackingNext \/ TrackingDone]_trackingVars
  PROVE  TrackInv'
<1>1. CASE \E f \in 0 .. Frames - 1 : Consume(f)
  BY <1>1, QuietTrack DEF Consume, Idle
<1>2. CASE \E f \in 0 .. Frames - 1 : Drop(f)
  BY <1>2, QuietTrack DEF Drop, Idle
<1>3. CASE ConsumeReturns
  BY <1>3, QuietTrack DEF ConsumeReturns, Idle, consumerVars
<1>4. CASE TrackingDone \/ UNCHANGED trackingVars
  <2>1. UNCHANGED <<tracks_, next_id_, samples, frame, expected_frame_id_>>
    BY <1>4 DEF TrackingDone, trackingVars, trackerVars, consumerVars
  <2>2. TypeInv' /\ IdInv'
    BY <2>1 DEF TrackInv, TypeInv, IdInv
  <2>3. LifeInv' /\ GalleryInv'
    BY <2>1 DEF TrackInv, LifeInv, GalleryInv, Working
  <2>4. MatchInv'
    BY <2>1 DEF TrackInv, MatchInv, UsedOnce, MatchedTracks, Working
  <2> QED
    BY <2>2, <2>3, <2>4 DEF TrackInv
<1> QED
  BY <1>1, <1>2, <1>3, <1>4, ProcessTrack, CascadeTrack, IouTrack, UpdateTrack
     DEF TrackingNext, Tracker

(* And every id its object: predicting changes no id and no feature, update keeps
   those of the tracks that stay and gives new ones to those that are born. *)
LEMMA StepIds ==
  ASSUME TrackInv, [TrackingNext \/ TrackingDone]_trackingVars
  PROVE  IdsKept
<1>1. CASE tracks_' = tracks_
  BY <1>1 DEF TrackInv, IdInv, IdsKept
<1>2. CASE ProcessSequentialFrame
  <2>1. /\ DOMAIN tracks_' = DOMAIN tracks_
        /\ \A i \in DOMAIN tracks_ : tracks_[i] \in Track /\ tracks_'[i] = Predicted(tracks_[i])
    BY <1>2 DEF ProcessSequentialFrame, TrackInv, TypeInv
  <2>2. \A i \in DOMAIN tracks_ :
          tracks_'[i].id = tracks_[i].id /\ tracks_'[i].feature = tracks_[i].feature
    BY <2>1, PredictedFacts
  <2> QED
    BY <2>1, <2>2 DEF TrackInv, IdInv, IdsKept
<1>3. CASE UpdateTracks
  <2>1. PICK kept, e, born : Outcome(kept, e, born)
    BY <1>3, UpdateOutcome
  <2> DEFINE a == Len(kept)
             b == Len(born)
  <2>2. /\ a \in Nat /\ b \in Nat /\ DOMAIN tracks_' = 1 .. a + b /\ next_id_ \in Nat
        /\ \A i \in 1 .. a : e[i] \in DOMAIN tracks_ /\ Stays(tracks_'[i], tracks_[e[i]])
        /\ \A i \in a + 1 .. a + b : tracks_'[i].id = next_id_ + (i - a) - 1
    BY <2>1, OutcomeFacts DEF TrackInv, TypeInv
  <2> HIDE DEF a, b
  <2>3. ASSUME NEW i \in 1 .. a
        PROVE  \E j \in DOMAIN tracks_ :
                 tracks_[j].id = tracks_'[i].id /\ tracks_[j].feature = tracks_'[i].feature
    BY <2>2 DEF Stays
  <2>4. ASSUME NEW i \in a + 1 .. a + b PROVE tracks_'[i].id >= next_id_
    BY <2>2
  <2>5. \A i \in 1 .. a + b : i \in 1 .. a \/ i \in a + 1 .. a + b
    BY <2>2
  <2>6. \A i, j \in DOMAIN tracks_' : tracks_'[i].id = tracks_'[j].id => i = j
    BY <2>1, OutcomeIds
  <2> QED
    BY <2>2, <2>3, <2>4, <2>5, <2>6 DEF IdsKept
<1>4. CASE ~ ProcessSequentialFrame /\ ~ UpdateTracks
  <2>1. tracks_' = tracks_
    BY <1>4 DEF TrackingNext, Tracker, TrackingDone, trackingVars, trackerVars, consumerVars,
                Consume, Drop, ConsumeReturns, CascadeLevel, IouMatching
  <2> QED
    BY <1>1, <2>1
<1> QED
  BY <1>2, <1>3, <1>4

(* The tracker's state is consistent in every state of the consumer. *)
THEOREM TrackingInvariant == TrackingSpec => []TrackInv
<1>1. TrackingInit => TrackInv
  BY InitTrack
<1>2. TrackInv /\ [TrackingNext \/ TrackingDone]_trackingVars => TrackInv'
  BY StepTrack
<1> QED
  BY <1>1, <1>2, PTL DEF TrackingSpec

(* No detection is used twice or forgotten within a frame (update, with
   matching_cascade and min_cost_matching under it). *)
THEOREM UsedOnceCorrect == TrackingSpec => []UsedOnce
<1>1. TrackInv => UsedOnce
  BY DEF TrackInv, MatchInv, UsedOnce, Working
<1> QED
  BY <1>1, TrackingInvariant, PTL

(* Tracks are kept and deleted by their rules, and the gallery holds the
   confirmed ones and of each as many samples as frames since (Track::update,
   mark_missed and partial_fit, called from update). *)
THEOREM LifecycleCorrect == TrackingSpec => []Lifecycle
<1>1. TrackInv => Lifecycle
  <2> SUFFICES ASSUME TrackInv PROVE Lifecycle
    OBVIOUS
  <2>1. Working <=> ~ (frame.stage \in {"idle", "reorder"})
    BY FrameFacts DEF TrackInv, Working
  <2>2. frame.stage \in {"idle", "reorder"} =>
          \A i \in DOMAIN tracks_ :
            LET t == tracks_[i] IN
            \/ t.state = "Tentative" /\ t.time_since_update = 0 /\ t.hits = t.age /\ t.hits < n_init_
            \/ t.state = "Confirmed" /\ t.time_since_update <= max_age_ /\ t.hits >= n_init_
    BY <2>1 DEF TrackInv, LifeInv, Alive
  <2>3. ToSet(Confirmed) = {i \in DOMAIN tracks_ : IsConfirmed(tracks_[i])}
    BY IndexFacts DEF TrackInv
  <2>4. DOMAIN samples = {tracks_[i].id : i \in ToSet(Confirmed)}
    BY <2>3 DEF TrackInv, GalleryInv
  <2>5. \A i \in ToSet(Confirmed) :
          samples[tracks_[i].id] =
            [k \in 1 .. Min({nn_budget_,
                             tracks_[i].age + (IF frame.stage \in {"idle", "reorder"} THEN 1 ELSE 0) - n_init_})
               |-> tracks_[i].feature]
    BY <2>1, <2>3 DEF TrackInv, GalleryInv, Copies
  <2> QED
    BY <2>2, <2>4, <2>5 DEF Lifecycle
<1> QED
  BY <1>1, TrackingInvariant, PTL

(* An id means one object for as long as the program runs. *)
THEOREM IdentityCorrect == TrackingSpec => IdentityKept
<1>1. TrackInv /\ [TrackingNext \/ TrackingDone]_trackingVars => [IdsKept]_trackingVars
  BY StepIds
<1>2. IdentityKept <=> [][IdsKept]_trackingVars
  BY PTL DEF IdentityKept, IdsKept
<1> QED
  BY <1>1, <1>2, TrackingInvariant, PTL DEF TrackingSpec

------------------------------------------------------------------------------
(* Munkres.  Sets taken apart one element at a time. *)

(* A finite set without one of its elements, and with one more. *)
LEMMA CardLess ==
  ASSUME NEW T, IsFiniteSet(T), NEW x \in T
  PROVE  /\ IsFiniteSet(T \ {x}) /\ Cardinality(T \ {x}) \in Nat
         /\ Cardinality(T) \in Nat /\ Cardinality(T \ {x}) + 1 = Cardinality(T)
<1>1. IsFiniteSet(T \ {x}) /\ Cardinality(T \ {x}) = Cardinality(T) - 1
  BY FS_RemoveElement
<1>2. Cardinality(T \ {x}) \in Nat /\ Cardinality(T) \in Nat
  BY <1>1, FS_CardinalityType
<1> QED
  BY <1>1, <1>2

(* With one element more it has one more. *)
LEMMA CardMore ==
  ASSUME NEW T, IsFiniteSet(T), NEW x, x \notin T
  PROVE  /\ IsFiniteSet(T \union {x}) /\ Cardinality(T) \in Nat
         /\ Cardinality(T \union {x}) = Cardinality(T) + 1
  BY FS_AddElement, FS_CardinalityType

(* Induction over the subsets of a finite set, for a set of them. *)
LEMMA SetInduction ==
  ASSUME NEW D, IsFiniteSet(D), NEW G,
         {} \in G, \A T \in SUBSET D, x \in D : T \in G /\ x \notin T => T \union {x} \in G
  PROVE  \A T \in SUBSET D : T \in G
<1> DEFINE S == {k \in Nat : \A T \in SUBSET D : Cardinality(T) = k => T \in G}
<1>1. \A T \in SUBSET D : IsFiniteSet(T) /\ Cardinality(T) \in Nat
  BY FS_Subset, FS_CardinalityType
<1>2. 0 \in S
  BY <1>1, FS_EmptySet
<1>3. ASSUME NEW k \in Nat, k \in S PROVE k + 1 \in S
  <2> SUFFICES ASSUME NEW T \in SUBSET D, Cardinality(T) = k + 1 PROVE T \in G
    OBVIOUS
  <2>1. PICK x \in T : TRUE
    BY <1>1, FS_EmptySet
  <2>2. IsFiniteSet(T \ {x}) /\ Cardinality(T \ {x}) = k
    <3>1. IsFiniteSet(T)
      BY <1>1
    <3> QED
      BY <2>1, <3>1, CardLess
  <2>3. T \ {x} \in G
    BY <1>3, <2>2
  <2>4. (T \ {x}) \union {x} = T
    BY <2>1
  <2> QED
    BY <2>1, <2>3, <2>4
<1>4. \A k \in Nat : k \in S
  <2> HIDE DEF S
  <2> QED
    BY <1>2, <1>3, Induction
<1> QED
  BY <1>1, <1>4

(* A fold over the subsets of D: pick chooses the element to take off. *)
FoldsBy(D, base, pick, op, g) ==
  \A s \in SUBSET D : g[s] = IF s = {} THEN base ELSE op[pick[s]][g[s \ {pick[s]}]]

(* The recursive function of a fold exists, and stays where the rounds stay. *)
LEMMA FoldExists ==
  ASSUME NEW D, IsFiniteSet(D), NEW R, NEW base \in R,
         NEW pick, \A s \in SUBSET D : s # {} => pick[s] \in s,
         NEW op \in [D -> [R -> R]]
  PROVE  \E g \in [SUBSET D -> R] : FoldsBy(D, base, pick, op, g)
<1> DEFINE A == [SUBSET D -> R]
           N == Cardinality(D) + 1
           turn(h) == [s \in SUBSET D |-> IF s = {} THEN base ELSE op[pick[s]][h[s \ {pick[s]}]]]
           start == [s \in SUBSET D |-> base]
<1>1. \A T \in SUBSET D : IsFiniteSet(T) /\ Cardinality(T) \in Nat /\ Cardinality(T) <= Cardinality(D)
  BY FS_Subset, FS_CardinalityType
<1>2. N \in Nat /\ start \in A /\ N # 0
  BY <1>1
<1>3. \A h \in A : turn(h) \in A
  <2> SUFFICES ASSUME NEW h \in A PROVE turn(h) \in A
    OBVIOUS
  <2> SUFFICES ASSUME NEW s \in SUBSET D, s # {} PROVE op[pick[s]][h[s \ {pick[s]}]] \in R
    OBVIOUS
  <2>1. pick[s] \in D /\ s \ {pick[s]} \in SUBSET D
    OBVIOUS
  <2>2. h[s \ {pick[s]}] \in R
    BY <2>1
  <2> QED
    BY <2>1, <2>2
<1>4. PICK stp \in [1 .. N -> [A -> A]] : \A k \in 1 .. N, h \in A : stp[k][h] = turn(h)
  <2> DEFINE st == [k \in 1 .. N |-> [h \in A |-> turn(h)]]
  <2>1. st \in [1 .. N -> [A -> A]]
    BY <1>3
  <2> QED
    BY <2>1
<1>5. PICK f : Loop(A, start, N, stp, f)
  <2> HIDE DEF A, N, start, turn
  <2> QED
    BY <1>2, LoopRuns
<1>6. /\ \A k \in 0 .. N : f[k] \in A
      /\ \A k \in 1 .. N : f[k] = turn(f[k - 1])
  <2> HIDE DEF A, N, start, turn
  <2>1. f \in [0 .. N -> A] /\ \A k \in 1 .. N : f[k] = stp[k][f[k - 1]]
    BY <1>5 DEF Loop
  <2>2. \A k \in 0 .. N : f[k] \in A
    BY <2>1
  <2>3. \A k \in 1 .. N : k - 1 \in 0 .. N
    BY <1>2
  <2> QED
    BY <1>4, <2>1, <2>2, <2>3
<1> DEFINE Q == {k \in Nat : k + 2 <= N => \A s \in SUBSET D : Cardinality(s) <= k => f[k + 2][s] = f[k + 1][s]}
<1>20. ASSUME NEW k \in 0 .. N - 1, NEW s \in SUBSET D
       PROVE  f[k + 1][s] = IF s = {} THEN base ELSE op[pick[s]][f[k][s \ {pick[s]}]]
  <2> HIDE DEF N, A
  <2>1. k + 1 \in 1 .. N /\ (k + 1) - 1 = k
    BY <1>2
  <2>2. f[k + 1] = turn(f[k])
    <3> HIDE DEF turn
    <3>1. f[k + 1] = turn(f[(k + 1) - 1])
      BY <1>6, <2>1
    <3> QED
      BY <2>1, <3>1
  <2> QED
    BY <2>2
<1>7. 0 \in Q
  <2> SUFFICES ASSUME 2 <= N, NEW s \in SUBSET D, Cardinality(s) <= 0 PROVE f[2][s] = f[1][s]
    OBVIOUS
  <2>1. s = {}
    BY <1>1, FS_EmptySet
  <2>2. f[0 + 1][s] = base /\ f[1 + 1][s] = base
    <3>1. 0 \in 0 .. N - 1 /\ 1 \in 0 .. N - 1
      BY <1>2
    <3> HIDE DEF N
    <3> QED
      BY <1>20, <2>1, <3>1
  <2> QED
    BY <2>2
<1>8. ASSUME NEW k \in Nat, k \in Q PROVE k + 1 \in Q
  <2> SUFFICES ASSUME (k + 1) + 2 <= N, NEW s \in SUBSET D, Cardinality(s) <= k + 1
               PROVE  f[(k + 1) + 2][s] = f[(k + 1) + 1][s]
    OBVIOUS
  <2>1. /\ (k + 1) + 2 = (k + 2) + 1 /\ (k + 1) + 1 = k + 2 /\ k + 2 = (k + 1) + 1
        /\ k + 1 \in 0 .. N - 1 /\ k + 2 \in 0 .. N - 1 /\ k + 2 <= N
    BY <1>2
  <2>2. CASE s = {}
    <3> HIDE DEF N
    <3> QED
      BY <1>20, <2>1, <2>2
  <2>3. CASE s # {}
    <3>1. s \ {pick[s]} \in SUBSET D /\ Cardinality(s \ {pick[s]}) <= k
      <4>1. IsFiniteSet(s) /\ pick[s] \in s
        BY <1>1, <2>3
      <4>2. Cardinality(s \ {pick[s]}) \in Nat /\ Cardinality(s \ {pick[s]}) + 1 = Cardinality(s)
        BY <4>1, CardLess
      <4> HIDE DEF Q, N, A
      <4> QED
        BY <4>2
    <3>2. f[k + 2][s \ {pick[s]}] = f[k + 1][s \ {pick[s]}]
      BY <1>8, <2>1, <3>1
    <3> HIDE DEF N
    <3>3. f[(k + 2) + 1][s] = op[pick[s]][f[k + 2][s \ {pick[s]}]]
      BY <1>20, <2>1, <2>3
    <3>4. f[(k + 1) + 1][s] = op[pick[s]][f[k + 1][s \ {pick[s]}]]
      BY <1>20, <2>1, <2>3
    <3> QED
      BY <2>1, <3>2, <3>3, <3>4
  <2> QED
    BY <2>2, <2>3
<1>9. \A k \in Nat : k \in Q
  <2> HIDE DEF Q
  <2> QED
    BY <1>7, <1>8, Induction
<1>10. f[N] \in A
  <2> HIDE DEF N, A, Q
  <2> QED
    BY <1>2, <1>6
<1>11. ASSUME NEW s \in SUBSET D
       PROVE  f[N][s] = IF s = {} THEN base ELSE op[pick[s]][f[N][s \ {pick[s]}]]
  <2>1. N - 1 \in 0 .. N - 1 /\ (N - 1) + 1 = N
    BY <1>2
  <2>2. f[N][s] = IF s = {} THEN base ELSE op[pick[s]][f[N - 1][s \ {pick[s]}]]
    <3> HIDE DEF N
    <3>1. f[(N - 1) + 1][s] = IF s = {} THEN base ELSE op[pick[s]][f[N - 1][s \ {pick[s]}]]
      BY <1>20, <2>1
    <3> QED
      BY <2>1, <3>1
  <2>3. ASSUME s # {} PROVE f[N][s \ {pick[s]}] = f[N - 1][s \ {pick[s]}]
    <3>1. /\ s \ {pick[s]} \in SUBSET D /\ Cardinality(s \ {pick[s]}) <= N - 2
          /\ Cardinality(s \ {pick[s]}) \in Nat
      <4>1. IsFiniteSet(s) /\ Cardinality(s) \in Nat /\ Cardinality(s) <= N - 1
        BY <1>1
      <4>2. Cardinality(s \ {pick[s]}) = Cardinality(s) - 1 /\ IsFiniteSet(s \ {pick[s]})
        BY <2>3, <4>1, FS_RemoveElement
      <4>3. Cardinality(s \ {pick[s]}) \in Nat
        BY <4>2, FS_CardinalityType
      <4> HIDE DEF N
      <4> QED
        BY <4>1, <4>2, <4>3, <1>2
    <3> HIDE DEF N
    <3>2. N - 2 \in Nat /\ (N - 2) + 2 = N /\ (N - 2) + 1 = N - 1
      BY <1>2, <3>1
    <3>3. N - 2 \in Q
      BY <1>9, <3>2
    <3>4. (N - 2) + 2 <= N
      BY <1>2
    <3>5. f[(N - 2) + 2][s \ {pick[s]}] = f[(N - 2) + 1][s \ {pick[s]}]
      BY <3>3, <3>1, <3>4
    <3> QED
      BY <3>2, <3>5
  <2> HIDE DEF N
  <2> QED
    BY <2>2, <2>3
<1> HIDE DEF N, A
<1>12. FoldsBy(D, base, pick, op, f[N])
  BY <1>11 DEF FoldsBy
<1> QED
  BY <1>10, <1>12 DEF A

------------------------------------------------------------------------------
(* What Total adds up to: one entry after another, in any order. *)

(* The sums over the subsets of D, taken apart as Total takes its set apart. *)
Adds(c, D, g) ==
  \A s \in SUBSET D :
    g[s] = IF s = {} THEN 0 ELSE c[CHOOSE x \in s : TRUE] + g[s \ {CHOOSE x \in s : TRUE}]

Summable(c, D) == IsFiniteSet(D) /\ \A x \in D : c[x] \in Int
Sums(c, D, g) == Summable(c, D) /\ g \in [SUBSET D -> Int] /\ Adds(c, D, g)

(* There are such sums for the subsets of any finite set. *)
LEMMA SumsExist ==
  ASSUME NEW D, NEW c, Summable(c, D)
  PROVE  \E g : Sums(c, D, g)
<1> DEFINE pick == [s \in SUBSET D |-> CHOOSE x \in s : TRUE]
           op == [x \in D |-> [r \in Int |-> c[x] + r]]
<1>0. IsFiniteSet(D) /\ \A x \in D : c[x] \in Int
  BY DEF Summable
<1>1. \A s \in SUBSET D : s # {} => pick[s] \in s
  OBVIOUS
<1>2. op \in [D -> [Int -> Int]]
  BY <1>0
<1>3. PICK g \in [SUBSET D -> Int] : FoldsBy(D, 0, pick, op, g)
  <2> HIDE DEF pick, op
  <2>1. PICK R : R = Int
    OBVIOUS
  <2>2. PICK base \in R : base = 0
    BY <2>1
  <2> QED
    BY <1>0, <1>1, <1>2, <2>1, <2>2, FoldExists
<1>4. ASSUME NEW s \in SUBSET D
      PROVE  g[s] = IF s = {} THEN 0 ELSE c[CHOOSE x \in s : TRUE] + g[s \ {CHOOSE x \in s : TRUE}]
  <2>1. pick[s] = CHOOSE x \in s : TRUE
    OBVIOUS
  <2>2. g[s] = IF s = {} THEN 0 ELSE op[pick[s]][g[s \ {pick[s]}]]
    <3> HIDE DEF pick, op
    <3> QED
      BY <1>3 DEF FoldsBy
  <2>3. ASSUME s # {} PROVE op[pick[s]][g[s \ {pick[s]}]] = c[pick[s]] + g[s \ {pick[s]}]
    <3>1. pick[s] \in D /\ s \ {pick[s]} \in SUBSET D
      BY <1>1, <2>3
    <3>2. g[s \ {pick[s]}] \in Int
      BY <3>1
    <3> HIDE DEF pick
    <3> QED
      BY <3>1, <3>2
  <2> HIDE DEF pick, op
  <2> QED
    BY <2>1, <2>2, <2>3
<1> QED
  BY <1>4 DEF Sums, Adds

(* Total takes its value from such a function. *)
LEMMA TotalSums ==
  ASSUME NEW D, NEW c, Summable(c, D)
  PROVE  \E g : Sums(c, D, g) /\ Total(c, D) = g[D]
<1> DEFINE Runs(g) == g = [s \in SUBSET D |-> IF s = {} THEN 0
                  ELSE c[CHOOSE x \in s : TRUE] + g[s \ {CHOOSE x \in s : TRUE}]]
           iter == CHOOSE g : Runs(g)
<1>1. Total(c, D) = iter[D]
  BY DEF Total, MapThenSumSet, MapThenFoldSet
<1>2. PICK g : Sums(c, D, g)
  BY SumsExist
<1>3. g = [s \in SUBSET D |-> g[s]]
  BY <1>2 DEF Sums
<1>4. Runs(g)
  BY <1>2, <1>3 DEF Sums, Adds
<1> HIDE DEF Runs
<1>5. Runs(iter)
  BY <1>4
<1> HIDE DEF iter
<1>6. Adds(c, D, iter)
  BY <1>5 DEF Runs, Adds
<1>7. DOMAIN iter = SUBSET D /\ iter = [s \in SUBSET D |-> iter[s]]
  BY <1>5 DEF Runs
<1>9. \A T \in SUBSET D : IsFiniteSet(T) /\ Cardinality(T) \in Nat
  BY FS_Subset, FS_CardinalityType DEF Summable
<1>8. \A s \in SUBSET D : iter[s] \in Int
  <2> DEFINE S == {k \in Nat : \A s \in SUBSET D : Cardinality(s) = k => iter[s] \in Int}
  <2>2. 0 \in S
    <3>0. iter[{}] = 0
      BY <1>6 DEF Adds
    <3> SUFFICES ASSUME NEW s \in SUBSET D, Cardinality(s) = 0 PROVE iter[s] \in Int
      OBVIOUS
    <3>1. s = {}
      BY <1>9, FS_EmptySet
    <3> QED
      BY <3>0, <3>1
  <2>3. ASSUME NEW k \in Nat, k \in S PROVE k + 1 \in S
    <3> SUFFICES ASSUME NEW s \in SUBSET D, Cardinality(s) = k + 1 PROVE iter[s] \in Int
      OBVIOUS
    <3>1. s # {}
      <4>1. Cardinality({}) = 0 /\ k + 1 # 0
        BY FS_EmptySet
      <4> QED
        BY <4>1
    <3> DEFINE x == CHOOSE x \in s : TRUE
    <3>2. x \in s
      BY <3>1
    <3>3. iter[s] = c[x] + iter[s \ {x}]
      BY <1>6, <3>1 DEF Adds
    <3> HIDE DEF x
    <3>4. Cardinality(s \ {x}) \in Nat /\ Cardinality(s \ {x}) + 1 = Cardinality(s)
      BY <1>9, <3>2, CardLess
    <3>5. Cardinality(s \ {x}) = k
      <4> HIDE DEF S
      <4> QED
        BY <3>4
    <3>6. iter[s \ {x}] \in Int
      BY <2>3, <3>5
    <3> QED
      BY <3>2, <3>3, <3>6 DEF Summable
  <2>4. \A k \in Nat : k \in S
    <3> HIDE DEF S
    <3> QED
      BY <2>2, <2>3, Induction
  <2> QED
    BY <1>9, <2>4
<1> QED
  BY <1>1, <1>6, <1>7, <1>8 DEF Sums

(* In a sum the element taken out first does not matter. *)
LEMMA SumsAny ==
  ASSUME NEW D, NEW c, NEW g, Sums(c, D, g)
  PROVE  \A s \in SUBSET D : \A x \in s : g[s] = c[x] + g[s \ {x}]
<1> DEFINE S == {k \in Nat : \A s \in SUBSET D : \A x \in s : Cardinality(s) = k => g[s] = c[x] + g[s \ {x}]}
<1>0. IsFiniteSet(D) /\ (\A x \in D : c[x] \in Int) /\ g \in [SUBSET D -> Int] /\ Adds(c, D, g)
  BY DEF Sums, Summable
<1>1. \A T \in SUBSET D : IsFiniteSet(T) /\ Cardinality(T) \in Nat
  BY <1>0, FS_Subset, FS_CardinalityType
<1>2. 0 \in S
  BY <1>1, FS_EmptySet
<1>3. ASSUME NEW k \in Nat, k \in S PROVE k + 1 \in S
  <2> SUFFICES ASSUME NEW s \in SUBSET D, NEW x \in s, Cardinality(s) = k + 1
               PROVE  g[s] = c[x] + g[s \ {x}]
    OBVIOUS
  <2> DEFINE p == CHOOSE y \in s : TRUE
  <2>1. p \in s
    OBVIOUS
  <2>2. g[s] = c[p] + g[s \ {p}]
    BY <1>0 DEF Adds
  <2> HIDE DEF p
  <2>3. Cardinality(s \ {p}) = k /\ Cardinality(s \ {x}) = k
    <3>1. Cardinality(s \ {p}) \in Nat /\ Cardinality(s \ {p}) + 1 = Cardinality(s)
      BY <1>1, <2>1, CardLess
    <3>2. Cardinality(s \ {x}) \in Nat /\ Cardinality(s \ {x}) + 1 = Cardinality(s)
      BY <1>1, CardLess
    <3> HIDE DEF S
    <3> QED
      BY <3>1, <3>2
  <2>4. CASE x = p
    BY <2>2, <2>4
  <2>5. CASE x # p
    <3>1. s \ {p} \in SUBSET D /\ x \in s \ {p} /\ s \ {x} \in SUBSET D /\ p \in s \ {x}
      BY <2>1, <2>5
    <3>2. g[s \ {p}] = c[x] + g[(s \ {p}) \ {x}]
      BY <1>3, <2>3, <3>1
    <3>3. g[s \ {x}] = c[p] + g[(s \ {x}) \ {p}]
      BY <1>3, <2>3, <3>1
    <3>4. (s \ {p}) \ {x} = (s \ {x}) \ {p} /\ (s \ {x}) \ {p} \in SUBSET D
      OBVIOUS
    <3>5. PICK i \in Int, j \in Int, r \in Int : i = c[x] /\ j = c[p] /\ r = g[(s \ {x}) \ {p}]
      BY <1>0, <2>1, <3>4
    <3> HIDE DEF S
    <3>6. g[s] = j + (i + r) /\ g[s \ {x}] = j + r
      BY <2>2, <3>2, <3>3, <3>4, <3>5
    <3>7. j + (i + r) = i + (j + r)
      OBVIOUS
    <3> QED
      BY <3>5, <3>6, <3>7
  <2> QED
    BY <2>4, <2>5
<1>4. \A k \in Nat : k \in S
  <2> HIDE DEF S
  <2> QED
    BY <1>2, <1>3, Induction
<1> QED
  BY <1>1, <1>4

(* The sum over part of a set is its Total. *)
LEMMA SumsPart ==
  ASSUME NEW D, NEW c, NEW g, Sums(c, D, g), NEW T \in SUBSET D
  PROVE  g[T] = Total(c, T)
<1>0. IsFiniteSet(D) /\ (\A x \in D : c[x] \in Int) /\ g \in [SUBSET D -> Int] /\ Adds(c, D, g)
  BY DEF Sums, Summable
<1>1. IsFiniteSet(T) /\ Summable(c, T)
  BY <1>0, FS_Subset DEF Summable
<1>2. PICK h : Sums(c, T, h) /\ Total(c, T) = h[T]
  BY <1>1, TotalSums
<1> DEFINE G == {s \in SUBSET T : g[s] = h[s]}
<1>3. {} \in G
  <2>1. h[{}] = 0
    BY <1>2 DEF Sums, Adds
  <2>2. g[{}] = 0
    BY <1>0 DEF Adds
  <2> QED
    BY <2>1, <2>2
<1>4. ASSUME NEW s \in SUBSET T, NEW x \in T, s \in G, x \notin s PROVE s \union {x} \in G
  <2>1. s \union {x} \in SUBSET T /\ s \union {x} \in SUBSET D /\ x \in s \union {x} /\ x \in D
        /\ (s \union {x}) \ {x} = s
    BY <1>4
  <2>2. g[s \union {x}] = c[x] + g[(s \union {x}) \ {x}]
    BY <2>1, SumsAny
  <2>3. h[s \union {x}] = c[x] + h[(s \union {x}) \ {x}]
    BY <1>2, <2>1, SumsAny
  <2> QED
    BY <1>4, <2>1, <2>2, <2>3
<1>5. \A s \in SUBSET T : s \in G
  <2> HIDE DEF G
  <2> QED
    BY <1>1, <1>3, <1>4, SetInduction
<1> QED
  BY <1>2, <1>5

(* A total is an integer; it is zero over nothing, and one more element adds its value. *)
LEMMA TotalAdds ==
  ASSUME NEW D, NEW c, Summable(c, D)
  PROVE  /\ Total(c, {}) = 0
         /\ \A T \in SUBSET D : Total(c, T) \in Int
         /\ \A T \in SUBSET D, x \in D : x \notin T => Total(c, T \union {x}) = c[x] + Total(c, T)
<1>1. PICK g : Sums(c, D, g)
  BY SumsExist
<1>2. \A T \in SUBSET D : g[T] = Total(c, T)
  BY <1>1, SumsPart
<1>3. Total(c, {}) = 0
  <2>1. g[{}] = 0
    BY <1>1 DEF Sums, Adds
  <2> QED
    BY <1>2, <2>1
<1>4. \A T \in SUBSET D : Total(c, T) \in Int
  <2>1. \A T \in SUBSET D : g[T] \in Int
    BY <1>1 DEF Sums
  <2> QED
    BY <1>2, <2>1
<1>5. ASSUME NEW T \in SUBSET D, NEW x \in D, x \notin T
      PROVE  Total(c, T \union {x}) = c[x] + Total(c, T)
  <2>1. T \union {x} \in SUBSET D /\ x \in T \union {x} /\ (T \union {x}) \ {x} = T
    BY <1>5
  <2>2. g[T \union {x}] = c[x] + g[(T \union {x}) \ {x}]
    BY <1>1, <2>1, SumsAny
  <2> QED
    BY <1>2, <2>1, <2>2
<1> QED
  BY <1>3, <1>4, <1>5

(* Smaller values have a smaller total. *)
LEMMA TotalUpTo ==
  ASSUME NEW D, NEW c, NEW d, Summable(c, D), Summable(d, D), \A x \in D : c[x] <= d[x]
  PROVE  Total(c, D) <= Total(d, D)
<1> DEFINE G == {T \in SUBSET D : Total(c, T) <= Total(d, T)}
<1>1. {} \in G
  BY TotalAdds
<1>2. ASSUME NEW T \in SUBSET D, NEW x \in D, T \in G, x \notin T PROVE T \union {x} \in G
  <2>1. PICK i \in Int, j \in Int, p \in Int, q \in Int :
          i = c[x] /\ j = d[x] /\ p = Total(c, T) /\ q = Total(d, T)
    BY TotalAdds DEF Summable
  <2>2. Total(c, T \union {x}) = i + p /\ Total(d, T \union {x}) = j + q
    <3>1. Total(c, T \union {x}) = c[x] + Total(c, T)
      BY <1>2, TotalAdds
    <3>2. Total(d, T \union {x}) = d[x] + Total(d, T)
      BY <1>2, TotalAdds
    <3> QED
      BY <2>1, <3>1, <3>2
  <2>3. i <= j /\ p <= q
    BY <1>2, <2>1
  <2> QED
    BY <2>2, <2>3
<1>3. \A T \in SUBSET D : T \in G
  <2> HIDE DEF G
  <2> QED
    BY <1>1, <1>2, SetInduction DEF Summable
<1> QED
  BY <1>3

(* The total of sums is the sum of the totals. *)
LEMMA TotalPlus ==
  ASSUME NEW D, NEW c, NEW d, NEW e, Summable(c, D), Summable(d, D), Summable(e, D),
         \A x \in D : e[x] = c[x] + d[x]
  PROVE  Total(e, D) = Total(c, D) + Total(d, D)
<1> DEFINE G == {T \in SUBSET D : Total(e, T) = Total(c, T) + Total(d, T)}
<1>1. {} \in G
  BY TotalAdds
<1>2. ASSUME NEW T \in SUBSET D, NEW x \in D, T \in G, x \notin T PROVE T \union {x} \in G
  <2>1. PICK i \in Int, j \in Int, p \in Int, q \in Int :
          i = c[x] /\ j = d[x] /\ p = Total(c, T) /\ q = Total(d, T)
    BY TotalAdds DEF Summable
  <2>2. Total(c, T \union {x}) = i + p
    BY <1>2, <2>1, TotalAdds
  <2>3. Total(d, T \union {x}) = j + q
    BY <1>2, <2>1, TotalAdds
  <2>4. Total(e, T \union {x}) = e[x] + Total(e, T)
    BY <1>2, TotalAdds
  <2>5. e[x] = i + j /\ Total(e, T) = p + q
    BY <1>2, <2>1
  <2> QED
    BY <2>2, <2>3, <2>4, <2>5
<1>3. \A T \in SUBSET D : T \in G
  <2> HIDE DEF G
  <2> QED
    BY <1>1, <1>2, SetInduction DEF Summable
<1> QED
  BY <1>3

(* The total over two sets without a common element. *)
LEMMA TotalUnion ==
  ASSUME NEW D, NEW E, NEW c, Summable(c, D), Summable(c, E), D \cap E = {}
  PROVE  Total(c, D \union E) = Total(c, D) + Total(c, E)
<1> DEFINE G == {T \in SUBSET E : Total(c, D \union T) = Total(c, D) + Total(c, T)}
<1>0. Summable(c, D \union E)
  BY FS_Union DEF Summable
<1>1. {} \in G
  <2>1. D \union {} = D /\ Total(c, {}) = 0 /\ Total(c, D) \in Int
    BY TotalAdds
  <2> QED
    BY <2>1
<1>2. ASSUME NEW T \in SUBSET E, NEW x \in E, T \in G, x \notin T PROVE T \union {x} \in G
  <2>1. PICK i \in Int, p \in Int, q \in Int : i = c[x] /\ p = Total(c, D) /\ q = Total(c, T)
    BY TotalAdds DEF Summable
  <2>2. Total(c, T \union {x}) = i + q
    BY <1>2, <2>1, TotalAdds
  <2>3. Total(c, D \union (T \union {x})) = c[x] + Total(c, D \union T)
    <3>1. /\ D \union T \in SUBSET (D \union E) /\ x \in D \union E /\ x \notin D \union T
          /\ D \union (T \union {x}) = (D \union T) \union {x}
      BY <1>2
    <3>2. PICK V : V = D \union T
      OBVIOUS
    <3>3. PICK W : W = D \union E
      OBVIOUS
    <3>5. Summable(c, W) /\ V \in SUBSET W /\ x \in W /\ x \notin V
      BY <1>0, <3>1, <3>2, <3>3
    <3>4. Total(c, V \union {x}) = c[x] + Total(c, V)
      BY <3>5, TotalAdds
    <3> QED
      BY <3>1, <3>2, <3>4
  <2>4. Total(c, D \union T) = p + q
    BY <1>2, <2>1
  <2>5. i + (p + q) = p + (i + q)
    OBVIOUS
  <2> QED
    BY <2>1, <2>2, <2>3, <2>4, <2>5
<1>3. \A T \in SUBSET E : T \in G
  <2> HIDE DEF G
  <2> QED
    BY <1>1, <1>2, SetInduction DEF Summable
<1> QED
  BY <1>3

(* The same values at other places have the same total. *)
Moved(b, c, D, d) ==
  /\ \A x, y \in D : b[x] = b[y] => x = y
  /\ \A x \in D : d[b[x]] = c[x]

(* Their total is that of the values they were moved from. *)
LEMMA TotalMoved ==
  ASSUME NEW D, NEW c, Summable(c, D), NEW b, NEW d, Moved(b, c, D, d)
  PROVE  /\ Summable(d, {b[x] : x \in D})
         /\ Total(d, {b[x] : x \in D}) = Total(c, D)
<1> DEFINE at(T) == {b[x] : x \in T}
           G == {T \in SUBSET D : Summable(d, at(T)) /\ Total(d, at(T)) = Total(c, T)}
<1>1. {} \in G
  <2>1. at({}) = {}
    OBVIOUS
  <2>2. Summable(d, {}) /\ Summable(c, {})
    BY FS_EmptySet DEF Summable
  <2>3. Total(d, {}) = 0 /\ Total(c, {}) = 0
    BY <2>2, TotalAdds
  <2> QED
    BY <2>1, <2>2, <2>3
<1>2. ASSUME NEW T \in SUBSET D, NEW x \in D, T \in G, x \notin T PROVE T \union {x} \in G
  <2>1. at(T \union {x}) = at(T) \union {b[x]} /\ b[x] \notin at(T)
    BY <1>2 DEF Moved
  <2>2. d[b[x]] = c[x] /\ c[x] \in Int
    BY DEF Moved, Summable
  <2> HIDE DEF at
  <2>3. Summable(d, at(T)) /\ Total(d, at(T)) = Total(c, T)
    BY <1>2
  <2>4. Summable(d, at(T) \union {b[x]})
    BY <2>2, <2>3, FS_AddElement DEF Summable
  <2>5. Total(d, at(T) \union {b[x]}) = d[b[x]] + Total(d, at(T))
    <3>1. at(T) \in SUBSET (at(T) \union {b[x]}) /\ b[x] \in at(T) \union {b[x]}
      OBVIOUS
    <3> QED
      BY <2>1, <2>4, <3>1, TotalAdds
  <2>6. Total(c, T \union {x}) = c[x] + Total(c, T)
    BY <1>2, TotalAdds
  <2> QED
    BY <2>1, <2>2, <2>3, <2>4, <2>5, <2>6
<1>3. \A T \in SUBSET D : T \in G
  <2> HIDE DEF G
  <2> QED
    BY <1>1, <1>2, SetInduction DEF Summable
<1> QED
  BY <1>3

(* The image of a finite set is finite. *)
LEMMA FiniteImage ==
  ASSUME NEW D, IsFiniteSet(D), NEW f
  PROVE  IsFiniteSet({f[x] : x \in D})
<1> DEFINE at(T) == {f[x] : x \in T}
           G == {T \in SUBSET D : IsFiniteSet(at(T))}
<1>1. {} \in G
  <2>1. at({}) = {}
    OBVIOUS
  <2> QED
    BY <2>1, FS_EmptySet
<1>2. ASSUME NEW T \in SUBSET D, NEW x \in D, T \in G, x \notin T PROVE T \union {x} \in G
  <2>1. at(T \union {x}) = at(T) \union {f[x]}
    OBVIOUS
  <2> HIDE DEF at
  <2>2. IsFiniteSet(at(T) \union {f[x]})
    BY <1>2, FS_AddElement
  <2> QED
    BY <2>1, <2>2
<1>3. \A T \in SUBSET D : T \in G
  <2> HIDE DEF G
  <2> QED
    BY <1>1, <1>2, SetInduction
<1> QED
  BY <1>3

(* A finite set of integers has a least and a largest. *)
LEMMA Extremes ==
  ASSUME NEW S \in SUBSET Int, IsFiniteSet(S), S # {}
  PROVE  /\ Min(S) \in S /\ \A y \in S : Min(S) <= y
         /\ Max(S) \in S /\ \A y \in S : y <= Max(S)
<1> DEFINE G == {T \in SUBSET S : T # {} => /\ \E x \in T : \A y \in T : x <= y
                                           /\ \E x \in T : \A y \in T : x >= y}
<1>1. {} \in G
  OBVIOUS
<1>2. ASSUME NEW T \in SUBSET S, NEW z \in S, T \in G, z \notin T PROVE T \union {z} \in G
  <2>1. CASE T = {}
    <3>1. T \union {z} = {z}
      BY <2>1
    <3>2. \A y \in {z} : z <= y /\ z >= y
      OBVIOUS
    <3> QED
      BY <3>1, <3>2
  <2>2. CASE T # {}
    <3>1. PICK x \in T : \A y \in T : x <= y
      BY <1>2, <2>2
    <3>2. PICK w \in T : \A y \in T : w >= y
      BY <1>2, <2>2
    <3>3. \E u \in T \union {z} : \A y \in T \union {z} : u <= y
      <4>1. CASE x <= z
        BY <3>1, <4>1
      <4>2. CASE ~(x <= z)
        <5>1. \A y \in T \union {z} : z <= y
          BY <3>1, <4>2
        <5> QED
          BY <5>1
      <4> QED
        BY <4>1, <4>2
    <3>4. \E u \in T \union {z} : \A y \in T \union {z} : u >= y
      <4>1. CASE w >= z
        BY <3>2, <4>1
      <4>2. CASE ~(w >= z)
        <5>1. \A y \in T \union {z} : z >= y
          BY <3>2, <4>2
        <5> QED
          BY <5>1
      <4> QED
        BY <4>1, <4>2
    <3> QED
      BY <3>3, <3>4
  <2> QED
    BY <2>1, <2>2
<1>3. \A T \in SUBSET S : T \in G
  <2> HIDE DEF G
  <2> QED
    BY <1>1, <1>2, SetInduction
<1>4. (\E x \in S : \A y \in S : x <= y) /\ (\E x \in S : \A y \in S : x >= y)
  BY <1>3
<1>5. Min(S) \in S /\ \A y \in S : Min(S) <= y
  BY <1>4 DEF Min
<1>6. Max(S) \in S /\ \A y \in S : Max(S) >= y
  BY <1>4 DEF Max
<1> QED
  BY <1>5, <1>6

------------------------------------------------------------------------------
(* Independent cells, and the weight of the rank. *)

(* Cells of which no two share a row or a column. *)
Independent(S) == \A a, b \in S : a # b => a[1] # b[1] /\ a[2] # b[2]

(* Every line of the square holds one of the cells S. *)
Complete(S, I) == \A i \in I : (\E a \in S : a[1] = i) /\ (\E a \in S : a[2] = i)

(* There are at most as many independent cells as lines; as many are one on each line. *)
LEMMA IndependentCount ==
  ASSUME NEW I, IsFiniteSet(I), NEW S \in SUBSET (I \X I), Independent(S)
  PROVE  /\ IsFiniteSet(S) /\ Cardinality(S) \in Nat /\ Cardinality(S) <= Cardinality(I)
         /\ Cardinality(S) = Cardinality(I) => Complete(S, I)
         /\ Cardinality({a[2] : a \in S}) = Cardinality(S)
<1> DEFINE f == [a \in S |-> a[1]]
           g == [a \in S |-> a[2]]
           on == {a[2] : a \in S}
<1>1. f \in Injection(S, I) /\ g \in Injection(S, I)
  <2>1. f \in [S -> I] /\ g \in [S -> I]
    OBVIOUS
  <2>2. \A a, b \in S : (f[a] = f[b] => a = b) /\ (g[a] = g[b] => a = b)
    BY DEF Independent
  <2> QED
    BY <2>1, <2>2 DEF Injection, IsInjective
<1>2. IsFiniteSet(S) /\ Cardinality(S) <= Cardinality(I)
  <2> HIDE DEF f, g
  <2> QED
    BY <1>1, FS_Injection
<1>3. ASSUME Cardinality(S) = Cardinality(I) PROVE Complete(S, I)
  <2>1. f \in Surjection(S, I) /\ g \in Surjection(S, I)
    <3> HIDE DEF f, g
    <3>1. f \in Surjection(S, I)
      BY <1>1, <1>3, FS_Injection
    <3>2. g \in Surjection(S, I)
      BY <1>1, <1>3, FS_Injection
    <3> QED
      BY <3>1, <3>2
  <2>2. \A i \in I : (\E a \in S : f[a] = i) /\ (\E a \in S : g[a] = i)
    BY <2>1 DEF Surjection
  <2> QED
    BY <2>2 DEF Complete
<1>4. Cardinality(on) = Cardinality(S)
  <2>1. g \in Injection(S, on)
    BY <1>1 DEF Injection, IsInjective
  <2>2. g \in Surjection(S, on)
    BY DEF Surjection
  <2> HIDE DEF g, on
  <2> QED
    BY <1>2, <2>1, <2>2, FS_Surjection
<1> QED
  BY <1>2, <1>3, <1>4, FS_CardinalityType

(* Cells on every row, or on every column, are not fewer than the lines. *)
LEMMA EnoughCells ==
  ASSUME NEW I, IsFiniteSet(I), NEW S, IsFiniteSet(S),
         \/ \A i \in I : \E a \in S : a[1] = i
         \/ \A i \in I : \E a \in S : a[2] = i
  PROVE  Cardinality(I) <= Cardinality(S)
<1>1. CASE \A i \in I : \E a \in S : a[1] = i
  <2> DEFINE f == [i \in I |-> CHOOSE a \in S : a[1] = i]
  <2>1. \A i \in I : f[i] \in S /\ f[i][1] = i
    BY <1>1
  <2>2. f \in Injection(I, S)
    <3>1. f \in [I -> S]
      BY <2>1
    <3> HIDE DEF f
    <3>2. \A i, j \in I : f[i] = f[j] => i = j
      BY <2>1
    <3> QED
      BY <3>1, <3>2 DEF Injection, IsInjective
  <2> HIDE DEF f
  <2> QED
    BY <2>2, FS_Injection
<1>2. CASE \A i \in I : \E a \in S : a[2] = i
  <2> DEFINE f == [i \in I |-> CHOOSE a \in S : a[2] = i]
  <2>1. \A i \in I : f[i] \in S /\ f[i][2] = i
    BY <1>2
  <2>2. f \in Injection(I, S)
    <3>1. f \in [I -> S]
      BY <2>1
    <3> HIDE DEF f
    <3>2. \A i, j \in I : f[i] = f[j] => i = j
      BY <2>1
    <3> QED
      BY <3>1, <3>2 DEF Injection, IsInjective
  <2> HIDE DEF f
  <2> QED
    BY <2>2, FS_Injection
<1> QED
  BY <1>1, <1>2

(* A set of natural numbers has a least. *)
LEMMA LeastNat ==
  ASSUME NEW S \in SUBSET Nat, S # {}
  PROVE  \E x \in S : \A y \in S : x <= y
<1>1. \E x \in S : \A y \in S : ~ (<<y, x>> \in OpToRel(<, Nat))
  BY WFMin, NatLessThanWellFounded
<1>2. PICK x \in S : \A y \in S : ~ (y < x)
  BY <1>1 DEF OpToRel
<1>3. \A y \in S : x <= y
  BY <1>2
<1> QED
  BY <1>3

(* The first of some cells in row order is one of them. *)
LEMMA FirstIn ==
  ASSUME NEW I \in SUBSET Nat, NEW S \in SUBSET (I \X I), S # {}
  PROVE  First(S) \in S
<1> DEFINE R == {a[1] : a \in S}
<1>1. R \in SUBSET Nat /\ R # {}
  OBVIOUS
<1>2. PICK r \in R : \A y \in R : r <= y
  BY <1>1, LeastNat
<1> DEFINE C == {a[2] : a \in {b \in S : b[1] = r}}
<1>3. C \in SUBSET Nat /\ C # {}
  OBVIOUS
<1>4. PICK c \in C : \A y \in C : c <= y
  <2> HIDE DEF C
  <2> QED
    BY <1>3, LeastNat
<1>5. PICK a \in S : a[1] = r /\ a[2] = c
  OBVIOUS
<1>6. ASSUME NEW b \in S PROVE Before(a, b)
  <2>1. a[1] \in Nat /\ a[2] \in Nat /\ b[1] \in Nat /\ b[2] \in Nat
    OBVIOUS
  <2>2. a[1] <= b[1]
    BY <1>2, <1>5
  <2>3. a[1] = b[1] => a[2] <= b[2]
    BY <1>4, <1>5
  <2> QED
    BY <2>1, <2>2, <2>3 DEF Before
<1> QED
  BY <1>6 DEF First

(* How the rank is weighed: n lines, s stars, k covered rows, place p. *)
Weight(n, s, k, p) == ((n - s) * (n + 1) + n - k) * (2 * n + 9) + p

(* It is a natural number. *)
LEMMA WeightNat ==
  ASSUME NEW n \in Nat, NEW s \in 0 .. n, NEW k \in 0 .. n, NEW p \in Nat
  PROVE  Weight(n, s, k, p) \in Nat
<1>1. PICK a \in Nat : a = n - s
  OBVIOUS
<1>2. PICK b \in Nat : b = a * (n + 1)
  OBVIOUS
<1>3. PICK c \in Nat : c = b + n - k
  OBVIOUS
<1>4. c * (2 * n + 9) \in Nat
  OBVIOUS
<1> QED
  BY <1>1, <1>2, <1>3, <1>4 DEF Weight

(* The weight is less with a later place, one more covered row or one more star. *)
LEMMA WeightFalls ==
  ASSUME NEW n \in Nat, NEW s \in 0 .. n, NEW k \in 0 .. n, NEW p \in Nat,
         NEW t \in 0 .. n, NEW l \in 0 .. n, NEW q \in Nat, q < p + 2 * n + 9,
         \/ t >= s /\ l = k /\ q < p
         \/ t = s /\ l = k + 1
         \/ t = s + 1
  PROVE  Weight(n, t, l, q) < Weight(n, s, k, p)
<1>1. PICK a \in Nat, b \in Nat : a = n - s /\ b = n - t
  OBVIOUS
<1>2. PICK c \in Nat, d \in Nat : c = a * (n + 1) /\ d = b * (n + 1)
  OBVIOUS
<1>3. PICK e \in Nat, f \in Nat : e = c + n - k /\ f = d + n - l
  OBVIOUS
<1>4. PICK m \in Nat : m = 2 * n + 9
  OBVIOUS
<1>5. PICK g \in Nat, h \in Nat : g = e * m /\ h = f * m
  OBVIOUS
<1>6. Weight(n, s, k, p) = g + p /\ Weight(n, t, l, q) = h + q
  BY <1>1, <1>2, <1>3, <1>4, <1>5 DEF Weight
<1>7. CASE t >= s /\ l = k /\ q < p
  <2>1. b <= a
    BY <1>1, <1>7
  <2>2. d <= c
    BY <1>2, <2>1
  <2>3. f <= e
    BY <1>3, <1>7, <2>2
  <2>4. h <= g
    BY <1>5, <2>3
  <2> QED
    BY <1>6, <1>7, <2>4
<1>8. ASSUME f + 1 <= e PROVE h + q < g + p
  <2>1. (f + 1) * m <= e * m
    BY <1>8
  <2>2. (f + 1) * m = h + m
    BY <1>5
  <2> QED
    BY <1>4, <1>5, <2>1, <2>2
<1>9. CASE t = s /\ l = k + 1
  <2>1. f + 1 = e
    BY <1>1, <1>2, <1>3, <1>9
  <2> QED
    BY <1>6, <1>8, <2>1
<1>10. CASE t = s + 1
  <2>1. b + 1 = a
    BY <1>1, <1>10
  <2>2. (b + 1) * (n + 1) = d + (n + 1)
    BY <1>2
  <2>3. c = d + (n + 1)
    BY <1>2, <2>1, <2>2
  <2>4. f + 1 <= e
    BY <1>3, <2>3
  <2> QED
    BY <1>6, <1>8, <2>4
<1> QED
  BY <1>7, <1>9, <1>10

------------------------------------------------------------------------------
(* The invariant of the solver. *)

Primes == {cell \in Grid : mask_matrix[cell] = "PRIME"}

(* The stars after the cells V are turned. *)
Turned(V) == {cell \in Grid : (cell \in Stars) # (cell \in V)}

(* The types of the solver's input and state. *)
SolverInput ==
  /\ rows \in Nat \ {0} /\ columns \in Nat \ {0}
  /\ cost \in [Cells(rows, columns) -> Int]

SolverShape ==
  /\ SolverInput
  /\ matrix \in [Grid -> Int]
  /\ mask_matrix \in [Grid -> {"NORMAL", "STAR", "PRIME"}]
  /\ row_mask \subseteq Index /\ col_mask \subseteq Index
  /\ path \in Seq(Grid)
  /\ step \in -2 .. 5

(* The stars are independent zeros.  A covered row has a star and a prime, a
   row has no second prime; a column is covered by the star of an uncovered row. *)
Marks ==
  /\ Independent(Stars)
  /\ \A cell \in Stars \union Primes : matrix[cell] = 0
  /\ \A p, q \in Primes : p[1] = q[1] => p = q
  /\ step \in {-2, -1, 1} => Stars = {}
  /\ step \in {-2, -1, 1, 2} => Primes = {} /\ row_mask = {}
  /\ \A r \in row_mask : (\E s \in Stars : s[1] = r) /\ (\E p \in Primes : p[1] = r)
  /\ step \in {3, 4, 5} => Cardinality(Stars) < size
  /\ step \in {3, 5} => \A p \in Primes : p[1] \in row_mask
  /\ step \in {3, 5} => \A j \in Index : j \in col_mask <=> \E s \in Stars : s[2] = j /\ s[1] \notin row_mask
  /\ step = 5 => \A cell \in Uncovered : matrix[cell] # 0

(* The path goes down the order of the rows; turning it gives one more star. *)
OnPath(ord) ==
  LET z == Last(path)  V == ToSet(path) IN
  /\ path # << >> /\ z \in V \cap Primes /\ V \subseteq Stars \union Primes
  /\ \A a \in V : ord[z[1]] <= ord[a[1]]
  /\ \A p \in V \cap Primes : /\ p # z => \E s \in V \cap Stars : s[2] = p[2]
                              /\ \A s \in Stars : s[1] = p[1] => s \in V
  /\ \A p, q \in V \cap Primes : p # q => p[2] # q[2]
  /\ Cardinality(Turned(V)) = Cardinality(Stars) + 1
  /\ Len(path) + 2 * ord[z[1]] <= 2 * size + 1

(* The rows in the order they were covered: the star in the column of a prime
   was covered before the row of that prime. *)
Order(ord) ==
  /\ \A p \in Primes, s \in Stars : s[2] = p[2] => s[1] \in row_mask /\ ord[s[1]] < ord[p[1]]
  /\ \A r \in row_mask : ord[r] <= Cardinality(row_mask)
  /\ step = 4 => OnPath(ord)

Ordered == \E ord \in [Index -> Nat] : Order(ord)

(* What was taken off the matrix was taken off whole rows and columns. *)
Dual ==
  \E u, v \in [Index -> Int] :
    \A cell \in Grid : Padded[cell] = matrix[cell] + u[cell[1]] + v[cell[2]]

(* Entries that are not negative stay so. *)
NonNegative ==
  (\A cell \in DOMAIN cost : cost[cell] >= 0) => \A cell \in Grid : matrix[cell] >= 0

SolverInv == SolverShape /\ Marks /\ Ordered /\ Dual /\ NonNegative

(* The square and its lines. *)
LEMMA Square ==
  ASSUME SolverInput
  PROVE  /\ size \in Nat /\ size # 0 /\ rows <= size /\ columns <= size
         /\ Index = 1 .. size /\ Index \subseteq Nat /\ Index # {}
         /\ IsFiniteSet(Index) /\ Cardinality(Index) = size
         /\ Grid = Index \X Index /\ IsFiniteSet(Grid)
         /\ Cells(rows, columns) \subseteq Grid
<1>1. rows \in Nat /\ columns \in Nat /\ rows # 0 /\ columns # 0
  BY DEF SolverInput
<1>2. size \in Nat /\ size # 0 /\ rows <= size /\ columns <= size
  BY <1>1 DEF size
<1>3. Index = 1 .. size /\ Index \subseteq Nat /\ Index # {}
  <2>1. Index = 1 .. size
    BY DEF Index
  <2>2. 1 \in 1 .. size
    BY <1>2
  <2> QED
    BY <2>1, <2>2, <1>2
<1>4. IsFiniteSet(Index) /\ Cardinality(Index) = size
  BY <1>2, FS_Interval DEF Index
<1>5. Grid = Index \X Index
  BY DEF Grid, Cells, Index
<1>6. IsFiniteSet(Grid)
  BY <1>4, <1>5, FS_Product
<1>7. Cells(rows, columns) \subseteq Grid
  BY <1>1, <1>2, <1>3, <1>5 DEF Cells
<1> QED
  BY <1>2, <1>3, <1>4, <1>5, <1>6, <1>7

(* Counts of what is marked. *)
LEMMA Counts ==
  ASSUME SolverShape, Independent(Stars)
  PROVE  /\ IsFiniteSet(Stars) /\ Cardinality(Stars) \in 0 .. size
         /\ Cardinality(Stars) = size => Complete(Stars, Index)
         /\ Cardinality({s[2] : s \in Stars}) = Cardinality(Stars)
         /\ IsFiniteSet(row_mask) /\ Cardinality(row_mask) \in 0 .. size
<1>1. Stars \in SUBSET (Index \X Index) /\ IsFiniteSet(Index) /\ Cardinality(Index) = size /\ size \in Nat
  BY Square DEF Stars, SolverShape
<1>2. /\ IsFiniteSet(Stars) /\ Cardinality(Stars) \in Nat /\ Cardinality(Stars) <= Cardinality(Index)
      /\ Cardinality(Stars) = Cardinality(Index) => Complete(Stars, Index)
      /\ Cardinality({a[2] : a \in Stars}) = Cardinality(Stars)
  BY <1>1, IndependentCount
<1>3. IsFiniteSet(row_mask) /\ Cardinality(row_mask) <= Cardinality(Index)
  <2>1. row_mask \in SUBSET Index
    BY DEF SolverShape
  <2> QED
    BY <1>1, <2>1, FS_Subset
<1>4. Cardinality(row_mask) \in Nat
  BY <1>3, FS_CardinalityType
<1> QED
  BY <1>1, <1>2, <1>3, <1>4

(* The matrix that is worked on is the given one, filled up with its largest entry. *)
LEMMA PaddedEntries ==
  ASSUME SolverInput
  PROVE  /\ Max(Range(cost)) \in Range(cost)
         /\ \A x \in DOMAIN cost : cost[x] <= Max(Range(cost))
         /\ Padded \in [Grid -> Int]
         /\ \A cell \in Grid : Padded[cell] = IF cell \in Cells(rows, columns) THEN cost[cell]
                                              ELSE Max(Range(cost))
<1>1. cost \in [Cells(rows, columns) -> Int] /\ IsFiniteSet(Cells(rows, columns)) /\ <<1, 1>> \in Cells(rows, columns)
  <2>1. cost \in [Cells(rows, columns) -> Int]
    BY DEF SolverInput
  <2>2. IsFiniteSet(Cells(rows, columns))
    BY Square, FS_Subset
  <2>3. rows \in Nat /\ columns \in Nat /\ rows # 0 /\ columns # 0
    BY DEF SolverInput
  <2>4. 1 \in 1 .. rows /\ 1 \in 1 .. columns
    BY <2>3
  <2> QED
    BY <2>1, <2>2, <2>4 DEF Cells
<1>2. IsFiniteSet(Range(cost)) /\ Range(cost) \in SUBSET Int /\ Range(cost) # {}
  <2>1. IsFiniteSet({cost[x] : x \in Cells(rows, columns)})
    BY <1>1, FiniteImage
  <2>2. Range(cost) = {cost[x] : x \in Cells(rows, columns)}
    BY <1>1 DEF Range
  <2>3. cost[<<1, 1>>] \in Range(cost)
    BY <1>1, <2>2
  <2>4. Range(cost) \in SUBSET Int
    BY <1>1, <2>2
  <2> QED
    BY <2>1, <2>2, <2>3, <2>4
<1>3. Max(Range(cost)) \in Range(cost) /\ \A y \in Range(cost) : y <= Max(Range(cost))
  BY <1>2, Extremes
<1>4. \A x \in DOMAIN cost : cost[x] \in Range(cost)
  BY DEF Range
<1>5. PICK m \in Int : m = Max(Range(cost))
  BY <1>2, <1>3
<1>6. Padded = [cell \in Grid |-> IF cell \in DOMAIN cost THEN cost[cell] ELSE m]
  BY <1>5 DEF Padded
<1>7. DOMAIN cost = Cells(rows, columns) /\ \A x \in Cells(rows, columns) : cost[x] \in Int
  BY <1>1
<1>8. Padded \in [Grid -> Int]
  BY <1>6, <1>7
<1>9. \A cell \in Grid : Padded[cell] = IF cell \in Cells(rows, columns) THEN cost[cell] ELSE m
  BY <1>6, <1>7
<1> QED
  BY <1>3, <1>4, <1>5, <1>8, <1>9

(* solve() starts with nothing marked. *)
LEMMA SolverStarts ==
  ASSUME SolverInit
  PROVE  SolverInv
<1>1. PICK shape \in Shapes :
        /\ rows = shape[1] /\ columns = shape[2]
        /\ cost \in [Cells(rows, columns) -> Costs[shape]]
        /\ matrix = Padded
        /\ mask_matrix = [cell \in Grid |-> "NORMAL"]
        /\ row_mask = {} /\ col_mask = {} /\ path = << >> /\ step = -2
  BY DEF SolverInit
<1>2. rows \in Nat \ {0} /\ columns \in Nat \ {0} /\ Costs[shape] \subseteq Int
  BY <1>1, SolverAssumption
<1>3. cost \in [Cells(rows, columns) -> Int]
  BY <1>1, <1>2
<1>4. SolverInput
  BY <1>2, <1>3 DEF SolverInput
<1>5. SolverShape
  <2>1. matrix \in [Grid -> Int]
    BY <1>1, <1>4, PaddedEntries
  <2>2. mask_matrix \in [Grid -> {"NORMAL", "STAR", "PRIME"}]
    BY <1>1
  <2>3. path \in Seq(Grid) /\ step \in -2 .. 5 /\ row_mask \subseteq Index /\ col_mask \subseteq Index
    BY <1>1
  <2> QED
    BY <1>4, <2>1, <2>2, <2>3 DEF SolverShape
<1>10. Stars = {} /\ Primes = {}
  BY <1>1 DEF Stars, Primes
<1>6. Marks
  BY <1>1, <1>10 DEF Marks, Independent
<1>7. Ordered
  <2> DEFINE ord == [i \in Index |-> 0]
  <2>1. ord \in [Index -> Nat]
    OBVIOUS
  <2>2. Order(ord)
    BY <1>1, <1>10 DEF Order
  <2> QED
    BY <2>1, <2>2 DEF Ordered
<1>8. Dual
  <2> DEFINE u == [i \in Index |-> 0]
  <2>1. u \in [Index -> Int]
    OBVIOUS
  <2>2. ASSUME NEW cell \in Grid PROVE Padded[cell] = matrix[cell] + u[cell[1]] + u[cell[2]]
    <3>1. cell[1] \in Index /\ cell[2] \in Index /\ matrix[cell] \in Int
      BY <1>4, <1>5, Square DEF SolverShape
    <3> QED
      BY <1>1, <3>1
  <2> HIDE DEF u
  <2> QED
    BY <2>1, <2>2 DEF Dual
<1>9. NonNegative
  <2> SUFFICES ASSUME \A cell \in DOMAIN cost : cost[cell] >= 0, NEW cell \in Grid
               PROVE  matrix[cell] >= 0
    BY DEF NonNegative
  <2>1. DOMAIN cost = Cells(rows, columns)
    BY <1>3
  <2>2. Padded[cell] = IF cell \in Cells(rows, columns) THEN cost[cell] ELSE Max(Range(cost))
    BY <1>4, PaddedEntries
  <2>3. Max(Range(cost)) >= 0
    <3>1. Max(Range(cost)) \in Range(cost)
      BY <1>4, PaddedEntries
    <3> QED
      BY <3>1 DEF Range
  <2> QED
    BY <1>1, <2>1, <2>2, <2>3
<1> QED
  BY <1>5, <1>6, <1>7, <1>8, <1>9 DEF SolverInv

------------------------------------------------------------------------------
(* The steps keep it. *)

(* The input stays, and what is derived from it. *)
LEMMA InputKept ==
  ASSUME UNCHANGED input
  PROVE  /\ size' = size /\ Index' = Index /\ Grid' = Grid /\ Padded' = Padded
         /\ SolverInput => SolverInput'
<1>1. rows' = rows /\ columns' = columns /\ cost' = cost
  BY DEF input
<1>2. size' = size /\ Index' = Index /\ Grid' = Grid
  BY <1>1 DEF size, Index, Grid
<1>3. Padded' = Padded
  BY <1>1, <1>2 DEF Padded
<1> QED
  BY <1>1, <1>2, <1>3 DEF SolverInput

(* The marks stay. *)
LEMMA MarksKept ==
  ASSUME UNCHANGED input, UNCHANGED mask_matrix
  PROVE  Stars' = Stars /\ Primes' = Primes
  BY InputKept DEF Stars, Primes

(* What is taken off a line whose entries are not negative is not more than any. *)
LEMMA LineLeast ==
  ASSUME NEW S \in SUBSET Int, IsFiniteSet(S), S # {}
  PROVE  /\ Max({0, Min(S)}) \in Int
         /\ (\A y \in S : y >= 0) => \A y \in S : Max({0, Min(S)}) <= y
<1>1. PICK m \in S : m = Min(S) /\ \A y \in S : m <= y
  BY Extremes
<1>2. Max({0, m}) \in {0, m} /\ Max({0, m}) >= 0 /\ Max({0, m}) >= m
  <2>1. \E x \in {0, m} : \A y \in {0, m} : x >= y
    <3>1. CASE m >= 0
      BY <3>1
    <3>2. CASE ~(m >= 0)
      BY <3>2
    <3> QED
      BY <3>1, <3>2
  <2>2. Max({0, m}) \in {0, m} /\ \A y \in {0, m} : Max({0, m}) >= y
    BY <2>1 DEF Max
  <2> QED
    BY <2>2
<1>3. ASSUME \A y \in S : y >= 0, NEW y \in S PROVE Max({0, m}) <= y
  BY <1>1, <1>2, <1>3
<1> QED
  BY <1>1, <1>2, <1>3

(* minimize_along_direction takes a value off each line, and makes nothing negative. *)
LEMMA Minimized ==
  ASSUME SolverShape, NEW over \in BOOLEAN, NEW m, m = MinimizeAlongDirection(over)
  PROVE  /\ m \in [Grid -> Int]
         /\ \E w \in [Index -> Int] : \A cell \in Grid : m[cell] = matrix[cell] - w[cell[IF over THEN 2 ELSE 1]]
         /\ (\A cell \in Grid : matrix[cell] >= 0) => \A cell \in Grid : m[cell] >= 0
<1> DEFINE line(k) == {matrix[IF over THEN <<i, k>> ELSE <<k, i>>] : i \in Index}
           w == [k \in Index |-> Max({0, Min(line(k))})]
           of(cell) == cell[IF over THEN 2 ELSE 1]
<1>1. m = [cell \in Grid |-> matrix[cell] - w[of(cell)]]
  BY DEF MinimizeAlongDirection
<1>2. Grid = Index \X Index /\ IsFiniteSet(Index) /\ Index # {} /\ matrix \in [Grid -> Int]
  BY Square DEF SolverShape
<1>3. ASSUME NEW k \in Index
      PROVE  line(k) \in SUBSET Int /\ IsFiniteSet(line(k)) /\ line(k) # {}
  <2> DEFINE f == [i \in Index |-> matrix[IF over THEN <<i, k>> ELSE <<k, i>>]]
  <2>1. line(k) = {f[i] : i \in Index}
    OBVIOUS
  <2>2. \A i \in Index : f[i] \in Int
    BY <1>2
  <2> HIDE DEF f, line
  <2>3. IsFiniteSet({f[i] : i \in Index})
    BY <1>2, FiniteImage
  <2> QED
    BY <1>2, <2>1, <2>2, <2>3
<1>4. \A cell \in Grid : of(cell) \in Index /\ matrix[cell] \in line(of(cell))
  <2> SUFFICES ASSUME NEW cell \in Grid PROVE of(cell) \in Index /\ matrix[cell] \in line(of(cell))
    OBVIOUS
  <2>1. cell[1] \in Index /\ cell[2] \in Index /\ cell = <<cell[1], cell[2]>>
    BY <1>2
  <2>2. CASE over
    BY <2>1, <2>2
  <2>3. CASE ~over
    BY <2>1, <2>3
  <2> QED
    BY <2>2, <2>3
<1> HIDE DEF line
<1>5. w \in [Index -> Int]
  BY <1>3, LineLeast
<1>6. \A k \in Index : (\A y \in line(k) : y >= 0) => \A y \in line(k) : w[k] <= y
  BY <1>3, LineLeast
<1> HIDE DEF w, of
<1>7. \A cell \in Grid : matrix[cell] \in Int /\ w[of(cell)] \in Int
  BY <1>2, <1>4, <1>5
<1>8. m \in [Grid -> Int] /\ \A cell \in Grid : m[cell] = matrix[cell] - w[of(cell)]
  BY <1>1, <1>7
<1>9. ASSUME \A cell \in Grid : matrix[cell] >= 0, NEW cell \in Grid PROVE m[cell] >= 0
  <2>1. \A y \in line(of(cell)) : y >= 0
    <3> SUFFICES ASSUME NEW i \in Index PROVE matrix[IF over THEN <<i, of(cell)>> ELSE <<of(cell), i>>] >= 0
      BY DEF line
    <3>1. (IF over THEN <<i, of(cell)>> ELSE <<of(cell), i>>) \in Grid
      BY <1>2, <1>4
    <3> QED
      BY <1>9, <3>1
  <2>2. w[of(cell)] <= matrix[cell]
    BY <1>4, <1>6, <2>1
  <2> QED
    BY <1>7, <1>8, <2>2
<1> QED
  BY <1>5, <1>8, <1>9 DEF of

(* minimize_along_direction keeps the invariant. *)
LEMMA MinimizeKeeps ==
  ASSUME SolverInv, Minimize
  PROVE  SolverInv'
<1>1. /\ step \in {-2, -1} /\ step' \in {-1, 1} /\ UNCHANGED <<mask_matrix, row_mask, col_mask, path>>
      /\ UNCHANGED input
  BY DEF Minimize
<1>2. PICK over \in BOOLEAN : matrix' = MinimizeAlongDirection(over)
  BY DEF Minimize
<1>3. PICK m : m = matrix'
  OBVIOUS
<1>4. /\ m \in [Grid -> Int]
      /\ \E w \in [Index -> Int] : \A cell \in Grid : m[cell] = matrix[cell] - w[cell[IF over THEN 2 ELSE 1]]
      /\ (\A cell \in Grid : matrix[cell] >= 0) => \A cell \in Grid : m[cell] >= 0
  BY <1>2, <1>3, Minimized DEF SolverInv
<1>5. size' = size /\ Index' = Index /\ Grid' = Grid /\ Padded' = Padded /\ SolverInput'
  BY <1>1, InputKept DEF SolverInv, SolverShape
<1>6. Stars' = Stars /\ Primes' = Primes
  BY <1>1, MarksKept
<1>7. SolverShape'
  BY <1>1, <1>3, <1>4, <1>5 DEF SolverInv, SolverShape
<1>8. Stars = {} /\ Primes = {} /\ row_mask = {}
  BY <1>1 DEF SolverInv, Marks
<1>9. Marks'
  BY <1>1, <1>6, <1>8 DEF Marks, Independent
<1>10. Ordered'
  <2>1. PICK ord \in [Index -> Nat] : Order(ord)
    BY DEF SolverInv, Ordered
  <2>2. Order(ord)'
    BY <1>1, <1>6, <1>8 DEF Order
  <2> QED
    BY <1>5, <2>1, <2>2 DEF Ordered
<1>11. Dual'
  <2>1. PICK u \in [Index -> Int], v \in [Index -> Int] :
          \A cell \in Grid : Padded[cell] = matrix[cell] + u[cell[1]] + v[cell[2]]
    BY DEF SolverInv, Dual
  <2>2. PICK w \in [Index -> Int] : \A cell \in Grid : m[cell] = matrix[cell] - w[cell[IF over THEN 2 ELSE 1]]
    BY <1>4
  <2>3. \A cell \in Grid : cell[1] \in Index /\ cell[2] \in Index /\ matrix[cell] \in Int /\ m[cell] \in Int
    <3>1. Grid = Index \X Index /\ matrix \in [Grid -> Int]
      BY Square DEF SolverInv, SolverShape
    <3> QED
      BY <1>4, <3>1
  <2> DEFINE a == [i \in Index |-> IF over THEN u[i] ELSE u[i] + w[i]]
             b == [i \in Index |-> IF over THEN v[i] + w[i] ELSE v[i]]
  <2>4. a \in [Index -> Int] /\ b \in [Index -> Int]
    OBVIOUS
  <2>5. ASSUME NEW cell \in Grid PROVE Padded[cell] = m[cell] + a[cell[1]] + b[cell[2]]
    <3>1. PICK i \in Index, j \in Index : i = cell[1] /\ j = cell[2]
      BY <2>3
    <3>2. Padded[cell] = matrix[cell] + u[i] + v[j]
      BY <2>1, <3>1
    <3>3. CASE over
      <4>1. m[cell] = matrix[cell] - w[j]
        BY <2>2, <3>1, <3>3
      <4>2. a[i] = u[i] /\ b[j] = v[j] + w[j]
        BY <3>3
      <4> QED
        BY <2>3, <3>1, <3>2, <4>1, <4>2
    <3>4. CASE ~over
      <4>1. m[cell] = matrix[cell] - w[i]
        BY <2>2, <3>1, <3>4
      <4>2. a[i] = u[i] + w[i] /\ b[j] = v[j]
        BY <3>4
      <4> QED
        BY <2>3, <3>1, <3>2, <4>1, <4>2
    <3> QED
      BY <3>3, <3>4
  <2> HIDE DEF a, b
  <2> QED
    BY <1>3, <1>5, <2>4, <2>5 DEF Dual
<1>12. NonNegative'
  BY <1>1, <1>3, <1>4, <1>5 DEF SolverInv, NonNegative, input
<1> QED
  BY <1>7, <1>9, <1>10, <1>11, <1>12 DEF SolverInv

(* Cells that step 1 may star together. *)
Starable(S) == Independent(S) /\ \A a \in S : matrix[a] = 0

(* Step 1 stars independent zeros. *)
LEMMA StarZerosStarable ==
  ASSUME SolverInput
  PROVE  Starable(StarZeros)
<1> DEFINE add(starred, cell) ==
             IF matrix[cell] = 0 /\ \A s \in starred : s[1] # cell[1] /\ s[2] # cell[2]
             THEN starred \union {cell} ELSE starred
           D == DOMAIN RowMajor
           R == {S \in SUBSET Range(RowMajor) : Starable(S)}
           pick == [s \in SUBSET D |-> Max(s)]
           op == [k \in D |-> [S \in R |-> add(S, RowMajor[k])]]
           Runs(g) == g = [s \in SUBSET D |-> IF s = {} THEN {} ELSE add(g[s \ {Max(s)}], RowMajor[Max(s)])]
           iter == CHOOSE g : Runs(g)
<1>1. StarZeros = iter[D]
  BY DEF StarZeros, FoldLeft, MapThenFoldSet
<1>2. IsFiniteSet(D) /\ D \subseteq Int
  <2>1. size * size \in Nat
    BY Square
  <2>2. D = 1 .. size * size
    BY DEF RowMajor
  <2>3. IsFiniteSet(1 .. size * size)
    BY <2>1, FS_Interval
  <2> QED
    BY <2>1, <2>2, <2>3
<1>3. \A s \in SUBSET D : s # {} => Max(s) \in s
  BY <1>2, FS_Subset, Extremes
<1>4. ASSUME NEW S \in R, NEW k \in D PROVE add(S, RowMajor[k]) \in R
  <2>1. PICK cell \in Range(RowMajor) : cell = RowMajor[k]
    BY DEF Range
  <2>2. S \union {cell} \in SUBSET Range(RowMajor)
    OBVIOUS
  <2>3. CASE matrix[cell] = 0 /\ \A s \in S : s[1] # cell[1] /\ s[2] # cell[2]
    <3>1. Starable(S \union {cell})
      BY <2>3 DEF Starable, Independent
    <3> QED
      BY <2>1, <2>2, <2>3, <3>1
  <2>4. CASE ~(matrix[cell] = 0 /\ \A s \in S : s[1] # cell[1] /\ s[2] # cell[2])
    BY <2>1, <2>4
  <2> QED
    BY <2>3, <2>4
<1>5. {} \in R
  BY DEF Starable, Independent
<1>6. op \in [D -> [R -> R]]
  <2> HIDE DEF R, add, D
  <2> QED
    BY <1>4
<1>7. \A s \in SUBSET D : s # {} => pick[s] \in s
  BY <1>3
<1>8. PICK g \in [SUBSET D -> R] : FoldsBy(D, {}, pick, op, g)
  <2> HIDE DEF pick, op, R, D
  <2>1. PICK base \in R : base = {}
    BY <1>5
  <2> QED
    BY <1>2, <1>6, <1>7, <2>1, FoldExists
<1>9. ASSUME NEW s \in SUBSET D
      PROVE  g[s] = IF s = {} THEN {} ELSE add(g[s \ {Max(s)}], RowMajor[Max(s)])
  <2>1. g[s] = IF s = {} THEN {} ELSE op[pick[s]][g[s \ {pick[s]}]]
    <3> HIDE DEF pick, op, R, D
    <3> QED
      BY <1>8 DEF FoldsBy
  <2>2. pick[s] = Max(s)
    OBVIOUS
  <2>3. ASSUME s # {} PROVE op[Max(s)][g[s \ {Max(s)}]] = add(g[s \ {Max(s)}], RowMajor[Max(s)])
    <3>1. Max(s) \in D /\ s \ {Max(s)} \in SUBSET D
      BY <1>3, <2>3
    <3> HIDE DEF R, D, add
    <3>2. g[s \ {Max(s)}] \in R
      BY <3>1
    <3> QED
      BY <3>1, <3>2
  <2> HIDE DEF pick, op, R, D, add
  <2> QED
    BY <2>1, <2>2, <2>3
<1>10. Runs(g)
  <2> HIDE DEF add, D, R
  <2>1. g = [s \in SUBSET D |-> g[s]]
    OBVIOUS
  <2> QED
    BY <1>9, <2>1
<1> HIDE DEF Runs
<1>11. Runs(iter)
  BY <1>10
<1> HIDE DEF iter
<1>12. \A s \in SUBSET D : iter[s] = IF s = {} THEN {} ELSE add(iter[s \ {Max(s)}], RowMajor[Max(s)])
  <2> HIDE DEF add, D
  <2> QED
    BY <1>11 DEF Runs
<1>13. \A s \in SUBSET D : IsFiniteSet(s) /\ Cardinality(s) \in Nat
  BY <1>2, FS_Subset, FS_CardinalityType
<1> HIDE DEF D, R, add, op, pick
<1> DEFINE N == {k \in Nat : \A s \in SUBSET D : Cardinality(s) = k => iter[s] \in R}
<1>14. 0 \in N
  <2>1. iter[{}] \in R
    BY <1>5, <1>12
  <2> SUFFICES ASSUME NEW s \in SUBSET D, Cardinality(s) = 0 PROVE iter[s] \in R
    OBVIOUS
  <2>2. s = {}
    BY <1>13, FS_EmptySet
  <2> QED
    BY <2>1, <2>2
<1>15. ASSUME NEW k \in Nat, k \in N PROVE k + 1 \in N
  <2> SUFFICES ASSUME NEW s \in SUBSET D, Cardinality(s) = k + 1 PROVE iter[s] \in R
    OBVIOUS
  <2>1. s # {}
    <3>1. Cardinality({}) = 0 /\ k + 1 # 0
      BY FS_EmptySet
    <3> QED
      BY <3>1
  <2>2. Max(s) \in s /\ s \ {Max(s)} \in SUBSET D
    BY <1>3, <2>1
  <2>3. Cardinality(s \ {Max(s)}) \in Nat /\ Cardinality(s \ {Max(s)}) + 1 = Cardinality(s)
    BY <1>13, <2>2, CardLess
  <2>4. Cardinality(s \ {Max(s)}) = k
    <3> HIDE DEF N
    <3> QED
      BY <2>3
  <2>5. iter[s \ {Max(s)}] \in R
    BY <1>15, <2>2, <2>4
  <2>6. add(iter[s \ {Max(s)}], RowMajor[Max(s)]) \in R
    BY <1>4, <2>2, <2>5
  <2> QED
    BY <1>12, <2>1, <2>6
<1>16. \A k \in Nat : k \in N
  <2> HIDE DEF N
  <2> QED
    BY <1>14, <1>15, Induction
<1>17. iter[D] \in R
  BY <1>13, <1>16
<1> QED
  BY <1>1, <1>17 DEF R

(* Step 1 keeps the invariant. *)
LEMMA Step1Keeps ==
  ASSUME SolverInv, Step1
  PROVE  SolverInv'
<1>1. step = 1 /\ step' = 2 /\ UNCHANGED input /\ UNCHANGED <<matrix, row_mask, col_mask, path>>
  BY DEF Step1
<1>2. PICK starred : starred = StarZeros /\ Starable(starred)
         /\ mask_matrix' = [cell \in Grid |-> IF cell \in starred THEN "STAR" ELSE "NORMAL"]
  BY StarZerosStarable DEF Step1, SolverInv, SolverShape
<1>3. size' = size /\ Index' = Index /\ Grid' = Grid /\ Padded' = Padded /\ SolverInput'
  BY <1>1, InputKept DEF SolverInv, SolverShape
<1>4. Stars' = starred \cap Grid /\ Primes' = {}
  BY <1>2, <1>3 DEF Stars, Primes
<1>5. SolverShape'
  BY <1>1, <1>2, <1>3 DEF SolverInv, SolverShape
<1>6. row_mask = {}
  BY <1>1 DEF SolverInv, Marks
<1>7. Marks'
  BY <1>1, <1>2, <1>4, <1>6 DEF Marks, Independent, Starable
<1>8. Ordered'
  <2>1. PICK ord \in [Index -> Nat] : Order(ord)
    BY DEF SolverInv, Ordered
  <2>2. Order(ord)'
    BY <1>1, <1>4, <1>6 DEF Order
  <2> QED
    BY <1>3, <2>1, <2>2 DEF Ordered
<1>9. Dual' /\ NonNegative'
  BY <1>1, <1>3 DEF SolverInv, Dual, NonNegative, input
<1> QED
  BY <1>5, <1>7, <1>8, <1>9 DEF SolverInv

(* Step 2 keeps the invariant; all columns are covered only when every line has a star. *)
LEMMA Step2Keeps ==
  ASSUME SolverInv, Step2
  PROVE  SolverInv' /\ (step' = 0 => Complete(Stars', Index))
<1>1. step = 2 /\ UNCHANGED input /\ UNCHANGED <<matrix, mask_matrix, row_mask, path>>
  BY DEF Step2
<1>2. /\ col_mask' = {s[2] : s \in Stars}
      /\ step' = IF Cardinality(col_mask') >= size THEN 0 ELSE 3
  BY DEF Step2
<1>3. size' = size /\ Index' = Index /\ Grid' = Grid /\ Padded' = Padded /\ SolverInput'
  BY <1>1, InputKept DEF SolverInv, SolverShape
<1>4. Stars' = Stars /\ Primes' = Primes
  BY <1>1, MarksKept
<1>5. SolverShape /\ Independent(Stars) /\ SolverInput /\ row_mask = {} /\ Primes = {}
  BY <1>1 DEF SolverInv, Marks, SolverShape
<1>6. /\ IsFiniteSet(Stars) /\ Cardinality(Stars) \in 0 .. size
      /\ Cardinality(Stars) = size => Complete(Stars, Index)
      /\ Cardinality({s[2] : s \in Stars}) = Cardinality(Stars)
  BY <1>5, Counts
<1>7. size \in Nat /\ Stars \subseteq Index \X Index
  BY <1>5, Square DEF Stars
<1>8. (step' = 0 => Cardinality(Stars) = size) /\ (step' = 3 => Cardinality(Stars) < size) /\ step' \in {0, 3}
  BY <1>2, <1>6, <1>7
<1>9. SolverShape'
  <2>1. col_mask' \subseteq Index
    BY <1>2, <1>7
  <2> QED
    BY <1>1, <1>3, <1>5, <1>8, <2>1 DEF SolverShape
<1>10. Marks'
  <2>1. step' = 3 => \A j \in Index : j \in col_mask' <=> \E s \in Stars : s[2] = j /\ s[1] \notin row_mask'
    BY <1>1, <1>2, <1>5
  <2>2. \A cell \in Stars : matrix[cell] = 0
    BY DEF SolverInv, Marks
  <2> QED
    BY <1>1, <1>3, <1>4, <1>5, <1>8, <2>1, <2>2 DEF Marks
<1>11. Ordered'
  <2>1. PICK ord \in [Index -> Nat] : Order(ord)
    BY DEF SolverInv, Ordered
  <2>2. Order(ord)'
    BY <1>1, <1>4, <1>5, <1>8 DEF Order
  <2> QED
    BY <1>3, <2>1, <2>2 DEF Ordered
<1>12. Dual' /\ NonNegative'
  BY <1>1, <1>3 DEF SolverInv, Dual, NonNegative, input
<1>13. step' = 0 => Complete(Stars', Index)
  BY <1>4, <1>6, <1>8
<1> QED
  BY <1>9, <1>10, <1>11, <1>12, <1>13 DEF SolverInv

(* What the first uncovered zero is. *)
IsZero(z) == z \in Uncovered /\ matrix[z] = 0

(* Priming an uncovered zero: the row had no prime, and it comes last in the order. *)
LEMMA Priming ==
  ASSUME SolverInv, step = 3, NEW z, IsZero(z), UNCHANGED input,
         mask_matrix' = [mask_matrix EXCEPT ![z] = "PRIME"]
  PROVE  /\ z \in Grid /\ z[1] \in Index \ row_mask /\ z[2] \in Index
         /\ Stars' = Stars /\ Primes' = Primes \union {z} /\ z \notin Stars /\ z \notin Primes
         /\ mask_matrix' \in [Grid -> {"NORMAL", "STAR", "PRIME"}]
         /\ \A s \in Stars : s[2] = z[2] => s[1] \in row_mask
         /\ \A p \in Primes : p[1] \in row_mask
         /\ Cardinality(row_mask) \in Nat /\ Cardinality(row_mask) + 1 <= size
         /\ Cardinality(row_mask \union {z[1]}) = Cardinality(row_mask) + 1
<1>1. SolverShape /\ SolverInput /\ Independent(Stars)
  BY DEF SolverInv, Marks, SolverShape
<1>2. Grid = Index \X Index /\ IsFiniteSet(Index) /\ Cardinality(Index) = size
  BY <1>1, Square
<1>3. z \in Grid /\ z[1] \notin row_mask /\ z[2] \notin col_mask /\ matrix[z] = 0
  BY DEF IsZero, Uncovered
<1>4. z[1] \in Index /\ z[2] \in Index
  BY <1>2, <1>3
<1>5. \A j \in Index : j \in col_mask <=> \E s \in Stars : s[2] = j /\ s[1] \notin row_mask
  BY DEF SolverInv, Marks
<1>6. \A s \in Stars : s[2] = z[2] => s[1] \in row_mask
  BY <1>3, <1>4, <1>5
<1>7. \A p \in Primes : p[1] \in row_mask
  BY DEF SolverInv, Marks
<1>8. z \notin Stars /\ z \notin Primes
  BY <1>3, <1>6, <1>7
<1>9. Grid' = Grid
  BY InputKept
<1>10. mask_matrix \in [Grid -> {"NORMAL", "STAR", "PRIME"}]
  BY <1>1 DEF SolverShape
<1>11. \A cell \in Grid : mask_matrix'[cell] = IF cell = z THEN "PRIME" ELSE mask_matrix[cell]
  BY <1>10
<1>12. Stars' = Stars
  BY <1>8, <1>9, <1>11 DEF Stars
<1>13. Primes' = Primes \union {z}
  BY <1>3, <1>9, <1>11 DEF Primes
<1>14. mask_matrix' \in [Grid -> {"NORMAL", "STAR", "PRIME"}]
  BY <1>10
<1>15. IsFiniteSet(row_mask) /\ Cardinality(row_mask) \in Nat
  BY <1>1, Counts
<1>16. Cardinality(row_mask \union {z[1]}) = Cardinality(row_mask) + 1
  BY <1>3, <1>15, CardMore
<1>17. Cardinality(row_mask \union {z[1]}) <= size
  <2>1. row_mask \union {z[1]} \in SUBSET Index
    BY <1>1, <1>4 DEF SolverShape
  <2> QED
    BY <1>2, <2>1, FS_Subset
<1> QED
  BY <1>3, <1>4, <1>6, <1>7, <1>8, <1>12, <1>13, <1>14, <1>15, <1>16, <1>17

(* The order with one more row at its end. *)
LEMMA OrderGrows ==
  ASSUME SolverInv, step = 3, NEW z, IsZero(z), UNCHANGED input,
         mask_matrix' = [mask_matrix EXCEPT ![z] = "PRIME"]
  PROVE  \E ord \in [Index -> Nat] :
           /\ ord[z[1]] = Cardinality(row_mask) + 1
           /\ \A p \in Primes', s \in Stars' : s[2] = p[2] => s[1] \in row_mask /\ ord[s[1]] < ord[p[1]]
           /\ \A r \in row_mask : ord[r] <= Cardinality(row_mask)
<1>1. /\ z \in Grid /\ z[1] \in Index \ row_mask /\ z[2] \in Index
      /\ Stars' = Stars /\ Primes' = Primes \union {z} /\ z \notin Stars /\ z \notin Primes
      /\ \A s \in Stars : s[2] = z[2] => s[1] \in row_mask
      /\ \A p \in Primes : p[1] \in row_mask
      /\ Cardinality(row_mask) \in Nat
  BY Priming
<1>2. PICK old \in [Index -> Nat] : Order(old)
  BY DEF SolverInv, Ordered
<1>3. PICK k \in Nat : k = Cardinality(row_mask)
  BY <1>1
<1> DEFINE ord == [old EXCEPT ![z[1]] = k + 1]
<1>4. ord \in [Index -> Nat] /\ ord[z[1]] = k + 1 /\ \A r \in Index : r # z[1] => ord[r] = old[r]
  BY <1>1
<1> HIDE DEF ord
<1>5. row_mask \subseteq Index
  BY DEF SolverInv, SolverShape
<1>6. \A r \in row_mask : ord[r] = old[r] /\ ord[r] <= k
  BY <1>1, <1>2, <1>3, <1>4, <1>5 DEF Order
<1>7. ASSUME NEW p \in Primes', NEW s \in Stars', s[2] = p[2]
      PROVE  s[1] \in row_mask /\ ord[s[1]] < ord[p[1]]
  <2>1. CASE p \in Primes
    <3>1. s[1] \in row_mask /\ old[s[1]] < old[p[1]] /\ p[1] \in row_mask
      BY <1>1, <1>2, <1>7, <2>1 DEF Order
    <3> QED
      BY <1>6, <3>1
  <2>2. CASE p = z
    <3>1. s[1] \in row_mask
      BY <1>1, <1>7, <2>2
    <3>2. ord[s[1]] <= k /\ ord[s[1]] \in Nat
      BY <1>4, <1>5, <1>6, <3>1
    <3> QED
      BY <1>4, <2>2, <3>1, <3>2
  <2> QED
    BY <1>1, <2>1, <2>2
<1> QED
  BY <1>3, <1>4, <1>6, <1>7

(* The rounds of step 3 by their three outcomes. *)
NoZero ==
  step = 3 /\ (\A cell \in Uncovered : matrix[cell] # 0) /\ step' = 5
    /\ UNCHANGED <<mask_matrix, row_mask, col_mask, path>> /\ UNCHANGED input /\ matrix' = matrix
ZeroWithoutStar(z) ==
  step = 3 /\ IsZero(z) /\ mask_matrix' = [mask_matrix EXCEPT ![z] = "PRIME"] /\ (\A s \in Stars : s[1] # z[1])
    /\ step' = 4 /\ path' = <<z>> /\ UNCHANGED <<row_mask, col_mask>> /\ UNCHANGED input /\ matrix' = matrix
ZeroWithStar(z, s) ==
  step = 3 /\ IsZero(z) /\ mask_matrix' = [mask_matrix EXCEPT ![z] = "PRIME"] /\ s \in Stars /\ s[1] = z[1]
    /\ row_mask' = row_mask \union {z[1]} /\ col_mask' = col_mask \ {s[2]}
    /\ step' = 3 /\ path' = path /\ UNCHANGED input /\ matrix' = matrix

(* There are no others. *)
LEMMA Step3Outcomes ==
  ASSUME SolverInv, Step3
  PROVE  NoZero \/ (\E z : ZeroWithoutStar(z)) \/ (\E z, s : ZeroWithStar(z, s))
<1> DEFINE zeros == {cell \in Uncovered : matrix[cell] = 0}
<1>1. step = 3 /\ UNCHANGED input /\ matrix' = matrix
  BY DEF Step3
<1>2. CASE zeros = {}
  <2>1. step' = 5 /\ UNCHANGED <<mask_matrix, row_mask, col_mask, path>>
    BY <1>2 DEF Step3
  <2>2. \A cell \in Uncovered : matrix[cell] # 0
    BY <1>2
  <2> QED
    BY <1>1, <2>1, <2>2 DEF NoZero
<1>3. CASE zeros # {}
  <2>1. PICK z : z = First(zeros)
    OBVIOUS
  <2>2. z \in zeros
    <3>1. Index \in SUBSET Nat /\ Grid = Index \X Index
      BY Square DEF SolverInv, SolverShape
    <3>2. zeros \in SUBSET (Index \X Index)
      BY <3>1 DEF Uncovered
    <3> HIDE DEF zeros
    <3> QED
      BY <1>3, <2>1, <3>1, <3>2, FirstIn
  <2>3. IsZero(z)
    BY <2>2 DEF IsZero
  <2> DEFINE stars == {s \in Stars : s[1] = z[1]}
  <2>4. /\ mask_matrix' = [mask_matrix EXCEPT ![z] = "PRIME"]
        /\ stars = {} => step' = 4 /\ path' = <<z>> /\ UNCHANGED <<row_mask, col_mask>>
        /\ stars # {} => /\ row_mask' = row_mask \union {z[1]}
                         /\ col_mask' = col_mask \ {First(stars)[2]}
                         /\ UNCHANGED <<step, path>>
    BY <1>3, <2>1 DEF Step3
  <2>5. CASE stars = {}
    <3>1. \A s \in Stars : s[1] # z[1]
      BY <2>5
    <3>2. ZeroWithoutStar(z)
      BY <1>1, <2>3, <2>4, <2>5, <3>1 DEF ZeroWithoutStar
    <3> QED
      BY <3>2
  <2>6. CASE stars # {}
    <3>1. Index \in SUBSET Nat /\ Grid = Index \X Index
      BY Square DEF SolverInv, SolverShape
    <3>2. stars \in SUBSET (Index \X Index)
      BY <3>1 DEF Stars
    <3>3. First(stars) \in stars
      <4> HIDE DEF stars
      <4> QED
        BY <2>6, <3>1, <3>2, FirstIn
    <3>4. PICK s \in stars : s = First(stars)
      BY <3>3
    <3>5. ZeroWithStar(z, s)
      BY <1>1, <2>3, <2>4, <2>6, <3>4 DEF ZeroWithStar
    <3> QED
      BY <3>5
  <2> QED
    BY <2>5, <2>6
<1> QED
  BY <1>2, <1>3

(* Without a zero nothing changes but the step. *)
LEMMA NoZeroKeeps ==
  ASSUME SolverInv, NoZero
  PROVE  SolverInv'
<1>1. /\ step = 3 /\ step' = 5 /\ UNCHANGED input /\ UNCHANGED <<matrix, mask_matrix, row_mask, col_mask, path>>
      /\ \A cell \in Uncovered : matrix[cell] # 0
  BY DEF NoZero
<1>2. size' = size /\ Index' = Index /\ Grid' = Grid /\ Padded' = Padded /\ SolverInput'
  BY <1>1, InputKept DEF SolverInv, SolverShape
<1>3. Stars' = Stars /\ Primes' = Primes
  BY <1>1, MarksKept
<1>4. Uncovered' = Uncovered
  BY <1>1, <1>2 DEF Uncovered
<1>5. SolverShape'
  BY <1>1, <1>2 DEF SolverInv, SolverShape
<1>6. Marks'
  BY <1>1, <1>2, <1>3, <1>4 DEF SolverInv, Marks
<1>7. Ordered'
  <2>1. PICK ord \in [Index -> Nat] : Order(ord)
    BY DEF SolverInv, Ordered
  <2>2. Order(ord)'
    BY <1>1, <1>3, <2>1 DEF Order
  <2> QED
    BY <1>2, <2>1, <2>2 DEF Ordered
<1>8. Dual' /\ NonNegative'
  BY <1>1, <1>2 DEF SolverInv, Dual, NonNegative, input
<1> QED
  BY <1>5, <1>6, <1>7, <1>8 DEF SolverInv

(* A zero in a row with a star: the row is covered. *)
LEMMA ZeroWithStarKeeps ==
  ASSUME SolverInv, NEW z, NEW star, ZeroWithStar(z, star)
  PROVE  SolverInv'
<1>1. /\ step = 3 /\ step' = 3 /\ IsZero(z) /\ mask_matrix' = [mask_matrix EXCEPT ![z] = "PRIME"]
      /\ UNCHANGED input /\ matrix' = matrix /\ path' = path
      /\ star \in Stars /\ star[1] = z[1]
      /\ row_mask' = row_mask \union {z[1]} /\ col_mask' = col_mask \ {star[2]}
  BY DEF ZeroWithStar
<1>2. size' = size /\ Index' = Index /\ Grid' = Grid /\ Padded' = Padded /\ SolverInput'
  BY <1>1, InputKept DEF SolverInv, SolverShape
<1>3. /\ z \in Grid /\ z[1] \in Index \ row_mask /\ z[2] \in Index
      /\ Stars' = Stars /\ Primes' = Primes \union {z} /\ z \notin Stars /\ z \notin Primes
      /\ mask_matrix' \in [Grid -> {"NORMAL", "STAR", "PRIME"}]
      /\ \A p \in Primes : p[1] \in row_mask
      /\ Cardinality(row_mask) \in Nat
      /\ Cardinality(row_mask \union {z[1]}) = Cardinality(row_mask) + 1
  BY <1>1, Priming
<1>4. SolverShape'
  BY <1>1, <1>2, <1>3 DEF SolverInv, SolverShape
<1>5. Independent(Stars)
  BY DEF SolverInv, Marks
<1>6. Marks'
  <2>1. \A j \in Index : j \in col_mask <=> \E s \in Stars : s[2] = j /\ s[1] \notin row_mask
    BY <1>1 DEF SolverInv, Marks
  <2>2. \A s \in Stars : s[1] = z[1] <=> s[2] = star[2]
    BY <1>1, <1>5 DEF Independent
  <2>3. ASSUME NEW j \in Index
        PROVE  j \in col_mask' <=> \E s \in Stars : s[2] = j /\ s[1] \notin row_mask'
    <3>1. ASSUME j \in col_mask' PROVE \E s \in Stars : s[2] = j /\ s[1] \notin row_mask'
      <4>1. PICK s \in Stars : s[2] = j /\ s[1] \notin row_mask
        BY <1>1, <2>1, <3>1
      <4>2. s[1] # z[1]
        BY <1>1, <2>2, <3>1, <4>1
      <4> QED
        BY <1>1, <4>1, <4>2
    <3>2. ASSUME NEW s \in Stars, s[2] = j, s[1] \notin row_mask' PROVE j \in col_mask'
      <4>1. s[1] \notin row_mask /\ s[1] # z[1]
        BY <1>1, <3>2
      <4> QED
        BY <1>1, <2>1, <2>2, <3>2, <4>1
    <3> QED
      BY <3>1, <3>2
  <2>4. \A p, q \in Primes' : p[1] = q[1] => p = q
    <3>1. \A p, q \in Primes : p[1] = q[1] => p = q
      BY DEF SolverInv, Marks
    <3> QED
      BY <1>3, <3>1
  <2>5. \A cell \in Stars' \union Primes' : matrix'[cell] = 0
    <3>1. \A cell \in Stars \union Primes : matrix[cell] = 0
      BY DEF SolverInv, Marks
    <3>2. matrix[z] = 0
      BY <1>1 DEF IsZero
    <3> QED
      BY <1>1, <1>3, <3>1, <3>2
  <2>6. \A r \in row_mask' : (\E s \in Stars' : s[1] = r) /\ (\E p \in Primes' : p[1] = r)
    <3>1. \A r \in row_mask : (\E s \in Stars : s[1] = r) /\ (\E p \in Primes : p[1] = r)
      BY DEF SolverInv, Marks
    <3> QED
      BY <1>1, <1>3, <3>1
  <2>7. \A p \in Primes' : p[1] \in row_mask'
    BY <1>1, <1>3
  <2>8. Cardinality(Stars') < size'
    BY <1>1, <1>2, <1>3 DEF SolverInv, Marks
  <2> QED
    BY <1>1, <1>2, <1>3, <1>5, <2>3, <2>4, <2>5, <2>6, <2>7, <2>8 DEF Marks
<1>7. Ordered'
  <2>1. PICK ord \in [Index -> Nat] :
           /\ ord[z[1]] = Cardinality(row_mask) + 1
           /\ \A p \in Primes', s \in Stars' : s[2] = p[2] => s[1] \in row_mask /\ ord[s[1]] < ord[p[1]]
           /\ \A r \in row_mask : ord[r] <= Cardinality(row_mask)
    BY <1>1, OrderGrows
  <2>2. \A r \in row_mask' : ord[r] <= Cardinality(row_mask')
    <3>1. PICK k \in Nat : k = Cardinality(row_mask) /\ Cardinality(row_mask') = k + 1
      BY <1>1, <1>3
    <3>2. \A r \in row_mask : ord[r] \in Nat /\ ord[r] <= k
      BY <2>1, <3>1 DEF SolverInv, SolverShape
    <3> QED
      BY <1>1, <2>1, <3>1, <3>2
  <2>3. \A p \in Primes', s \in Stars' : s[2] = p[2] => s[1] \in row_mask' /\ ord[s[1]] < ord[p[1]]
    BY <1>1, <2>1
  <2>4. step' # 4
    BY <1>1
  <2>5. Order(ord)'
    BY <2>2, <2>3, <2>4 DEF Order
  <2> QED
    BY <1>2, <2>1, <2>5 DEF Ordered
<1>8. Dual' /\ NonNegative'
  BY <1>1, <1>2 DEF SolverInv, Dual, NonNegative, input
<1> QED
  BY <1>4, <1>6, <1>7, <1>8 DEF SolverInv

(* The path of one cell. *)
LEMMA PathStarts ==
  ASSUME NEW A, NEW z \in A
  PROVE  /\ <<z>> \in Seq(A) /\ <<z>> # << >> /\ Len(<<z>>) = 1
         /\ Last(<<z>>) = z /\ ToSet(<<z>>) = {z}
  BY DEF Last, ToSet

(* And one that has grown by two. *)
LEMMA PathGrows ==
  ASSUME NEW A, NEW t \in Seq(A), NEW a \in A, NEW b \in A
  PROVE  /\ t \o <<a, b>> \in Seq(A) /\ t \o <<a, b>> # << >> /\ Len(t \o <<a, b>>) = Len(t) + 2
         /\ Last(t \o <<a, b>>) = b /\ ToSet(t \o <<a, b>>) = ToSet(t) \union {a, b}
         /\ Len(t) \in Nat
<1>1. PICK u \in Seq(A) : u = <<a, b>> /\ Len(u) = 2 /\ u[1] = a /\ u[2] = b
  <2>1. <<a, b>> \in Seq(A)
    OBVIOUS
  <2>2. Len(<<a, b>>) = 2 /\ <<a, b>>[1] = a /\ <<a, b>>[2] = b
    OBVIOUS
  <2> QED
    BY <2>1, <2>2
<1>2. /\ t \o u \in Seq(A) /\ Len(t) \in Nat
      /\ Len(t \o u) = Len(t) + Len(u)
      /\ DOMAIN t = 1 .. Len(t)
      /\ DOMAIN (t \o u) = 1 .. Len(t) + Len(u)
  BY Joined
<1>3. \A i \in 1 .. Len(t) : (t \o u)[i] = t[i]
  BY Joined
<1>4. \A i \in 1 .. Len(u) : (t \o u)[Len(t) + i] = u[i]
  BY Joined
<1>5. (t \o u)[Len(t) + 1] = a /\ (t \o u)[Len(t) + 2] = b
  BY <1>1, <1>4
<1>6. PICK w : w = t \o u
  OBVIOUS
<1>7. Last(w) = b
  BY <1>1, <1>2, <1>5, <1>6 DEF Last
<1>8. ToSet(w) = ToSet(t) \union {a, b}
  <2>1. DOMAIN w = 1 .. Len(t) + 2 /\ w[Len(t) + 1] = a /\ w[Len(t) + 2] = b
    BY <1>1, <1>2, <1>5, <1>6
  <2>2. \A i \in 1 .. Len(t) : w[i] = t[i]
    BY <1>3, <1>6
  <2>3. ASSUME NEW i \in DOMAIN w PROVE w[i] \in ToSet(t) \union {a, b}
    <3>1. i \in 1 .. Len(t) \/ i = Len(t) + 1 \/ i = Len(t) + 2
      BY <1>2, <2>1
    <3> QED
      BY <1>2, <2>1, <2>2, <3>1 DEF ToSet
  <2>4. \A i \in DOMAIN t : i \in DOMAIN w /\ w[i] = t[i]
    BY <1>2, <2>1, <2>2
  <2>5. Len(t) + 1 \in DOMAIN w /\ Len(t) + 2 \in DOMAIN w
    BY <1>2, <2>1
  <2>6. ToSet(w) \subseteq ToSet(t) \union {a, b}
    BY <2>3 DEF ToSet
  <2>7. ToSet(t) \subseteq ToSet(w)
    BY <2>4 DEF ToSet
  <2>8. {a, b} \subseteq ToSet(w)
    BY <2>1, <2>5 DEF ToSet
  <2> QED
    BY <2>6, <2>7, <2>8
<1>9. Len(w) = Len(t) + 2 /\ w # << >>
  BY <1>1, <1>2, <1>6
<1> QED
  BY <1>1, <1>2, <1>6, <1>7, <1>8, <1>9

(* A zero in a row without a star: a path starts at it. *)
LEMMA ZeroWithoutStarKeeps ==
  ASSUME SolverInv, NEW z, ZeroWithoutStar(z)
  PROVE  SolverInv'
<1>1. /\ step = 3 /\ step' = 4 /\ IsZero(z) /\ mask_matrix' = [mask_matrix EXCEPT ![z] = "PRIME"]
      /\ UNCHANGED input /\ matrix' = matrix /\ path' = <<z>>
      /\ (\A s \in Stars : s[1] # z[1]) /\ UNCHANGED <<row_mask, col_mask>>
  BY DEF ZeroWithoutStar
<1>2. size' = size /\ Index' = Index /\ Grid' = Grid /\ Padded' = Padded /\ SolverInput'
  BY <1>1, InputKept DEF SolverInv, SolverShape
<1>3. /\ z \in Grid /\ z[1] \in Index \ row_mask /\ z[2] \in Index
      /\ Stars' = Stars /\ Primes' = Primes \union {z} /\ z \notin Stars /\ z \notin Primes
      /\ mask_matrix' \in [Grid -> {"NORMAL", "STAR", "PRIME"}]
      /\ \A p \in Primes : p[1] \in row_mask
      /\ Cardinality(row_mask) \in Nat /\ Cardinality(row_mask) + 1 <= size
  BY <1>1, Priming
<1>4. /\ <<z>> \in Seq(Grid) /\ <<z>> # << >> /\ Len(<<z>>) = 1
      /\ Last(<<z>>) = z /\ ToSet(<<z>>) = {z}
  BY <1>3, PathStarts
<1>5. SolverShape'
  BY <1>1, <1>2, <1>3, <1>4 DEF SolverInv, SolverShape
<1>6. Marks'
  <2>4. \A p, q \in Primes' : p[1] = q[1] => p = q
    <3>1. \A p, q \in Primes : p[1] = q[1] => p = q
      BY DEF SolverInv, Marks
    <3> QED
      BY <1>3, <3>1
  <2>5. \A cell \in Stars' \union Primes' : matrix'[cell] = 0
    <3>1. \A cell \in Stars \union Primes : matrix[cell] = 0
      BY DEF SolverInv, Marks
    <3>2. matrix[z] = 0
      BY <1>1 DEF IsZero
    <3> QED
      BY <1>1, <1>3, <3>1, <3>2
  <2>6. \A r \in row_mask' : (\E s \in Stars' : s[1] = r) /\ (\E p \in Primes' : p[1] = r)
    <3>1. \A r \in row_mask : (\E s \in Stars : s[1] = r) /\ (\E p \in Primes : p[1] = r)
      BY DEF SolverInv, Marks
    <3> QED
      BY <1>1, <1>3, <3>1
  <2>8. Cardinality(Stars') < size' /\ Independent(Stars')
    BY <1>1, <1>2, <1>3 DEF SolverInv, Marks
  <2> QED
    BY <1>1, <2>4, <2>5, <2>6, <2>8 DEF Marks
<1>7. Ordered'
  <2>1. PICK ord \in [Index -> Nat] :
           /\ ord[z[1]] = Cardinality(row_mask) + 1
           /\ \A p \in Primes', s \in Stars' : s[2] = p[2] => s[1] \in row_mask /\ ord[s[1]] < ord[p[1]]
           /\ \A r \in row_mask : ord[r] <= Cardinality(row_mask)
    BY <1>1, OrderGrows
  <2>2. Turned({z})' = Stars \union {z}
    BY <1>2, <1>3 DEF Turned, Stars
  <2>3. Cardinality(Turned({z})') = Cardinality(Stars') + 1
    <3>1. IsFiniteSet(Stars)
      BY Counts DEF SolverInv, Marks
    <3> QED
      BY <1>3, <2>2, <3>1, CardMore
  <2>4. OnPath(ord)'
    <3>1. Len(path') + 2 * ord[z[1]] <= 2 * size' + 1
      <4>1. PICK k \in Nat : k = Cardinality(row_mask) /\ k + 1 <= size
        BY <1>3
      <4>2. size \in Nat
        BY Square DEF SolverInv, SolverShape
      <4>3. Len(path') = 1 /\ ord[z[1]] = k + 1
        BY <1>1, <1>4, <2>1, <4>1
      <4> QED
        BY <1>2, <4>1, <4>2, <4>3
    <3>2. path' # << >> /\ Last(path') = z /\ ToSet(path') = {z}
      BY <1>1, <1>4
    <3>3. z \in Primes' /\ \A s \in Stars' : s[1] # z[1]
      BY <1>1, <1>3
    <3>4. ord[z[1]] <= ord[z[1]]
      BY <2>1, <1>3
    <3>5. Cardinality(Turned(ToSet(path))') = Cardinality(Stars') + 1
      BY <2>3, <3>2 DEF Turned
    <3> QED
      BY <3>1, <3>2, <3>3, <3>4, <3>5 DEF OnPath
  <2>5. \A p \in Primes', s \in Stars' : s[2] = p[2] => s[1] \in row_mask' /\ ord[s[1]] < ord[p[1]]
    BY <1>1, <2>1
  <2>6. \A r \in row_mask' : ord[r] <= Cardinality(row_mask')
    BY <1>1, <2>1
  <2>7. Order(ord)'
    BY <2>4, <2>5, <2>6 DEF Order
  <2> QED
    BY <1>2, <2>1, <2>7 DEF Ordered
<1>8. Dual' /\ NonNegative'
  BY <1>1, <1>2 DEF SolverInv, Dual, NonNegative, input
<1> QED
  BY <1>5, <1>6, <1>7, <1>8 DEF SolverInv

(* A round of step 3 keeps the invariant. *)
LEMMA Step3Keeps ==
  ASSUME SolverInv, Step3
  PROVE  SolverInv'
  BY Step3Outcomes, NoZeroKeeps, ZeroWithStarKeeps, ZeroWithoutStarKeeps

(* The path goes on from the prime it ends at: by the star of its column and
   the prime of that star's row. *)
LEMMA NextOnPath ==
  ASSUME SolverInv, ExtendPath
  PROVE  \E s \in Stars, q \in Primes :
           /\ s[2] = Last(path)[2] /\ q[1] = s[1] /\ s[1] \in row_mask
           /\ path' = path \o <<s, q>>
<1>1. PICK s \in Stars : /\ s[2] = Last(path)[2]
         /\ path' = path \o <<s, First({p \in Grid : p[1] = s[1] /\ mask_matrix[p] = "PRIME"})>>
  BY DEF ExtendPath
<1>2. step = 4
  BY DEF ExtendPath
<1>3. Last(path) \in Primes
  BY <1>2 DEF SolverInv, Ordered, Order, OnPath
<1>4. s[1] \in row_mask
  <2>1. PICK ord : Order(ord)
    BY DEF SolverInv, Ordered
  <2> QED
    BY <1>1, <1>3, <2>1 DEF Order
<1>5. PICK q \in Primes : q[1] = s[1]
  BY <1>4 DEF SolverInv, Marks
<1>6. \A p \in Primes : p[1] = s[1] => p = q
  BY <1>5 DEF SolverInv, Marks
<1>7. {p \in Grid : p[1] = s[1] /\ mask_matrix[p] = "PRIME"} = {q}
  BY <1>5, <1>6 DEF Primes
<1>8. First({q}) = q
  <2>1. Index \in SUBSET Nat /\ Grid = Index \X Index
    BY Square DEF SolverInv, SolverShape
  <2>2. {q} \in SUBSET (Index \X Index) /\ {q} # {}
    BY <2>1 DEF Primes
  <2>3. First({q}) \in {q}
    BY <2>1, <2>2, FirstIn
  <2> QED
    BY <2>3
<1> QED
  BY <1>1, <1>4, <1>5, <1>7, <1>8

(* Step 4 extends the path and keeps the invariant. *)
LEMMA ExtendPathKeeps ==
  ASSUME SolverInv, ExtendPath
  PROVE  SolverInv'
<1>1. step = 4 /\ UNCHANGED input /\ UNCHANGED <<matrix, mask_matrix, row_mask, col_mask, step>>
  BY DEF ExtendPath
<1>2. size' = size /\ Index' = Index /\ Grid' = Grid /\ Padded' = Padded /\ SolverInput'
  BY <1>1, InputKept DEF SolverInv, SolverShape
<1>3. Stars' = Stars /\ Primes' = Primes
  BY <1>1, MarksKept
<1>4. PICK s \in Stars, q \in Primes :
           /\ s[2] = Last(path)[2] /\ q[1] = s[1] /\ s[1] \in row_mask
           /\ path' = path \o <<s, q>>
  BY NextOnPath
<1>5. path \in Seq(Grid) /\ s \in Grid /\ q \in Grid
  BY DEF SolverInv, SolverShape, Stars, Primes
<1>6. /\ path' \in Seq(Grid) /\ path' # << >> /\ Len(path') = Len(path) + 2
      /\ Last(path') = q /\ ToSet(path') = ToSet(path) \union {s, q} /\ Len(path) \in Nat
  BY <1>4, <1>5, PathGrows
<1>7. SolverShape'
  BY <1>1, <1>2, <1>6 DEF SolverInv, SolverShape
<1>8. Marks'
  BY <1>1, <1>2, <1>3 DEF SolverInv, Marks
<1>9. Ordered'
  <2>1. PICK ord \in [Index -> Nat] : Order(ord)
    BY DEF SolverInv, Ordered
  <2>2. PICK z : z = Last(path)
    OBVIOUS
  <2>3. PICK V : V = ToSet(path)
    OBVIOUS
  <2>4. /\ z \in V \cap Primes /\ V \subseteq Stars \union Primes
        /\ \A a \in V : ord[z[1]] <= ord[a[1]]
        /\ \A p \in V \cap Primes : /\ p # z => \E t \in V \cap Stars : t[2] = p[2]
                                    /\ \A t \in Stars : t[1] = p[1] => t \in V
        /\ \A p, r \in V \cap Primes : p # r => p[2] # r[2]
        /\ Cardinality(Turned(V)) = Cardinality(Stars) + 1
        /\ Len(path) + 2 * ord[z[1]] <= 2 * size + 1
    BY <1>1, <2>1, <2>2, <2>3 DEF Order, OnPath
  <2>5. \A p \in Primes, t \in Stars : t[2] = p[2] => t[1] \in row_mask /\ ord[t[1]] < ord[p[1]]
    BY <2>1 DEF Order
  <2>6. /\ \A a \in V : ord[a[1]] \in Nat
        /\ ord[z[1]] \in Nat /\ ord[q[1]] \in Nat /\ ord[q[1]] < ord[z[1]]
    <3>1. Grid = Index \X Index
      BY Square DEF SolverInv, SolverShape
    <3>2. \A a \in Stars \union Primes : ord[a[1]] \in Nat
      BY <2>1, <3>1 DEF Stars, Primes
    <3>3. ord[s[1]] < ord[z[1]]
      BY <1>4, <2>2, <2>4, <2>5
    <3> QED
      BY <1>4, <2>4, <3>2, <3>3
  <2>7. \A a \in V : ord[q[1]] < ord[a[1]]
    BY <2>4, <2>6
  <2>8. s \notin V /\ q \notin V
    BY <1>4, <2>6, <2>7
  <2>9. s # q /\ q \notin Stars /\ s \notin Primes
    BY DEF Stars, Primes
  <2>10. \A p \in V \cap Primes : p[2] # q[2]
    <3> SUFFICES ASSUME NEW p \in V \cap Primes, p[2] = q[2] PROVE FALSE
      OBVIOUS
    <3>1. CASE p = z
      <4>1. ord[s[1]] < ord[q[1]]
        BY <1>4, <2>2, <2>5, <3>1
      <4> QED
        BY <1>4, <2>6, <4>1
    <3>2. CASE p # z
      <4>1. PICK t \in V \cap Stars : t[2] = p[2]
        BY <2>4, <3>2
      <4>2. ord[t[1]] < ord[q[1]]
        BY <2>5, <4>1
      <4>3. ord[q[1]] < ord[t[1]] /\ ord[t[1]] \in Nat
        BY <2>6, <2>7, <4>1
      <4> QED
        BY <2>6, <4>2, <4>3
    <3> QED
      BY <3>1, <3>2
  <2>11. PICK W : W = V \union {s, q}
    OBVIOUS
  <2>12. W \cap Stars = (V \cap Stars) \union {s} /\ W \cap Primes = (V \cap Primes) \union {q}
    BY <2>9, <2>11
  <2>13. W \subseteq Stars \union Primes /\ q \in W \cap Primes
    BY <2>4, <2>11
  <2>14. \A a \in W : ord[q[1]] <= ord[a[1]]
    BY <1>4, <2>6, <2>7, <2>11
  <2>15. \A p \in W \cap Primes : /\ p # q => \E t \in W \cap Stars : t[2] = p[2]
                                  /\ \A t \in Stars : t[1] = p[1] => t \in W
    <3> SUFFICES ASSUME NEW p \in W \cap Primes
                 PROVE  /\ p # q => \E t \in W \cap Stars : t[2] = p[2]
                        /\ \A t \in Stars : t[1] = p[1] => t \in W
      OBVIOUS
    <3>1. CASE p = q
      <4>1. \A t \in Stars : t[1] = q[1] => t = s
        BY <1>4 DEF SolverInv, Marks, Independent
      <4> QED
        BY <2>11, <3>1, <4>1
    <3>2. CASE p # q
      <4>1. p \in V \cap Primes
        BY <2>12, <3>2
      <4>2. \A t \in Stars : t[1] = p[1] => t \in W
        BY <2>4, <2>11, <4>1
      <4>3. CASE p = z
        BY <1>4, <2>2, <2>12, <4>2, <4>3
      <4>4. CASE p # z
        BY <2>4, <2>12, <4>1, <4>2, <4>4
      <4> QED
        BY <4>3, <4>4
    <3> QED
      BY <3>1, <3>2
  <2>16. \A p, r \in W \cap Primes : p # r => p[2] # r[2]
    BY <2>4, <2>10, <2>12
  <2>17. Cardinality(Turned(W)) = Cardinality(Stars) + 1
    <3>1. s \in Turned(V) /\ q \notin Turned(V)
      BY <1>5, <2>8, <2>9 DEF Turned
    <3>2. Turned(W) = (Turned(V) \ {s}) \union {q}
      BY <1>5, <2>8, <2>9, <2>11 DEF Turned
    <3>3. IsFiniteSet(Turned(V))
      <4>1. IsFiniteSet(Grid)
        BY Square DEF SolverInv, SolverShape
      <4>2. Turned(V) \in SUBSET Grid
        BY DEF Turned
      <4> QED
        BY <4>1, <4>2, FS_Subset
    <3>4. /\ IsFiniteSet(Turned(V) \ {s}) /\ Cardinality(Turned(V) \ {s}) \in Nat
          /\ Cardinality(Turned(V) \ {s}) + 1 = Cardinality(Turned(V))
      BY <3>1, <3>3, CardLess
    <3>5. Cardinality((Turned(V) \ {s}) \union {q}) = Cardinality(Turned(V) \ {s}) + 1
      BY <3>1, <3>4, CardMore
    <3> QED
      BY <2>4, <3>2, <3>4, <3>5
  <2>18. Len(path') + 2 * ord[q[1]] <= 2 * size + 1
    <3>1. size \in Nat
      BY Square DEF SolverInv, SolverShape
    <3> QED
      BY <1>6, <2>4, <2>6, <3>1
  <2>19. ToSet(path') = W /\ Last(path') = q /\ path' # << >>
    BY <1>6, <2>3, <2>11
  <2>20. Turned(ToSet(path))' = Turned(W)
    BY <1>2, <1>3, <2>19 DEF Turned
  <2>21. OnPath(ord)'
    <3>1. /\ q \in W \cap Primes' /\ W \subseteq Stars' \union Primes'
          /\ \A p \in W \cap Primes' : /\ p # q => \E t \in W \cap Stars' : t[2] = p[2]
                                       /\ \A t \in Stars' : t[1] = p[1] => t \in W
          /\ \A p, r \in W \cap Primes' : p # r => p[2] # r[2]
          /\ Cardinality(Turned(ToSet(path))') = Cardinality(Stars') + 1
          /\ Len(path') + 2 * ord[q[1]] <= 2 * size' + 1
      BY <1>2, <1>3, <2>13, <2>15, <2>16, <2>17, <2>18, <2>20
    <3> QED
      BY <2>14, <2>19, <3>1 DEF OnPath
  <2>22. \A p \in Primes', t \in Stars' : t[2] = p[2] => t[1] \in row_mask' /\ ord[t[1]] < ord[p[1]]
    BY <1>1, <1>3, <2>5
  <2>23. \A r \in row_mask' : ord[r] <= Cardinality(row_mask')
    BY <1>1, <2>1 DEF Order
  <2>24. Order(ord)'
    BY <2>21, <2>22, <2>23 DEF Order
  <2> QED
    BY <1>2, <2>1, <2>24 DEF Ordered
<1>10. Dual' /\ NonNegative'
  BY <1>1, <1>2 DEF SolverInv, Dual, NonNegative, input
<1> QED
  BY <1>7, <1>8, <1>9, <1>10 DEF SolverInv

(* Turning a path that can go no further leaves independent zeros starred. *)
LEMMA TurnedPath ==
  ASSUME SolverInv, Augment
  PROVE  /\ Turned(ToSet(path)) \subseteq Grid /\ Independent(Turned(ToSet(path)))
         /\ \A cell \in Turned(ToSet(path)) : matrix[cell] = 0
         /\ Cardinality(Turned(ToSet(path))) = Cardinality(Stars) + 1
<1>1. step = 4 /\ \A s \in Stars : s[2] # Last(path)[2]
  BY DEF Augment
<1>2. PICK ord : Order(ord)
  BY DEF SolverInv, Ordered
<1>3. PICK V : V = ToSet(path)
  OBVIOUS
<1>4. PICK z : z = Last(path)
  OBVIOUS
<1>5. /\ V \subseteq Stars \union Primes
      /\ \A p \in V \cap Primes : /\ p # z => \E t \in V \cap Stars : t[2] = p[2]
                                  /\ \A t \in Stars : t[1] = p[1] => t \in V
      /\ \A p, r \in V \cap Primes : p # r => p[2] # r[2]
      /\ Cardinality(Turned(V)) = Cardinality(Stars) + 1
  BY <1>1, <1>2, <1>3, <1>4 DEF Order, OnPath
<1>6. /\ \A a, b \in Stars : a # b => a[1] # b[1] /\ a[2] # b[2]
      /\ \A p, q \in Primes : p[1] = q[1] => p = q
      /\ \A cell \in Stars \union Primes : matrix[cell] = 0
  BY DEF SolverInv, Marks, Independent
<1>7. \A cell \in Turned(V) : \/ cell \in Stars /\ cell \notin V
                              \/ cell \in V \cap Primes /\ cell \notin Stars
  BY <1>5 DEF Turned
<1>8. ASSUME NEW p \in V \cap Primes, NEW s \in Stars, s \notin V
      PROVE  s[1] # p[1] /\ s[2] # p[2]
  <2>1. s[1] # p[1]
    BY <1>5, <1>8
  <2>2. CASE p = z
    BY <1>1, <1>4, <2>1, <2>2
  <2>3. CASE p # z
    <3>1. PICK t \in V \cap Stars : t[2] = p[2]
      BY <1>5, <2>3
    <3>2. t # s
      BY <1>8
    <3>3. t[2] # s[2]
      BY <1>6, <3>2
    <3> QED
      BY <2>1, <3>1, <3>3
  <2> QED
    BY <2>2, <2>3
<1>9. ASSUME NEW a \in Turned(V), NEW b \in Turned(V), a # b
      PROVE  a[1] # b[1] /\ a[2] # b[2]
  <2>1. CASE a \in Stars /\ a \notin V
    <3>1. CASE b \in Stars /\ b \notin V
      BY <1>6, <1>9, <2>1, <3>1
    <3>2. CASE b \in V \cap Primes
      BY <1>8, <2>1, <3>2
    <3> QED
      BY <1>7, <3>1, <3>2
  <2>2. CASE a \in V \cap Primes
    <3>1. CASE b \in Stars /\ b \notin V
      <4>1. b[1] # a[1] /\ b[2] # a[2]
        BY <1>8, <2>2, <3>1
      <4> QED
        BY <4>1
    <3>2. CASE b \in V \cap Primes
      BY <1>5, <1>6, <1>9, <2>2, <3>2
    <3> QED
      BY <1>7, <3>1, <3>2
  <2> QED
    BY <1>7, <2>1, <2>2
<1>10. \A cell \in Turned(V) : matrix[cell] = 0
  BY <1>6, <1>7
<1>11. Turned(V) \subseteq Grid
  BY DEF Turned
<1> QED
  BY <1>3, <1>5, <1>9, <1>10, <1>11 DEF Independent

(* Step 4 turns the path and keeps the invariant, with one more star. *)
LEMMA AugmentKeeps ==
  ASSUME SolverInv, Augment
  PROVE  SolverInv' /\ Cardinality(Stars') = Cardinality(Stars) + 1
<1>1. /\ step = 4 /\ step' = 2 /\ UNCHANGED input /\ matrix' = matrix
      /\ row_mask' = {} /\ col_mask' = {} /\ path' = << >>
      /\ mask_matrix' = [cell \in Grid |->
           IF (cell \in Stars) # (cell \in ToSet(path)) THEN "STAR" ELSE "NORMAL"]
  BY DEF Augment
<1>2. size' = size /\ Index' = Index /\ Grid' = Grid /\ Padded' = Padded /\ SolverInput'
  BY <1>1, InputKept DEF SolverInv, SolverShape
<1>3. PICK T : T = Turned(ToSet(path))
  OBVIOUS
<1>4. /\ T \subseteq Grid /\ Independent(T) /\ \A cell \in T : matrix[cell] = 0
      /\ Cardinality(T) = Cardinality(Stars) + 1
  BY <1>3, TurnedPath
<1>5. mask_matrix' = [cell \in Grid |-> IF cell \in T THEN "STAR" ELSE "NORMAL"]
  <2>1. \A cell \in Grid : (cell \in T) <=> ((cell \in Stars) # (cell \in ToSet(path)))
    BY <1>3 DEF Turned
  <2> QED
    BY <1>1, <2>1
<1>6. Stars' = T /\ Primes' = {}
  BY <1>2, <1>4, <1>5 DEF Stars, Primes
<1>7. SolverShape'
  BY <1>1, <1>2, <1>5 DEF SolverInv, SolverShape
<1>8. Marks'
  BY <1>1, <1>4, <1>6 DEF Marks
<1>9. Ordered'
  <2>1. PICK ord \in [Index -> Nat] : Order(ord)
    BY DEF SolverInv, Ordered
  <2>2. Order(ord)'
    BY <1>1, <1>6 DEF Order
  <2> QED
    BY <1>2, <2>1, <2>2 DEF Ordered
<1>10. Dual' /\ NonNegative'
  BY <1>1, <1>2, SMTT(60) DEF SolverInv, Dual, NonNegative, input
<1> QED
  BY <1>4, <1>6, <1>7, <1>8, <1>9, <1>10 DEF SolverInv

(* While a line has no star, a row and a column meet uncovered. *)
LEMMA SomeUncovered ==
  ASSUME SolverInv, step \in {3, 5}
  PROVE  Uncovered # {}
<1>1. /\ Independent(Stars) /\ Cardinality(Stars) < size
      /\ \A r \in row_mask : \E s \in Stars : s[1] = r
      /\ \A j \in Index : j \in col_mask <=> \E s \in Stars : s[2] = j /\ s[1] \notin row_mask
  BY DEF SolverInv, Marks
<1>2. IsFiniteSet(Stars) /\ Cardinality(Stars) \in 0 .. size
  BY <1>1, Counts DEF SolverInv
<1>3. IsFiniteSet(Index) /\ Cardinality(Index) = size /\ size \in Nat /\ Grid = Index \X Index
  BY Square DEF SolverInv, SolverShape
<1>4. PICK i \in Index : i \notin row_mask
  <2> SUFFICES ASSUME \A i \in Index : i \in row_mask PROVE FALSE
    OBVIOUS
  <2>1. \A i \in Index : \E s \in Stars : s[1] = i
    BY <1>1
  <2>2. Cardinality(Index) <= Cardinality(Stars)
    BY <1>2, <1>3, <2>1, EnoughCells
  <2> QED
    BY <1>1, <1>2, <1>3, <2>2
<1>5. PICK j \in Index : j \notin col_mask
  <2> SUFFICES ASSUME \A j \in Index : j \in col_mask PROVE FALSE
    OBVIOUS
  <2>1. \A j \in Index : \E s \in Stars : s[2] = j
    BY <1>1
  <2>2. Cardinality(Index) <= Cardinality(Stars)
    BY <1>2, <1>3, <2>1, EnoughCells
  <2> QED
    BY <1>1, <1>2, <1>3, <2>2
<1>6. <<i, j>> \in Uncovered
  BY <1>3, <1>4, <1>5 DEF Uncovered
<1> QED
  BY <1>6

(* What step 5 takes off: the least entry that is not covered. *)
LEMMA LeastUncovered ==
  ASSUME SolverInv, Step5
  PROVE  \E h \in Int : /\ matrix' = Shifted(h)
                        /\ \E cell \in Uncovered : matrix[cell] = h
                        /\ \A cell \in Uncovered : h <= matrix[cell]
<1>1. step = 5
  BY DEF Step5
<1>2. Uncovered # {} /\ Uncovered \subseteq Grid
  BY <1>1, SomeUncovered DEF Uncovered
<1> DEFINE S == {matrix[cell] : cell \in Uncovered}
<1>3. matrix' = Shifted(Min(S))
  BY <1>2 DEF Step5
<1>4. IsFiniteSet(Uncovered)
  <2>1. IsFiniteSet(Grid)
    BY Square DEF SolverInv, SolverShape
  <2> QED
    BY <1>2, <2>1, FS_Subset
<1>5. S \in SUBSET Int /\ IsFiniteSet(S) /\ S # {}
  <2>1. IsFiniteSet(S)
    BY <1>4, FiniteImage
  <2>2. matrix \in [Grid -> Int]
    BY DEF SolverInv, SolverShape
  <2>3. S \in SUBSET Int /\ S # {}
    BY <1>2, <2>2
  <2> QED
    BY <2>1, <2>3
<1>6. Min(S) \in S /\ \A y \in S : Min(S) <= y
  <2> HIDE DEF S
  <2> QED
    BY <1>5, Extremes
<1> QED
  BY <1>3, <1>5, <1>6

(* Step 5 keeps the invariant and makes a zero that is not covered. *)
LEMMA Step5Keeps ==
  ASSUME SolverInv, Step5
  PROVE  SolverInv' /\ \E cell \in Uncovered' : matrix'[cell] = 0
<1>1. step = 5 /\ step' = 3 /\ UNCHANGED input /\ UNCHANGED <<mask_matrix, row_mask, col_mask, path>>
  BY DEF Step5
<1>2. PICK h \in Int : /\ matrix' = Shifted(h)
                       /\ \E cell \in Uncovered : matrix[cell] = h
                       /\ \A cell \in Uncovered : h <= matrix[cell]
  BY LeastUncovered
<1>3. size' = size /\ Index' = Index /\ Grid' = Grid /\ Padded' = Padded /\ SolverInput'
  BY <1>1, InputKept DEF SolverInv, SolverShape
<1>4. Stars' = Stars /\ Primes' = Primes
  BY <1>1, MarksKept
<1>5. Uncovered' = Uncovered
  BY <1>1, <1>3 DEF Uncovered
<1>6. matrix \in [Grid -> Int] /\ Grid = Index \X Index
  BY Square DEF SolverInv, SolverShape
<1> DEFINE up(cell) == IF cell[1] \in row_mask THEN h ELSE 0
           down(cell) == IF cell[2] \notin col_mask THEN h ELSE 0
<1>7. \A cell \in Grid : up(cell) \in Int /\ down(cell) \in Int /\ matrix[cell] \in Int
  BY <1>6
<1>8. /\ matrix' \in [Grid -> Int]
      /\ \A cell \in Grid : matrix'[cell] = matrix[cell] + up(cell) - down(cell)
  <2>1. matrix' = [cell \in Grid |-> matrix[cell] + up(cell) - down(cell)]
    BY <1>2 DEF Shifted
  <2> HIDE DEF up, down
  <2> QED
    BY <1>7, <2>1
<1>9. SolverShape'
  BY <1>1, <1>3, <1>8 DEF SolverInv, SolverShape
<1>10. Marks'
  <2>1. \A j \in Index : j \in col_mask <=> \E s \in Stars : s[2] = j /\ s[1] \notin row_mask
    BY <1>1 DEF SolverInv, Marks
  <2>2. ASSUME NEW s \in Stars PROVE matrix'[s] = 0
    <3>1. s \in Grid /\ s[1] \in Index /\ s[2] \in Index
      BY <1>6 DEF Stars
    <3>2. matrix[s] = 0
      BY DEF SolverInv, Marks
    <3>3. CASE s[1] \in row_mask
      <4>1. s[2] \notin col_mask
        <5>1. \A t \in Stars : t[2] = s[2] => t = s
          BY DEF SolverInv, Marks, Independent
        <5> QED
          BY <2>1, <3>1, <3>3, <5>1
      <4> QED
        BY <1>8, <3>1, <3>2, <3>3, <4>1
    <3>4. CASE s[1] \notin row_mask
      <4>1. s[2] \in col_mask
        BY <2>1, <3>1, <3>4
      <4> QED
        BY <1>8, <3>1, <3>2, <3>4, <4>1
    <3> QED
      BY <3>3, <3>4
  <2>3. ASSUME NEW p \in Primes PROVE matrix'[p] = 0
    <3>1. p \in Grid /\ p[1] \in Index /\ p[2] \in Index
      BY <1>6 DEF Primes
    <3>2. matrix[p] = 0 /\ p[1] \in row_mask
      BY <1>1 DEF SolverInv, Marks
    <3>3. p[2] \notin col_mask
      <4>1. PICK ord : Order(ord)
        BY DEF SolverInv, Ordered
      <4>2. \A s \in Stars : s[2] = p[2] => s[1] \in row_mask
        BY <4>1 DEF Order
      <4> QED
        BY <2>1, <3>1, <4>2
    <3> QED
      BY <1>8, <3>1, <3>2, <3>3
  <2>4. \A cell \in Stars' \union Primes' : matrix'[cell] = 0
    BY <1>4, <2>2, <2>3
  <2> QED
    BY <1>1, <1>3, <1>4, <2>4 DEF SolverInv, Marks
<1>11. Ordered'
  <2>1. PICK ord \in [Index -> Nat] : Order(ord)
    BY DEF SolverInv, Ordered
  <2>2. Order(ord)'
    BY <1>1, <1>4, <2>1 DEF Order
  <2> QED
    BY <1>3, <2>1, <2>2 DEF Ordered
<1>12. Dual'
  <2>1. PICK u \in [Index -> Int], v \in [Index -> Int] :
          \A cell \in Grid : Padded[cell] = matrix[cell] + u[cell[1]] + v[cell[2]]
    BY DEF SolverInv, Dual
  <2> DEFINE a == [i \in Index |-> IF i \in row_mask THEN u[i] - h ELSE u[i]]
             b == [j \in Index |-> IF j \notin col_mask THEN v[j] + h ELSE v[j]]
  <2>2. a \in [Index -> Int] /\ b \in [Index -> Int]
    OBVIOUS
  <2>3. ASSUME NEW cell \in Grid PROVE Padded[cell] = matrix'[cell] + a[cell[1]] + b[cell[2]]
    <3>1. PICK i \in Index, j \in Index : i = cell[1] /\ j = cell[2]
      BY <1>6
    <3>2. Padded[cell] = matrix[cell] + u[i] + v[j]
      BY <2>1, <3>1
    <3>3. a[i] = u[i] - up(cell) /\ b[j] = v[j] + down(cell)
      BY <3>1
    <3>4. matrix'[cell] = matrix[cell] + up(cell) - down(cell)
      BY <1>8
    <3>5. up(cell) \in Int /\ down(cell) \in Int /\ matrix[cell] \in Int /\ u[i] \in Int /\ v[j] \in Int
      BY <1>7
    <3> HIDE DEF a, b, up, down
    <3> QED
      BY <3>1, <3>2, <3>3, <3>4, <3>5
  <2> HIDE DEF a, b
  <2> QED
    BY <1>3, <2>2, <2>3 DEF Dual
<1>13. NonNegative'
  <2> SUFFICES ASSUME \A cell \in DOMAIN cost : cost[cell] >= 0, NEW cell \in Grid
               PROVE  matrix'[cell] >= 0
    BY <1>1, <1>3 DEF NonNegative, input
  <2>1. \A c \in Grid : matrix[c] >= 0
    BY DEF SolverInv, NonNegative
  <2>2. h >= 0
    BY <1>2, <2>1 DEF Uncovered
  <2>3. cell \in Uncovered => h <= matrix[cell]
    BY <1>2
  <2>4. cell \in Uncovered <=> cell[1] \notin row_mask /\ cell[2] \notin col_mask
    BY DEF Uncovered
  <2>5. matrix[cell] >= 0 /\ matrix[cell] \in Int
    BY <1>7, <2>1
  <2>6. matrix'[cell] = matrix[cell] + up(cell) - down(cell)
    BY <1>8
  <2> QED
    BY <2>2, <2>3, <2>4, <2>5, <2>6
<1>14. \E cell \in Uncovered' : matrix'[cell] = 0
  <2>1. PICK cell \in Uncovered : matrix[cell] = h
    BY <1>2
  <2>2. cell \in Grid /\ cell[1] \notin row_mask /\ cell[2] \notin col_mask
    BY DEF Uncovered
  <2>3. matrix'[cell] = h + 0 - h
    BY <1>8, <2>1, <2>2
  <2> QED
    BY <1>5, <2>1, <2>3
<1> QED
  BY <1>9, <1>10, <1>11, <1>12, <1>13, <1>14 DEF SolverInv

------------------------------------------------------------------------------
(* Every step is nearer to the end. *)

(* The place of a step in its round, as Rank counts it. *)
Place ==
  CASE step = -2 -> 2 * size + 8
    [] step = -1 -> 2 * size + 7
    [] step = 1  -> 2 * size + 6
    [] step = 2  -> 2 * size + 5
    [] step = 3  -> 2 * size + (IF \E z \in Uncovered : matrix[z] = 0 THEN 2 ELSE 4)
    [] step = 5  -> 2 * size + 3
    [] step = 4  -> 2 * size + 1 - Len(path)
    [] step = 0  -> 0

(* The rank is the weight of that place. *)
LEMMA Ranks ==
  /\ Rank = Weight(size, Cardinality(Stars), Cardinality(row_mask), Place)
  /\ Rank' = Weight(size', Cardinality(Stars'), Cardinality(row_mask'), Place')
  BY DEF Rank, Weight, Place

(* The places by the step that is to come. *)
LEMMA Places ==
  /\ step = -2 => Place = 2 * size + 8
  /\ step = -1 => Place = 2 * size + 7
  /\ step = 1 => Place = 2 * size + 6
  /\ step = 2 => Place = 2 * size + 5
  /\ step = 3 /\ (\E z \in Uncovered : matrix[z] = 0) => Place = 2 * size + 2
  /\ step = 3 /\ ~(\E z \in Uncovered : matrix[z] = 0) => Place = 2 * size + 4
  /\ step = 5 => Place = 2 * size + 3
  /\ step = 4 => Place = 2 * size + 1 - Len(path)
  /\ step = 0 => Place = 0
  BY DEF Place

(* And after it. *)
LEMMA PlacesNext ==
  /\ step' = -1 => Place' = 2 * size' + 7
  /\ step' = 1 => Place' = 2 * size' + 6
  /\ step' = 2 => Place' = 2 * size' + 5
  /\ step' = 3 /\ (\E z \in Uncovered' : matrix'[z] = 0) => Place' = 2 * size' + 2
  /\ step' = 3 /\ ~(\E z \in Uncovered' : matrix'[z] = 0) => Place' = 2 * size' + 4
  /\ step' = 5 => Place' = 2 * size' + 3
  /\ step' = 4 => Place' = 2 * size' + 1 - Len(path')
  /\ step' = 0 => Place' = 0
  BY DEF Place

(* While a path is followed it has at most twice as many cells as there are rows. *)
LEMMA PathLength ==
  ASSUME SolverInv, step = 4
  PROVE  Len(path) \in Nat /\ Len(path) <= 2 * size + 1
<1>1. PICK ord \in [Index -> Nat] : Order(ord)
  BY DEF SolverInv, Ordered
<1>2. Last(path) \in Primes /\ Len(path) + 2 * ord[Last(path)[1]] <= 2 * size + 1
  BY <1>1 DEF Order, OnPath
<1>3. ord[Last(path)[1]] \in Nat
  <2>1. Grid = Index \X Index
    BY Square DEF SolverInv, SolverShape
  <2>2. Last(path)[1] \in Index
    BY <1>2, <2>1 DEF Primes
  <2> QED
    BY <1>1, <2>2
<1>4. Len(path) \in Nat /\ size \in Nat
  <2>1. path \in Seq(Grid)
    BY DEF SolverInv, SolverShape
  <2> QED
    BY <2>1, Square DEF SolverInv, SolverShape
<1> QED
  BY <1>2, <1>3, <1>4

(* The place is a natural number. *)
LEMMA PlaceNat ==
  ASSUME SolverInv
  PROVE  Place \in Nat
<1>1. step \in -2 .. 5 /\ size \in Nat
  BY Square DEF SolverInv, SolverShape
<1>2. step \in {-2, -1, 0, 1, 2, 3, 4, 5}
  BY <1>1
<1>3. CASE step = 4
  BY <1>1, <1>3, PathLength, Places
<1>4. CASE step # 4
  BY <1>1, <1>2, <1>4, Places
<1> QED
  BY <1>3, <1>4

(* The measure of a step: where the counts and the place lead, the rank falls. *)
LEMMA Nearer ==
  ASSUME SolverInv, SolverInv', UNCHANGED input, Place' \in Nat,
         \/ Cardinality(Stars') >= Cardinality(Stars) /\ row_mask' = row_mask /\ Place' < Place
         \/ /\ Stars' = Stars /\ Cardinality(row_mask') = Cardinality(row_mask) + 1
            /\ Place' < Place + 2 * size + 9
         \/ Cardinality(Stars') = Cardinality(Stars) + 1 /\ Place' < Place + 2 * size + 9
  PROVE  0 <= Rank' /\ Rank' < Rank
<1>1. size' = size
  BY InputKept
<1>2. size \in Nat /\ Place \in Nat /\ Cardinality(Stars) \in 0 .. size /\ Cardinality(row_mask) \in 0 .. size
  BY Square, Counts, PlaceNat DEF SolverInv, SolverShape, Marks
<1>3. Cardinality(Stars') \in 0 .. size /\ Cardinality(row_mask') \in 0 .. size
  <2>1. SolverShape' /\ Independent(Stars)'
    BY DEF SolverInv, Marks
  <2>2. (SolverShape /\ Independent(Stars) =>
          Cardinality(Stars) \in 0 .. size /\ Cardinality(row_mask) \in 0 .. size)'
    BY Counts, PTL
  <2> QED
    BY <1>1, <2>1, <2>2
<1>4. PICK n \in Nat, p \in Nat, q \in Nat : n = size /\ p = Place /\ q = Place'
  BY <1>2
<1>5. PICK s \in 0 .. n, k \in 0 .. n : s = Cardinality(Stars) /\ k = Cardinality(row_mask)
  BY <1>2, <1>4
<1>6. PICK t \in 0 .. n, l \in 0 .. n : t = Cardinality(Stars') /\ l = Cardinality(row_mask')
  BY <1>3, <1>4
<1>7. \/ t >= s /\ l = k /\ q < p
      \/ t = s /\ l = k + 1 /\ q < p + 2 * n + 9
      \/ t = s + 1 /\ q < p + 2 * n + 9
  BY <1>4, <1>5, <1>6
<1>8. q < p + 2 * n + 9
  BY <1>7
<1>9. Weight(n, t, l, q) < Weight(n, s, k, p)
  BY <1>7, <1>8, WeightFalls
<1>10. Weight(n, t, l, q) \in Nat
  BY WeightNat
<1>11. Rank = Weight(n, s, k, p) /\ Rank' = Weight(n, t, l, q)
  BY <1>1, <1>4, <1>5, <1>6, Ranks
<1> QED
  BY <1>9, <1>10, <1>11

(* Every step keeps the invariant and is nearer to the end, which only step 2
   reaches, with a star on every line. *)
LEMMA SolverStep ==
  ASSUME SolverInv, SolverNext
  PROVE  /\ SolverInv' /\ 0 <= Rank' /\ Rank' < Rank
         /\ step' = 0 => Solution' = Solution /\ Complete(Stars, Index) /\ UNCHANGED input
<1>0. size \in Nat /\ Place \in Nat /\ UNCHANGED input
  BY Square, PlaceNat DEF SolverInv, SolverShape, SolverNext, Minimize, Step1, Step2, Step3, ExtendPath, Augment, Step5
<1>1. size' = size
  BY <1>0, InputKept
<1>2. CASE Minimize
  <2>1. SolverInv'
    BY <1>2, MinimizeKeeps
  <2>2. /\ (step = -2 /\ step' = -1) \/ (step = -1 /\ step' = 1)
        /\ UNCHANGED <<mask_matrix, row_mask>>
    BY <1>2 DEF Minimize
  <2>3. Stars' = Stars
    BY <1>0, <2>2, MarksKept
  <2>4. Cardinality(Stars') >= Cardinality(Stars)
    BY <2>3, Counts DEF SolverInv, Marks
  <2>5. Place' \in Nat /\ Place' < Place
    BY <1>0, <1>1, <2>2, Places, PlacesNext
  <2> QED
    BY <1>0, <2>1, <2>2, <2>4, <2>5, Nearer
<1>3. CASE Step1
  <2>1. SolverInv'
    BY <1>3, Step1Keeps
  <2>2. step = 1 /\ step' = 2 /\ row_mask' = row_mask
    BY <1>3 DEF Step1
  <2>3. Cardinality(Stars) = 0
    <3>1. Stars = {}
      BY <2>2 DEF SolverInv, Marks
    <3> QED
      BY <3>1, FS_EmptySet
  <2>4. Cardinality(Stars') >= 0
    <3>1. SolverShape' /\ Independent(Stars)'
      BY <2>1 DEF SolverInv, Marks
    <3>2. (SolverShape /\ Independent(Stars) => Cardinality(Stars) \in 0 .. size)'
      BY Counts, PTL
    <3> QED
      BY <1>0, <1>1, <3>1, <3>2
  <2>5. Place' \in Nat /\ Place' < Place
    BY <1>0, <1>1, <2>2, Places, PlacesNext
  <2> QED
    BY <1>0, <2>1, <2>2, <2>3, <2>4, <2>5, Nearer
<1>4. CASE Step2
  <2>1. SolverInv' /\ (step' = 0 => Complete(Stars', Index))
    BY <1>4, Step2Keeps
  <2>2. step = 2 /\ step' \in {0, 3} /\ UNCHANGED <<mask_matrix, row_mask>>
    BY <1>4 DEF Step2
  <2>3. Stars' = Stars
    BY <1>0, <2>2, MarksKept
  <2>4. Cardinality(Stars') >= Cardinality(Stars)
    BY <2>3, Counts DEF SolverInv, Marks
  <2>5. Place' \in Nat /\ Place' < Place
    BY <1>0, <1>1, <2>2, Places, PlacesNext
  <2>6. Solution' = Solution
    BY <1>0, <2>3 DEF Solution, Cells, input
  <2> QED
    BY <1>0, <2>1, <2>2, <2>3, <2>4, <2>5, <2>6, Nearer
<1>5. CASE Step3
  <2>1. SolverInv'
    BY <1>5, Step3Keeps
  <2>2. CASE NoZero
    <3>1. step = 3 /\ step' = 5 /\ UNCHANGED <<mask_matrix, row_mask>> /\ \A cell \in Uncovered : matrix[cell] # 0
      BY <2>2 DEF NoZero
    <3>2. Stars' = Stars
      BY <1>0, <3>1, MarksKept
    <3>3. Cardinality(Stars') >= Cardinality(Stars)
      BY <3>2, Counts DEF SolverInv, Marks
    <3>4. Place' \in Nat /\ Place' < Place
      BY <1>0, <1>1, <3>1, Places, PlacesNext
    <3> QED
      BY <1>0, <2>1, <3>1, <3>3, <3>4, Nearer
  <2>3. ASSUME NEW z, ZeroWithoutStar(z) PROVE 0 <= Rank' /\ Rank' < Rank /\ step' # 0
    <3>1. /\ step = 3 /\ step' = 4 /\ IsZero(z) /\ row_mask' = row_mask /\ path' = <<z>>
          /\ mask_matrix' = [mask_matrix EXCEPT ![z] = "PRIME"]
      BY <2>3 DEF ZeroWithoutStar
    <3>2. Stars' = Stars
      BY <1>0, <3>1, Priming
    <3>3. Cardinality(Stars') >= Cardinality(Stars)
      BY <3>2, Counts DEF SolverInv, Marks
    <3>4. Place' = 2 * size + 1 - 1 /\ Place = 2 * size + 2
      <4>1. Len(path') = 1
        BY <3>1
      <4>2. \E cell \in Uncovered : matrix[cell] = 0
        BY <3>1 DEF IsZero
      <4> QED
        BY <1>1, <3>1, <4>1, <4>2, Places, PlacesNext
    <3>5. Place' \in Nat /\ Place' < Place
      BY <1>0, <3>4
    <3> QED
      BY <1>0, <2>1, <3>1, <3>3, <3>5, Nearer
  <2>4. ASSUME NEW z, NEW s, ZeroWithStar(z, s) PROVE 0 <= Rank' /\ Rank' < Rank /\ step' # 0
    <3>1. /\ step = 3 /\ step' = 3 /\ IsZero(z) /\ row_mask' = row_mask \union {z[1]}
          /\ mask_matrix' = [mask_matrix EXCEPT ![z] = "PRIME"]
      BY <2>4 DEF ZeroWithStar
    <3>2. Stars' = Stars /\ Cardinality(row_mask') = Cardinality(row_mask) + 1
      BY <1>0, <3>1, Priming
    <3>3. Place = 2 * size + 2
      <4>1. \E cell \in Uncovered : matrix[cell] = 0
        BY <3>1 DEF IsZero
      <4> QED
        BY <3>1, <4>1, Places
    <3>4. Place' = 2 * size + 2 \/ Place' = 2 * size + 4
      BY <1>1, <3>1, PlacesNext
    <3>5. Place' \in Nat /\ Place' < Place + 2 * size + 9
      BY <1>0, <3>3, <3>4
    <3> QED
      BY <1>0, <2>1, <3>1, <3>2, <3>5, Nearer
  <2>5. 0 <= Rank' /\ Rank' < Rank /\ step' # 0
    <3>1. NoZero \/ (\E z : ZeroWithoutStar(z)) \/ (\E z, s : ZeroWithStar(z, s))
      BY <1>5, Step3Outcomes
    <3>2. NoZero => step' # 0
      BY DEF NoZero
    <3> QED
      BY <2>2, <2>3, <2>4, <3>1, <3>2
  <2> QED
    BY <2>1, <2>5
<1>6. CASE ExtendPath
  <2>1. SolverInv'
    BY <1>6, ExtendPathKeeps
  <2>2. step = 4 /\ step' = 4 /\ UNCHANGED <<mask_matrix, row_mask>>
    BY <1>6 DEF ExtendPath
  <2>3. Stars' = Stars
    BY <1>0, <2>2, MarksKept
  <2>4. Cardinality(Stars') >= Cardinality(Stars)
    BY <2>3, Counts DEF SolverInv, Marks
  <2>5. Len(path') = Len(path) + 2 /\ Len(path) \in Nat
    <3>1. PICK s \in Stars, q \in Primes : path' = path \o <<s, q>>
      BY <1>6, NextOnPath
    <3>2. path \in Seq(Grid) /\ s \in Grid /\ q \in Grid
      BY DEF SolverInv, SolverShape, Stars, Primes
    <3> QED
      BY <3>1, <3>2, PathGrows
  <2>6. Place' \in Nat
    <3>1. (SolverInv => Place \in Nat)'
      BY PlaceNat, PTL
    <3> QED
      BY <2>1, <3>1
  <2>7. Place' < Place
    BY <1>0, <1>1, <2>2, <2>5, Places, PlacesNext
  <2> QED
    BY <1>0, <2>1, <2>2, <2>4, <2>6, <2>7, Nearer
<1>7. CASE Augment
  <2>1. SolverInv' /\ Cardinality(Stars') = Cardinality(Stars) + 1
    BY <1>7, AugmentKeeps
  <2>2. step = 4 /\ step' = 2
    BY <1>7 DEF Augment
  <2>3. Place' \in Nat /\ Place' < Place + 2 * size + 9
    BY <1>0, <1>1, <2>2, PlacesNext
  <2> QED
    BY <1>0, <2>1, <2>2, <2>3, Nearer
<1>8. CASE Step5
  <2>1. SolverInv' /\ \E cell \in Uncovered' : matrix'[cell] = 0
    BY <1>8, Step5Keeps
  <2>2. step = 5 /\ step' = 3 /\ UNCHANGED <<mask_matrix, row_mask>>
    BY <1>8 DEF Step5
  <2>3. Stars' = Stars
    BY <1>0, <2>2, MarksKept
  <2>4. Cardinality(Stars') >= Cardinality(Stars)
    BY <2>3, Counts DEF SolverInv, Marks
  <2>5. Place' \in Nat /\ Place' < Place
    BY <1>0, <1>1, <2>1, <2>2, Places, PlacesNext
  <2> QED
    BY <1>0, <2>1, <2>2, <2>4, <2>5, Nearer
<1> QED
  BY <1>2, <1>3, <1>4, <1>5, <1>6, <1>7, <1>8 DEF SolverNext

------------------------------------------------------------------------------
(* The end is an optimum. *)

(* One cell on every row and one on every column of the square. *)
Perfect(P, I) == P \subseteq I \X I /\ Independent(P) /\ Complete(P, I)

(* Entries that are what the matrix, the row and the column give. *)
Splits(c, m, u, v, P) == \A cell \in P : c[cell] = m[cell] + u[cell[1]] + v[cell[2]]

(* On one cell per row and column the potentials add up to all of them. *)
LEMMA PerfectTotal ==
  ASSUME NEW I, IsFiniteSet(I), NEW P, Perfect(P, I), NEW c, NEW m, NEW u, NEW v,
         Summable(m, P), Summable(u, I), Summable(v, I), Splits(c, m, u, v, P)
  PROVE  /\ Summable(c, P)
         /\ Total(c, P) = Total(m, P) + Total(u, I) + Total(v, I)
<1> DEFINE row == [x \in P |-> x[1]]
           column == [x \in P |-> x[2]]
           ru == [x \in P |-> u[x[1]]]
           cv == [x \in P |-> v[x[2]]]
           both == [x \in P |-> m[x] + u[x[1]]]
<1>1. IsFiniteSet(P) /\ \A x \in P : x[1] \in I /\ x[2] \in I /\ m[x] \in Int
  BY DEF Summable, Perfect
<1>2. \A x \in P : u[x[1]] \in Int /\ v[x[2]] \in Int
  BY <1>1 DEF Summable
<1>3. Summable(ru, P) /\ Summable(cv, P) /\ Summable(both, P) /\ Summable(c, P)
  <2>1. \A x \in P : ru[x] \in Int /\ cv[x] \in Int /\ both[x] \in Int
    BY <1>1, <1>2
  <2>2. \A x \in P : c[x] \in Int
    BY <1>1, <1>2 DEF Splits
  <2> HIDE DEF ru, cv, both
  <2> QED
    BY <1>1, <2>1, <2>2 DEF Summable
<1>4. Moved(row, ru, P, u) /\ Moved(column, cv, P, v)
  BY DEF Moved, Perfect, Independent
<1>5. {row[x] : x \in P} = I /\ {column[x] : x \in P} = I
  <2>1. \A i \in I : (\E x \in P : row[x] = i) /\ (\E x \in P : column[x] = i)
    BY DEF Perfect, Complete
  <2>2. \A x \in P : row[x] \in I /\ column[x] \in I
    BY <1>1
  <2> HIDE DEF row, column
  <2> QED
    BY <2>1, <2>2
<1>6. \A x \in P : both[x] = m[x] + ru[x] /\ c[x] = both[x] + cv[x]
  BY <1>1, <1>2 DEF Splits
<1> HIDE DEF row, column, ru, cv, both
<1>7. Total(ru, P) = Total(u, I)
  BY <1>3, <1>4, <1>5, TotalMoved
<1>8. Total(cv, P) = Total(v, I)
  BY <1>3, <1>4, <1>5, TotalMoved
<1>9. Total(both, P) = Total(m, P) + Total(ru, P)
  BY <1>3, <1>6, TotalPlus
<1>10. Total(c, P) = Total(both, P) + Total(cv, P)
  BY <1>3, <1>6, TotalPlus
<1> QED
  BY <1>3, <1>7, <1>8, <1>9, <1>10

(* Zeros add up to zero, and what is not negative to no less. *)
LEMMA TotalOfZeros ==
  ASSUME NEW D, NEW c, Summable(c, D), \A x \in D : c[x] = 0
  PROVE  Total(c, D) = 0
<1>1. \A x \in D : c[x] = c[x] + c[x]
  OBVIOUS
<1>2. Total(c, D) = Total(c, D) + Total(c, D)
  BY <1>1, TotalPlus
<1>3. PICK total \in Int : total = Total(c, D)
  BY TotalAdds
<1>4. total = total + total
  BY <1>2, <1>3
<1>5. total = 0
  BY <1>4
<1> QED
  BY <1>3, <1>5

(* Entries that are not negative have no negative total. *)
LEMMA TotalAboveZero ==
  ASSUME NEW D, NEW c, Summable(c, D), \A x \in D : c[x] >= 0
  PROVE  Total(c, D) >= 0
<1> DEFINE zero == [x \in D |-> 0]
<1>1. Summable(zero, D) /\ (\A x \in D : zero[x] = 0) /\ (\A x \in D : zero[x] <= c[x])
  <2>1. \A x \in D : zero[x] = 0
    OBVIOUS
  <2> HIDE DEF zero
  <2>2. \A x \in D : c[x] \in Int
    BY DEF Summable
  <2> QED
    BY <2>1, <2>2 DEF Summable
<1> HIDE DEF zero
<1>2. Total(zero, D) = 0
  BY <1>1, TotalOfZeros
<1>3. Total(zero, D) <= Total(c, D)
  BY <1>1, TotalUpTo
<1>4. Total(c, D) \in Int
  BY TotalAdds
<1> QED
  BY <1>2, <1>3, <1>4

(* A largest set of cells of the shape of which no two share a line. *)
Matching(A) ==
  /\ A \subseteq Cells(rows, columns) /\ Independent(A)
  /\ rows <= columns => \A i \in 1 .. rows : \E a \in A : a[1] = i
  /\ rows > columns => \A j \in 1 .. columns : \E a \in A : a[2] = j

(* The assignments are these. *)
LEMMA AssignmentsMatch ==
  ASSUME SolverInput, NEW A
  PROVE  A \in Assignments(rows, columns) <=> Matching(A)
<1>0. rows \in Nat /\ columns \in Nat
  BY DEF SolverInput
<1>1. CASE rows <= columns
  <2>1. ASSUME NEW f \in Injection(1 .. rows, 1 .. columns), A = {<<i, f[i]>> : i \in 1 .. rows}
        PROVE  Matching(A)
    <3>1. f \in [1 .. rows -> 1 .. columns] /\ \A i, j \in 1 .. rows : f[i] = f[j] => i = j
      BY <2>1 DEF Injection, IsInjective
    <3>2. A \subseteq Cells(rows, columns)
      BY <2>1, <3>1 DEF Cells
    <3>3. Independent(A)
      BY <2>1, <3>1 DEF Independent
    <3>4. \A i \in 1 .. rows : <<i, f[i]>> \in A /\ <<i, f[i]>>[1] = i
      BY <2>1
    <3>5. \A i \in 1 .. rows : \E a \in A : a[1] = i
      <4> SUFFICES ASSUME NEW i \in 1 .. rows PROVE \E a \in A : a[1] = i
        OBVIOUS
      <4>1. <<i, f[i]>> \in A /\ <<i, f[i]>>[1] = i
        BY <3>4
      <4> QED
        BY <4>1
    <3>6. ~(rows > columns)
      BY <1>0, <1>1
    <3> QED
      BY <1>1, <3>2, <3>3, <3>5, <3>6 DEF Matching
  <2>2. ASSUME Matching(A)
        PROVE  \E f \in Injection(1 .. rows, 1 .. columns) : A = {<<i, f[i]>> : i \in 1 .. rows}
    <3> DEFINE f == [i \in 1 .. rows |-> (CHOOSE a \in A : a[1] = i)[2]]
    <3>1. \A i \in 1 .. rows : \E a \in A : a[1] = i
      BY <1>1, <2>2 DEF Matching
    <3>2. \A a \in A : a = <<a[1], a[2]>> /\ a[1] \in 1 .. rows /\ a[2] \in 1 .. columns
      BY <2>2 DEF Matching, Cells
    <3>3. ASSUME NEW i \in 1 .. rows PROVE <<i, f[i]>> \in A /\ f[i] \in 1 .. columns
      <4>1. PICK a \in A : a = CHOOSE b \in A : b[1] = i
        BY <3>1
      <4>2. a[1] = i
        BY <3>1, <4>1
      <4>3. f[i] = a[2]
        BY <4>1
      <4> QED
        BY <3>2, <4>2, <4>3
    <3>4. f \in [1 .. rows -> 1 .. columns]
      BY <3>3
    <3> HIDE DEF f
    <3>5. \A i, j \in 1 .. rows : f[i] = f[j] => i = j
      BY <2>2, <3>3, ZenonT(60) DEF Matching, Independent
    <3>6. ASSUME NEW a \in A PROVE a = <<a[1], f[a[1]]>> /\ a[1] \in 1 .. rows
      <4>1. a[1] \in 1 .. rows /\ a = <<a[1], a[2]>>
        BY <3>2
      <4>2. <<a[1], f[a[1]]>> \in A
        BY <3>3, <4>1
      <4>3. a = <<a[1], f[a[1]]>>
        BY <2>2, <4>2 DEF Matching, Independent
      <4> QED
        BY <4>1, <4>3
    <3>7. A = {<<i, f[i]>> : i \in 1 .. rows}
      BY <3>3, <3>6
    <3> QED
      BY <3>4, <3>5, <3>7 DEF Injection, IsInjective
  <2>3. A \in Assignments(rows, columns)
          <=> \E f \in Injection(1 .. rows, 1 .. columns) : A = {<<i, f[i]>> : i \in 1 .. rows}
    BY <1>1 DEF Assignments
  <2> QED
    BY <2>1, <2>2, <2>3
<1>2. CASE rows > columns
  <2>1. ASSUME NEW f \in Injection(1 .. columns, 1 .. rows), A = {<<f[j], j>> : j \in 1 .. columns}
        PROVE  Matching(A)
    <3>1. f \in [1 .. columns -> 1 .. rows] /\ \A i, j \in 1 .. columns : f[i] = f[j] => i = j
      BY <2>1 DEF Injection, IsInjective
    <3>2. A \subseteq Cells(rows, columns)
      BY <2>1, <3>1 DEF Cells
    <3>3. Independent(A)
      BY <2>1, <3>1 DEF Independent
    <3>4. \A j \in 1 .. columns : <<f[j], j>> \in A /\ <<f[j], j>>[2] = j
      BY <2>1
    <3>5. \A j \in 1 .. columns : \E a \in A : a[2] = j
      <4> SUFFICES ASSUME NEW j \in 1 .. columns PROVE \E a \in A : a[2] = j
        OBVIOUS
      <4>1. <<f[j], j>> \in A /\ <<f[j], j>>[2] = j
        BY <3>4
      <4> QED
        BY <4>1
    <3>6. ~(rows <= columns)
      BY <1>0, <1>2
    <3> QED
      BY <1>2, <3>2, <3>3, <3>5, <3>6 DEF Matching
  <2>2. ASSUME Matching(A)
        PROVE  \E f \in Injection(1 .. columns, 1 .. rows) : A = {<<f[j], j>> : j \in 1 .. columns}
    <3> DEFINE f == [j \in 1 .. columns |-> (CHOOSE a \in A : a[2] = j)[1]]
    <3>1. \A j \in 1 .. columns : \E a \in A : a[2] = j
      BY <1>2, <2>2 DEF Matching
    <3>2. \A a \in A : a = <<a[1], a[2]>> /\ a[1] \in 1 .. rows /\ a[2] \in 1 .. columns
      BY <2>2 DEF Matching, Cells
    <3>3. ASSUME NEW j \in 1 .. columns PROVE <<f[j], j>> \in A /\ f[j] \in 1 .. rows
      <4>1. PICK a \in A : a = CHOOSE b \in A : b[2] = j
        BY <3>1
      <4>2. a[2] = j
        BY <3>1, <4>1
      <4>3. f[j] = a[1]
        BY <4>1
      <4> QED
        BY <3>2, <4>2, <4>3
    <3>4. f \in [1 .. columns -> 1 .. rows]
      BY <3>3
    <3> HIDE DEF f
    <3>5. \A i, j \in 1 .. columns : f[i] = f[j] => i = j
      BY <2>2, <3>3, ZenonT(60) DEF Matching, Independent
    <3>6. ASSUME NEW a \in A PROVE a = <<f[a[2]], a[2]>> /\ a[2] \in 1 .. columns
      <4>1. a[2] \in 1 .. columns /\ a = <<a[1], a[2]>>
        BY <3>2
      <4>2. <<f[a[2]], a[2]>> \in A
        BY <3>3, <4>1
      <4>3. a = <<f[a[2]], a[2]>>
        BY <2>2, <4>2 DEF Matching, Independent
      <4> QED
        BY <4>1, <4>3
    <3>7. A = {<<f[j], j>> : j \in 1 .. columns}
      BY <3>3, <3>6
    <3> QED
      BY <3>4, <3>5, <3>7 DEF Injection, IsInjective
  <2>3. A \in Assignments(rows, columns)
          <=> \E f \in Injection(1 .. columns, 1 .. rows) : A = {<<f[j], j>> : j \in 1 .. columns}
    BY <1>0, <1>2 DEF Assignments
  <2> QED
    BY <2>1, <2>2, <2>3
<1> QED
  BY <1>0, <1>1, <1>2

(* A perfect matching of the square is one of the shape on the cells inside. *)
LEMMA InsideMatches ==
  ASSUME SolverInput, NEW P, Perfect(P, Index)
  PROVE  Matching(P \cap Cells(rows, columns))
<1>1. rows \in Nat /\ columns \in Nat
  BY DEF SolverInput
<1>2. P \subseteq Index \X Index /\ Independent(P) /\ Complete(P, Index)
  BY DEF Perfect
<1>3. Independent(P \cap Cells(rows, columns))
  BY <1>2 DEF Independent
<1>4. ASSUME rows <= columns, NEW i \in 1 .. rows
      PROVE  \E a \in P \cap Cells(rows, columns) : a[1] = i
  <2>1. Index = 1 .. columns /\ i \in Index
    BY <1>1, <1>4 DEF Index, size
  <2>2. PICK a \in P : a[1] = i
    BY <1>2, <2>1 DEF Complete
  <2>3. a \in Cells(rows, columns)
    BY <1>2, <1>4, <2>1, <2>2 DEF Cells
  <2> QED
    BY <2>2, <2>3
<1>5. ASSUME rows > columns, NEW j \in 1 .. columns
      PROVE  \E a \in P \cap Cells(rows, columns) : a[2] = j
  <2>1. Index = 1 .. rows /\ j \in Index
    BY <1>1, <1>5 DEF Index, size
  <2>2. PICK a \in P : a[2] = j
    BY <1>2, <2>1 DEF Complete
  <2>3. a \in Cells(rows, columns)
    BY <1>2, <1>5, <2>1, <2>2 DEF Cells
  <2> QED
    BY <2>2, <2>3
<1> QED
  BY <1>3, <1>4, <1>5 DEF Matching

(* The lines the shape is filled up with. *)
Rest == Index \ (1 .. IF rows <= columns THEN rows ELSE columns)

(* What one filled-up cell per such line costs. *)
Filling == Total([k \in Rest |-> Max(Range(cost))], Rest)

(* What no matching can change: the cells outside the shape cost the same. *)
LEMMA OutsideTotal ==
  ASSUME SolverInput, NEW P, Perfect(P, Index)
  PROVE  /\ Filling \in Int /\ Summable(cost, P \cap Cells(rows, columns))
         /\ Total(Padded, P) = Total(cost, P \cap Cells(rows, columns)) + Filling
<1> DEFINE inside == P \cap Cells(rows, columns)
           outside == P \ Cells(rows, columns)
           fill == [k \in Rest |-> Max(Range(cost))]
           line == [x \in outside |-> IF rows <= columns THEN x[1] ELSE x[2]]
<1>0. rows \in Nat /\ columns \in Nat /\ cost \in [Cells(rows, columns) -> Int]
  BY DEF SolverInput
<1>1. P \subseteq Index \X Index /\ Independent(P) /\ Complete(P, Index) /\ P \subseteq Grid /\ IsFiniteSet(P)
  <2>1. P \subseteq Index \X Index /\ Independent(P) /\ Complete(P, Index)
    BY DEF Perfect
  <2>2. P \in SUBSET Grid /\ IsFiniteSet(Grid)
    BY <2>1, Square
  <2> QED
    BY <2>1, <2>2, FS_Subset
<1>2. PICK m \in Int : m = Max(Range(cost))
  BY <1>0, PaddedEntries DEF Range
<1>3. Padded \in [Grid -> Int] /\ \A cell \in Grid : Padded[cell] = IF cell \in Cells(rows, columns) THEN cost[cell] ELSE m
  BY <1>2, PaddedEntries
<1>4. IsFiniteSet(inside) /\ IsFiniteSet(outside) /\ IsFiniteSet(Rest)
  <2>1. inside \in SUBSET P /\ outside \in SUBSET P /\ Rest \in SUBSET Index /\ IsFiniteSet(Index)
    BY Square DEF Rest
  <2> QED
    BY <1>1, <2>1, FS_Subset
<1>5. /\ Summable(cost, inside) /\ Summable(Padded, inside)
      /\ Summable(Padded, outside) /\ Summable(fill, Rest)
  <2>1. \A x \in inside : cost[x] \in Int /\ Padded[x] \in Int
    BY <1>0, <1>1, <1>3
  <2>2. \A x \in outside : Padded[x] \in Int
    BY <1>1, <1>3
  <2>3. \A k \in Rest : fill[k] \in Int
    BY <1>2
  <2> HIDE DEF inside, outside, fill
  <2> QED
    BY <1>4, <2>1, <2>2, <2>3 DEF Summable
<1>6. Total(Padded, inside) = Total(cost, inside)
  <2>1. \A x \in inside : Padded[x] = cost[x] /\ cost[x] \in Int
    BY <1>0, <1>1, <1>3
  <2>2. \A x \in inside : Padded[x] <= cost[x] /\ cost[x] <= Padded[x]
    BY <2>1
  <2> HIDE DEF inside
  <2>3. Total(Padded, inside) <= Total(cost, inside)
    BY <1>5, <2>2, TotalUpTo
  <2>4. Total(cost, inside) <= Total(Padded, inside)
    BY <1>5, <2>2, TotalUpTo
  <2>5. Total(cost, inside) \in Int /\ Total(Padded, inside) \in Int
    BY <1>5, TotalAdds
  <2> QED
    BY <2>3, <2>4, <2>5
<1>7. ASSUME NEW x \in P
      PROVE  x \in outside <=> (IF rows <= columns THEN x[1] ELSE x[2]) \in Rest
  <2>1. x = <<x[1], x[2]>> /\ x[1] \in Index /\ x[2] \in Index
    BY <1>1
  <2>2. x \in Cells(rows, columns) <=> x[1] \in 1 .. rows /\ x[2] \in 1 .. columns
    BY <2>1 DEF Cells
  <2>3. CASE rows <= columns
    <3>1. Index = 1 .. columns
      BY <1>0, <2>3 DEF Index, size
    <3> QED
      BY <2>1, <2>2, <2>3, <3>1 DEF Rest
  <2>4. CASE ~(rows <= columns)
    <3>1. Index = 1 .. rows
      BY <1>0, <2>4 DEF Index, size
    <3> QED
      BY <2>1, <2>2, <2>4, <3>1 DEF Rest
  <2> QED
    BY <2>3, <2>4
<1>8. {line[x] : x \in outside} = Rest
  <2>1. \A x \in outside : line[x] \in Rest
    BY <1>7
  <2>2. ASSUME NEW k \in Rest PROVE \E x \in outside : line[x] = k
    <3>1. k \in Index
      BY DEF Rest
    <3>2. PICK x \in P : (IF rows <= columns THEN x[1] ELSE x[2]) = k
      BY <1>1, <3>1 DEF Complete
    <3>3. x \in outside
      BY <1>7, <3>2
    <3> QED
      BY <3>2, <3>3
  <2> HIDE DEF line, outside
  <2> QED
    BY <2>1, <2>2
<1>9. Moved(line, Padded, outside, fill)
  <2>1. \A x, y \in outside : line[x] = line[y] => x = y
    BY <1>1 DEF Independent
  <2>2. ASSUME NEW x \in outside PROVE fill[line[x]] = Padded[x]
    <3>1. line[x] \in Rest
      BY <1>7
    <3>2. fill[line[x]] = m
      BY <1>2, <3>1
    <3> QED
      BY <1>1, <1>3, <3>2
  <2> HIDE DEF line, outside, fill
  <2> QED
    BY <2>1, <2>2 DEF Moved
<1>10. inside \cap outside = {} /\ inside \union outside = P
  OBVIOUS
<1>11. Filling = Total(fill, Rest)
  BY DEF Filling
<1> HIDE DEF inside, outside, fill, line
<1>12. Total(fill, Rest) = Total(Padded, outside)
  BY <1>5, <1>8, <1>9, TotalMoved
<1>13. Total(Padded, P) = Total(Padded, inside) + Total(Padded, outside)
  BY <1>5, <1>10, TotalUnion
<1>14. Total(fill, Rest) \in Int
  BY <1>5, TotalAdds
<1> QED
  BY <1>5, <1>6, <1>11, <1>12, <1>13, <1>14 DEF inside

(* A matching of the shape is the inside of a perfect matching of the square. *)
LEMMA MatchingExtends ==
  ASSUME SolverInput, NEW A, Matching(A)
  PROVE  \E P : Perfect(P, Index) /\ P \cap Cells(rows, columns) = A
<1>0. rows \in Nat /\ columns \in Nat /\ IsFiniteSet(Index)
  BY Square DEF SolverInput
<1>1. A \subseteq Cells(rows, columns) /\ Independent(A) /\ Cells(rows, columns) \subseteq Index \X Index
  BY Square DEF Matching
<1> DEFINE on1 == {a[1] : a \in A}
           on2 == {a[2] : a \in A}
<1>2. on1 \in SUBSET Index /\ on2 \in SUBSET Index
  BY <1>1
<1>3. Cardinality(on1) = Cardinality(on2) /\ IsFiniteSet(on1) /\ IsFiniteSet(on2)
  <2>1. IsFiniteSet(on1) /\ IsFiniteSet(on2)
    <3> HIDE DEF on1, on2
    <3> QED
      BY <1>0, <1>2, FS_Subset
  <2> DEFINE g == [i \in on1 |-> (CHOOSE a \in A : a[1] = i)[2]]
  <2>2. ASSUME NEW a \in A PROVE g[a[1]] = a[2]
    <3>1. a[1] \in on1
      OBVIOUS
    <3>2. PICK b \in A : b = CHOOSE x \in A : x[1] = a[1]
      OBVIOUS
    <3>3. b[1] = a[1]
      BY <3>2
    <3>4. b = a
      BY <1>1, <3>3 DEF Independent
    <3> QED
      BY <3>1, <3>2, <3>4
  <2>3. g \in Bijection(on1, on2)
    <3>1. \A i \in on1 : g[i] \in on2
      <4> SUFFICES ASSUME NEW i \in on1 PROVE g[i] \in on2
        OBVIOUS
      <4>1. PICK a \in A : a[1] = i
        OBVIOUS
      <4> QED
        BY <2>2, <4>1
    <3>2. g \in [on1 -> on2]
      BY <3>1
    <3>3. ASSUME NEW i \in on1, NEW j \in on1, g[i] = g[j] PROVE i = j
      <4>1. PICK a \in A : a[1] = i
        OBVIOUS
      <4>2. PICK b \in A : b[1] = j
        OBVIOUS
      <4>3. a[2] = b[2]
        BY <2>2, <3>3, <4>1, <4>2
      <4> QED
        BY <1>1, <4>1, <4>2, <4>3 DEF Independent
    <3>4. ASSUME NEW j \in on2 PROVE \E i \in on1 : g[i] = j
      <4>1. PICK a \in A : a[2] = j
        OBVIOUS
      <4>2. a[1] \in on1 /\ g[a[1]] = j
        BY <2>2, <4>1
      <4> HIDE DEF on1, g
      <4> QED
        BY <4>2
    <3> HIDE DEF g, on1, on2
    <3> QED
      BY <3>2, <3>3, <3>4 DEF Bijection, Injection, IsInjective, Surjection
  <2> HIDE DEF g, on1, on2
  <2>4. ExistsBijection(on1, on2)
    BY <2>3 DEF ExistsBijection
  <2> QED
    BY <2>1, <2>4, FS_Bijection
<1> DEFINE free1 == Index \ on1
           free2 == Index \ on2
<1>4. IsFiniteSet(free1) /\ IsFiniteSet(free2) /\ Cardinality(free1) = Cardinality(free2)
  <2> HIDE DEF on1, on2
  <2>1. free1 \in SUBSET Index /\ free2 \in SUBSET Index /\ Index \cap on1 = on1 /\ Index \cap on2 = on2
    BY <1>2
  <2>2. Cardinality(free1) = Cardinality(Index) - Cardinality(on1)
    BY <1>0, <1>3, <2>1, FS_Difference
  <2>3. Cardinality(free2) = Cardinality(Index) - Cardinality(on2)
    BY <1>0, <1>3, <2>1, FS_Difference
  <2>4. IsFiniteSet(free1) /\ IsFiniteSet(free2)
    <3> HIDE DEF free1, free2
    <3> QED
      BY <1>0, <2>1, FS_Subset
  <2> QED
    BY <1>3, <2>2, <2>3, <2>4
<1>5. PICK h : h \in Bijection(free1, free2)
  <2> HIDE DEF free1, free2
  <2> QED
    BY <1>4, FS_SameCardinalityBij DEF ExistsBijection
<1>6. h \in [free1 -> free2] /\ (\A i, j \in free1 : h[i] = h[j] => i = j) /\ \A j \in free2 : \E i \in free1 : h[i] = j
  BY <1>5 DEF Bijection, Injection, IsInjective, Surjection
<1> DEFINE added == {<<i, h[i]>> : i \in free1}
           P == A \union added
<1>7. \A a \in A : a \in Index \X Index /\ a[1] \notin free1 /\ a[2] \notin free2
  BY <1>1
<1>8. \A a \in added : a \in Index \X Index /\ a[1] \in free1 /\ a[2] = h[a[1]] /\ a[2] \in free2
  BY <1>6
<1>9. P \subseteq Index \X Index
  BY <1>7, <1>8
<1>10. Independent(P)
  <2> SUFFICES ASSUME NEW a \in P, NEW b \in P, a # b PROVE a[1] # b[1] /\ a[2] # b[2]
    BY DEF Independent
  <2>1. CASE a \in A /\ b \in A
    BY <1>1, <2>1 DEF Independent
  <2>2. CASE a \in A /\ b \in added
    <3> HIDE DEF added, free1, free2
    <3> QED
      BY <1>7, <1>8, <2>2
  <2>3. CASE a \in added /\ b \in A
    <3> HIDE DEF added, free1, free2
    <3> QED
      BY <1>7, <1>8, <2>3
  <2>4. CASE a \in added /\ b \in added
    <3>1. a[1] # b[1]
      BY <2>4
    <3>2. a[1] \in free1 /\ b[1] \in free1 /\ a[2] = h[a[1]] /\ b[2] = h[b[1]]
      BY <1>8, <2>4
    <3> HIDE DEF added, free1, free2, P
    <3> QED
      BY <1>6, <3>1, <3>2
  <2> QED
    BY <2>1, <2>2, <2>3, <2>4
<1>11. Complete(P, Index)
  <2> SUFFICES ASSUME NEW i \in Index PROVE (\E a \in P : a[1] = i) /\ (\E a \in P : a[2] = i)
    BY DEF Complete
  <2>1. \E a \in P : a[1] = i
    <3>1. CASE i \in on1
      BY <3>1
    <3>2. CASE i \in free1
      <4>1. <<i, h[i]>> \in P
        BY <3>2
      <4> QED
        BY <4>1
    <3> QED
      BY <3>1, <3>2
  <2>2. \E a \in P : a[2] = i
    <3>1. CASE i \in on2
      BY <3>1
    <3>2. CASE i \in free2
      <4>1. PICK k \in free1 : h[k] = i
        BY <1>6, <3>2
      <4>2. <<k, h[k]>> \in P
        BY <4>1
      <4> QED
        BY <4>1, <4>2
    <3> QED
      BY <3>1, <3>2
  <2> QED
    BY <2>1, <2>2
<1>12. \A a \in added : a \notin Cells(rows, columns)
  <2> SUFFICES ASSUME NEW a \in added, a \in Cells(rows, columns) PROVE FALSE
    OBVIOUS
  <2>1. a[1] \in 1 .. rows /\ a[2] \in 1 .. columns
    BY DEF Cells
  <2>2. a[1] \notin on1 /\ a[2] \notin on2
    BY <1>8
  <2>3. CASE rows <= columns
    <3>1. \E b \in A : b[1] = a[1]
      BY <2>1, <2>3 DEF Matching
    <3> QED
      BY <2>2, <3>1
  <2>4. CASE rows > columns
    <3>1. \E b \in A : b[2] = a[2]
      BY <2>1, <2>4 DEF Matching
    <3> QED
      BY <2>2, <3>1
  <2> QED
    BY <1>0, <2>3, <2>4
<1>13. P \cap Cells(rows, columns) = A
  <2> HIDE DEF added
  <2> QED
    BY <1>1, <1>12
<1> HIDE DEF P
<1> QED
  BY <1>9, <1>10, <1>11, <1>13 DEF Perfect

(* With a star on every line the pairs inside the shape are an assignment, and
   when no entry is negative none costs less. *)
LEMMA SolutionOptimal ==
  ASSUME SolverInv, Complete(Stars, Index)
  PROVE  /\ Solution \in Assignments(rows, columns)
         /\ (\A cell \in DOMAIN cost : cost[cell] >= 0)
              => Solution \in MinimumAssignments(cost, rows, columns)
<1>1. SolverInput /\ matrix \in [Grid -> Int] /\ Independent(Stars) /\ \A s \in Stars : matrix[s] = 0
  BY DEF SolverInv, SolverShape, Marks
<1>2. Grid = Index \X Index /\ IsFiniteSet(Index) /\ IsFiniteSet(Grid)
  BY <1>1, Square
<1>3. Perfect(Stars, Index)
  BY <1>1, <1>2 DEF Perfect, Stars
<1>4. Matching(Solution)
  BY <1>1, <1>3, InsideMatches DEF Solution
<1>5. Solution \in Assignments(rows, columns)
  BY <1>1, <1>4, AssignmentsMatch
<1>6. ASSUME \A cell \in DOMAIN cost : cost[cell] >= 0
      PROVE  Solution \in MinimumAssignments(cost, rows, columns)
  <2>1. \A cell \in Grid : matrix[cell] >= 0
    BY <1>6 DEF SolverInv, NonNegative
  <2>2. PICK u \in [Index -> Int], v \in [Index -> Int] :
          \A cell \in Grid : Padded[cell] = matrix[cell] + u[cell[1]] + v[cell[2]]
    BY DEF SolverInv, Dual
  <2>3. Summable(u, Index) /\ Summable(v, Index)
    BY <1>2, <2>2 DEF Summable
  <2>4. ASSUME NEW P, Perfect(P, Index)
        PROVE  /\ Summable(matrix, P)
               /\ Total(Padded, P) = Total(matrix, P) + Total(u, Index) + Total(v, Index)
    <3>1. P \in SUBSET Grid
      BY <1>2, <2>4 DEF Perfect
    <3>2. Summable(matrix, P)
      <4>1. IsFiniteSet(P)
        BY <1>2, <3>1, FS_Subset
      <4> QED
        BY <1>1, <3>1, <4>1 DEF Summable
    <3>3. Splits(Padded, matrix, u, v, P)
      BY <2>2, <3>1 DEF Splits
    <3> QED
      BY <1>2, <2>3, <2>4, <3>2, <3>3, PerfectTotal
  <2>5. Total(matrix, Stars) = 0
    BY <1>1, <1>3, <2>4, TotalOfZeros
  <2>6. Total(u, Index) \in Int /\ Total(v, Index) \in Int
    BY <2>3, TotalAdds
  <2>7. /\ Filling \in Int /\ Summable(cost, Solution)
        /\ Total(Padded, Stars) = Total(cost, Solution) + Filling
    BY <1>1, <1>3, OutsideTotal DEF Solution
  <2>8. Total(cost, Solution) \in Int
    BY <2>7, TotalAdds
  <2>9. ASSUME NEW A \in Assignments(rows, columns)
        PROVE  Total(cost, A) \in Int /\ Total(cost, Solution) <= Total(cost, A)
    <3>1. Matching(A)
      BY <1>1, AssignmentsMatch
    <3>2. PICK P : Perfect(P, Index) /\ P \cap Cells(rows, columns) = A
      BY <1>1, <3>1, MatchingExtends
    <3>3. Summable(cost, A) /\ Total(Padded, P) = Total(cost, A) + Filling
      BY <1>1, <3>2, OutsideTotal
    <3>4. Total(cost, A) \in Int
      BY <3>3, TotalAdds
    <3>5. Summable(matrix, P) /\ Total(Padded, P) = Total(matrix, P) + Total(u, Index) + Total(v, Index)
      BY <2>4, <3>2
    <3>6. Total(matrix, P) >= 0
      <4>1. \A cell \in P : matrix[cell] >= 0
        BY <1>2, <2>1, <3>2 DEF Perfect
      <4> QED
        BY <3>5, <4>1, TotalAboveZero
    <3>7. Total(matrix, P) \in Int
      BY <3>5, TotalAdds
    <3>8. Total(Padded, Stars) = Total(matrix, Stars) + Total(u, Index) + Total(v, Index)
      BY <1>3, <2>4
    <3> QED
      BY <2>5, <2>6, <2>7, <2>8, <3>3, <3>4, <3>5, <3>6, <3>7, <3>8
  <2> DEFINE totals == {Total(cost, A) : A \in Assignments(rows, columns)}
  <2>10. Total(cost, Solution) \in totals /\ \A y \in totals : y \in Int /\ Total(cost, Solution) <= y
    BY <1>5, <2>9
  <2>11. Min(totals) = Total(cost, Solution)
    <3>1. PICK x \in Int : x = Total(cost, Solution)
      BY <2>8
    <3> HIDE DEF totals
    <3>2. x \in totals /\ \A y \in totals : y \in Int /\ x <= y
      BY <2>10, <3>1
    <3>3. \A z \in totals : (\A y \in totals : z <= y) => z = x
      BY <3>2
    <3>4. Min(totals) \in totals /\ \A y \in totals : Min(totals) <= y
      BY <3>2 DEF Min
    <3> QED
      BY <3>1, <3>3, <3>4
  <2> QED
    BY <1>5, <2>11 DEF MinimumAssignments
<1> QED
  BY <1>5, <1>6

(* Where nothing changes the invariant is kept. *)
LEMMA SolverStutters ==
  ASSUME SolverInv, UNCHANGED solverVars
  PROVE  SolverInv'
<1> USE DEF solverVars
<1>0. size' = size /\ Index' = Index /\ Grid' = Grid
  BY DEF size, Index, Grid, Cells
<1>1. Stars' = Stars /\ Primes' = Primes /\ Padded' = Padded /\ Uncovered' = Uncovered
  BY <1>0 DEF Stars, Primes, Padded, Uncovered
<1>2. SolverShape'
  BY <1>0 DEF SolverInv, SolverShape, SolverInput, Cells
<1>3. Marks'
  BY <1>0, <1>1 DEF SolverInv, Marks, Independent
<1>4. Ordered'
  <2>1. PICK ord \in [Index -> Nat] : Order(ord)
    BY DEF SolverInv, Ordered
  <2>2. OnPath(ord)' = OnPath(ord)
    BY <1>0, <1>1 DEF OnPath, Turned
  <2>3. Order(ord)'
    BY <1>0, <1>1, <2>1, <2>2 DEF Order
  <2> QED
    BY <1>0, <2>1, <2>3 DEF Ordered
<1>5. Dual'
  BY <1>0, <1>1 DEF SolverInv, Dual
<1>6. NonNegative'
  BY <1>0 DEF SolverInv, NonNegative
<1> QED
  BY <1>2, <1>3, <1>4, <1>5, <1>6 DEF SolverInv

(* The invariant of the solver. *)
THEOREM SolverInvariant == SolverSpec => []SolverInv
<1>1. SolverInit => SolverInv
  BY SolverStarts
<1>2. SolverInv /\ [SolverNext \/ SolverDone]_solverVars => SolverInv'
  <2>1. SolverInv /\ SolverNext => SolverInv'
    BY SolverStep
  <2>2. SolverInv /\ UNCHANGED solverVars => SolverInv'
    BY SolverStutters
  <2> QED
    BY <2>1, <2>2 DEF SolverDone
<1> QED
  BY <1>1, <1>2, PTL DEF SolverSpec

(* On every matrix of every shape solve() ends, with an assignment, and of least
   total cost when no entry is negative. *)
THEOREM SolverSolves == SolverSpec => SolvesToOptimum
<1> DEFINE Result == Solution' \in IF \A cell \in DOMAIN cost : cost[cell] >= 0
                                   THEN MinimumAssignments(cost, rows, columns)
                                   ELSE Assignments(rows, columns)
           Solves == 0 <= Rank' /\ Rank' < Rank /\ (step' = 0 => Result)
<1>1. ASSUME SolverInv, [SolverNext \/ SolverDone]_solverVars
      PROVE  [Solves]_solverVars
  <2>1. CASE SolverNext
    <3>1. 0 <= Rank' /\ Rank' < Rank
      BY <1>1, <2>1, SolverStep
    <3>2. ASSUME step' = 0 PROVE Result
      <4>1. Solution' = Solution /\ Complete(Stars, Index)
        BY <1>1, <2>1, <3>2, SolverStep
      <4> QED
        BY <1>1, <4>1, SolutionOptimal
    <3> QED
      BY <3>1, <3>2
  <2>2. CASE UNCHANGED solverVars
    BY <2>2
  <2> QED
    BY <1>1, <2>1, <2>2 DEF SolverDone
<1>2. SolverSpec => []SolverInv
  BY SolverInvariant
<1> QED
  BY <1>1, <1>2, PTL DEF SolverSpec, SolvesToOptimum
=============================================================================
